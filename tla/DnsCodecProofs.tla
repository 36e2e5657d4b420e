---------------------------- MODULE DnsCodecProofs ----------------------------
(***************************************************************************)
(* Proofs about a text that is read, about the bytes of what is written,   *)
(* and about what becomes of a name an encoder is given.                   *)
(***************************************************************************)
EXTENDS DnsCodec, FoldTheorems

Code == Int

(* What reading keeps; of octal numbers a label may get more than a byte.   *)
Parsers ==
  [labels : Seq(Seq(Code)), label : Seq(Code),
   state : ParseState \cup {"failed", Panicked}, octal : Int]

Reading(text_) == [i \in 1 .. Len(text_) |-> [p \in Parsers |-> ReadChar(p, text_[i])]]

Read(text_) == FoldLeft(ReadChar, NewParser, text_)

ParserOf(labels, label, state, octal) ==
  [labels |-> labels, label |-> label, state |-> state, octal |-> octal]

LEMMA ParserFields ==
  ASSUME NEW ls, NEW l, NEW st, NEW o
  PROVE  /\ ParserOf(ls, l, st, o).labels = ls /\ ParserOf(ls, l, st, o).label = l
         /\ ParserOf(ls, l, st, o).state = st /\ ParserOf(ls, l, st, o).octal = o
BY DEF ParserOf

LEMMA WithState ==
  ASSUME NEW ls, NEW l, NEW st, NEW o, NEW s
  PROVE  [ParserOf(ls, l, st, o) EXCEPT !.state = s] = ParserOf(ls, l, s, o)
BY DEF ParserOf

LEMMA WithOctal ==
  ASSUME NEW ls, NEW l, NEW st, NEW o, NEW s, NEW v
  PROVE  [ParserOf(ls, l, st, o) EXCEPT !.state = s, !.octal = v] = ParserOf(ls, l, s, v)
<1> DEFINE p == [ParserOf(ls, l, st, o) EXCEPT !.state = s, !.octal = v]
<1>1. p = [ParserOf(ls, l, st, o) EXCEPT !.state = s, !.octal = v]
  OBVIOUS
<1> HIDE DEF p
<1>2. p = ParserOf(ls, l, s, v)
  BY <1>1 DEF ParserOf
<1> QED
  BY <1>2 DEF p

LEMMA Pushed ==
  ASSUME NEW ls, NEW l, NEW st, NEW o, NEW c
  PROVE  Push(ParserOf(ls, l, st, o), c) = ParserOf(ls, Append(l, c), "label", 0)
<1> DEFINE longer == Append(l, c)
           p == ParserOf(ls, l, st, o)
<1>0. p.label = l
  BY DEF ParserOf
<1>1. Push(p, c) = [p EXCEPT !.label = longer, !.state = "label", !.octal = 0]
  BY <1>0 DEF Push
<1> HIDE DEF longer
<1>2. Push(p, c) = ParserOf(ls, longer, "label", 0)
  BY <1>1 DEF ParserOf
<1> QED
  BY <1>2 DEF longer

LEMMA LabelEnded ==
  ASSUME NEW ls, NEW l, NEW st, NEW o
  PROVE  EndLabel(ParserOf(ls, l, st, o)) =
           IF IsAsciiLabel(l) /\ NameLen(Append(ls, l)) <= MAX_NAME
           THEN ParserOf(Append(ls, l), <<>>, st, o) ELSE ParserOf(ls, l, "failed", o)
<1> DEFINE more == Append(ls, l)
           good == IsAsciiLabel(l) /\ NameLen(more) <= MAX_NAME
           p == ParserOf(ls, l, st, o)
<1>0. p.label = l /\ p.labels = ls
  BY DEF ParserOf
<1> HIDE DEF p
<1>1. EndLabel(p) = IF good THEN [p EXCEPT !.labels = more, !.label = <<>>]
                    ELSE [p EXCEPT !.state = "failed"]
  BY <1>0 DEF EndLabel
<1> HIDE DEF more, good
<1>2. EndLabel(p) = IF good THEN ParserOf(more, <<>>, st, o) ELSE ParserOf(ls, l, "failed", o)
  BY <1>1 DEF ParserOf, p
<1> QED
  BY <1>2 DEF more, good, p

LEMMA EndLabelTyped ==
  ASSUME NEW q \in Parsers
  PROVE  EndLabel(q) \in Parsers
<1>0. PICK ls \in Seq(Seq(Code)), l \in Seq(Code), st \in ParseState \cup {"failed", Panicked}, o \in Int :
        q = ParserOf(ls, l, st, o)
  BY DEF Parsers, ParserOf
<1>1. ASSUME NEW a \in Seq(Seq(Code)), NEW b \in Seq(Code), NEW s \in ParseState \cup {"failed", Panicked}
      PROVE  ParserOf(a, b, s, o) \in Parsers
  BY DEF ParserOf, Parsers
<1>2. Append(ls, l) \in Seq(Seq(Code)) /\ <<>> \in Seq(Code)
  OBVIOUS
<1>3. EndLabel(q) \in {ParserOf(Append(ls, l), <<>>, st, o), ParserOf(ls, l, "failed", o)}
  BY <1>0, LabelEnded
<1> QED
  BY <1>1, <1>2, <1>3

LEMMA ReadCharTyped ==
  ASSUME NEW q \in Parsers, NEW c \in Code
  PROVE  ReadChar(q, c) \in Parsers
<1> USE DEF ParseState
<1>0. PICK ls \in Seq(Seq(Code)), l \in Seq(Code), st \in ParseState \cup {"failed", Panicked}, o \in Int :
        q = ParserOf(ls, l, st, o)
  BY DEF Parsers, ParserOf
<1> DEFINE p == ParserOf(ls, l, st, o)
<1> SUFFICES ReadChar(p, c) \in Parsers
  BY <1>0
<1>1. ASSUME NEW a \in Seq(Seq(Code)), NEW b \in Seq(Code), NEW s \in ParseState \cup {"failed", Panicked},
             NEW v \in Int
      PROVE  ParserOf(a, b, s, v) \in Parsers
  BY DEF ParserOf, Parsers
<1>2. \A d \in Code : Append(l, d) \in Seq(Code)
  BY AppendProperties
<1>3. \A d \in Code : Push(p, d) \in Parsers
  <2>1. ASSUME NEW d \in Code PROVE Push(p, d) \in Parsers
    <3>1. Push(p, d) = ParserOf(ls, Append(l, d), "label", 0)
      BY Pushed
    <3>2. Append(l, d) \in Seq(Code) /\ "label" \in ParseState /\ 0 \in Int
      BY <1>2
    <3> QED
      BY <1>1, <3>1, <3>2
  <2> QED
    BY <2>1
<1>4. EndLabel(p) \in Parsers
  BY <1>1, EndLabelTyped
<1>5. p.state = st /\ p.octal = o
  BY ParserFields
<1>6. ASSUME NEW s \in ParseState \cup {"failed", Panicked}, NEW v \in Int
      PROVE  [p EXCEPT !.state = s] \in Parsers /\ [p EXCEPT !.state = s, !.octal = v] \in Parsers
  <2>0. p \in Parsers
    BY <1>1
  <2> HIDE DEF p
  <2>1. [p EXCEPT !.state = s] \in Parsers
    BY <2>0 DEF Parsers
  <2>2. [p EXCEPT !.state = s, !.octal = v] \in Parsers
    BY <2>0 DEF Parsers
  <2> QED
    BY <2>1, <2>2
<1>p. p \in Parsers
  BY <1>1
<1> HIDE DEF p
<1>7. ReadPlain(p, c) \in Parsers
  BY <1>3, <1>4, <1>6 DEF ReadPlain
<1>8. CASE st \in {"escape1", "escape2", "escape3"}
  <2>1. AfterDigit[st] \in ParseState /\ 8 * o + c - 48 \in Int
    BY <1>8 DEF AfterDigit, Code
  <2>2. ReadEscape(p, c) \in Parsers
    BY <1>3, <1>5, <1>6, <2>1 DEF ReadEscape, Code
  <2> QED
    BY <1>5, <1>8, <1>p, <2>2 DEF ReadChar
<1>9. CASE st \notin {"escape1", "escape2", "escape3"}
  BY <1>5, <1>7, <1>9, <1>p DEF ReadChar
<1> QED
  BY <1>8, <1>9

LEMMA ReadingRun ==
  ASSUME NEW t \in Seq(Code)
  PROVE  \E f : IsRun(f, Parsers, Len(t), NewParser, Reading(t)) /\ Read(t) = f[Len(t)]
<1> DEFINE n == Len(t)
           Step(h) == [s \in SUBSET (1 .. n) |->
                         IF s = {} THEN NewParser ELSE ReadChar(h[s \ {Max(s)}], t[Max(s)])]
           it == CHOOSE h : h = Step(h)
<1>1. n \in Nat /\ DOMAIN t = 1 .. n /\ \A i \in 1 .. n : t[i] \in Code
  OBVIOUS
<1>2. NewParser \in Parsers
  BY EmptySeq DEF NewParser, Parsers, ParseState
<1>3. Reading(t) \in [1 .. n -> [Parsers -> Parsers]]
  BY <1>1, ReadCharTyped DEF Reading
<1>4. Read(t) = it[1 .. n]
  BY <1>1 DEF Read, FoldLeft, MapThenFoldSet
<1>5. \E h : h = Step(h)
  <2>1. PICK h : IsFold(h, Parsers, n, NewParser, Reading(t))
    BY <1>1, <1>2, <1>3, FoldExists
  <2>2. h = [s \in SUBSET (1 .. n) |-> h[s]]
    BY <2>1 DEF IsFold
  <2>3. ASSUME NEW s \in SUBSET (1 .. n)
        PROVE  h[s] = IF s = {} THEN NewParser ELSE ReadChar(h[s \ {Max(s)}], t[Max(s)])
    <3>1. CASE s = {}
      BY <2>1, <3>1 DEF IsFold
    <3>2. CASE s # {}
      <4>1. Max(s) \in 1 .. n
        BY <1>1, <3>2, LargestNumber
      <4>2. s \ {Max(s)} \in SUBSET (1 .. n)
        OBVIOUS
      <4>3. h[s \ {Max(s)}] \in Parsers /\ h[s] = Reading(t)[Max(s)][h[s \ {Max(s)}]]
        BY <2>1, <3>2, <4>2 DEF IsFold
      <4> QED
        BY <3>2, <4>1, <4>3 DEF Reading
    <3> QED
      BY <3>1, <3>2
  <2> QED
    BY <2>2, <2>3
<1>6. it = Step(it)
  <2> HIDE DEF Step
  <2> QED
    BY <1>5
<1> HIDE DEF it
<1>7. FoldsTo(it, Parsers, n, NewParser, Reading(t))
  <2>1. ASSUME NEW s \in SUBSET (1 .. n), s # {}, it[s \ {Max(s)}] \in Parsers
        PROVE  it[s] = Reading(t)[Max(s)][it[s \ {Max(s)}]]
    <3>1. Max(s) \in 1 .. n
      BY <1>1, <2>1, LargestNumber
    <3>2. it[s] = ReadChar(it[s \ {Max(s)}], t[Max(s)])
      BY <1>6, <2>1
    <3> QED
      BY <2>1, <3>1, <3>2 DEF Reading
  <2>2. ASSUME NEW s \in SUBSET (1 .. n), s = {}
        PROVE  it[s] = NewParser
    BY <1>6, <2>2
  <2> QED
    BY <2>1, <2>2 DEF FoldsTo
<1> HIDE DEF n
<1>8. \E f : IsRun(f, Parsers, n, NewParser, Reading(t)) /\ it[1 .. n] = f[n]
  BY <1>1, <1>2, <1>3, <1>7, FoldIsRun
<1> QED
  BY <1>4, <1>8 DEF n

LEMMA ReadTyped ==
  ASSUME NEW t \in Seq(Code)
  PROVE  Read(t) \in Parsers
<1>1. PICK f : IsRun(f, Parsers, Len(t), NewParser, Reading(t)) /\ Read(t) = f[Len(t)]
  BY ReadingRun
<1>2. Len(t) \in 0 .. Len(t)
  OBVIOUS
<1> QED
  BY <1>1, <1>2 DEF IsRun

LEMMA ReadNothing == Read(<<>>) = NewParser
<1>1. <<>> \in Seq(Code) /\ Len(<<>>) = 0
  OBVIOUS
<1>2. PICK f : IsRun(f, Parsers, 0, NewParser, Reading(<<>>)) /\ Read(<<>>) = f[0]
  BY <1>1, ReadingRun
<1> QED
  BY <1>2 DEF IsRun

(* Reading goes on where it was. *)
LEMMA ReadNext ==
  ASSUME NEW t \in Seq(Code), NEW c \in Code
  PROVE  Then(t, c) \in Seq(Code) /\ Read(Then(t, c)) = ReadChar(Read(t), c)
<1> DEFINE n == Len(t)
           more == Append(t, c)
<1>1. /\ n \in Nat /\ more \in Seq(Code) /\ Len(more) = n + 1
      /\ \A i \in 1 .. n : more[i] = t[i]
      /\ more[n + 1] = c /\ more = Then(t, c)
  BY AppendProperties, AppendIsConcat DEF Then
<1> HIDE DEF more
<1>2. PICK f : IsRun(f, Parsers, n, NewParser, Reading(t)) /\ Read(t) = f[n]
  BY ReadingRun
<1>3. PICK g : IsRun(g, Parsers, n + 1, NewParser, Reading(more)) /\ Read(more) = g[n + 1]
  BY <1>1, ReadingRun
<1>4. f[n] = g[n]
  <2>1. f[0] = g[0] /\ n \in 0 .. n
    BY <1>1, <1>2, <1>3 DEF IsRun
  <2>2. ASSUME NEW i \in 1 .. n
        PROVE  f[i] = Reading(t)[i][f[i - 1]] /\ g[i] = Reading(t)[i][g[i - 1]]
    <3>1. f[i] = Reading(t)[i][f[i - 1]]
      BY <1>2 DEF IsRun
    <3>2. i \in 1 .. n + 1
      BY <1>1
    <3>3. g[i] = Reading(more)[i][g[i - 1]]
      BY <1>3, <3>2 DEF IsRun
    <3>4. Reading(more)[i] = Reading(t)[i]
      BY <1>1, <3>2 DEF Reading
    <3> QED
      BY <3>1, <3>3, <3>4
  <2> DEFINE next == Reading(t)
  <2>3. n \in Nat /\ IsStepped(f, n, next) /\ IsStepped(g, n, next)
    BY <1>1, <2>2 DEF IsStepped
  <2> HIDE DEF next, n
  <2> QED
    BY <2>1, <2>3, RunsAgree
<1>5. g[n + 1] = Reading(more)[n + 1][g[n]]
  <2>1. n + 1 \in 1 .. n + 1 /\ (n + 1) - 1 = n
    BY <1>1
  <2> QED
    BY <1>3, <2>1 DEF IsRun
<1>6. Reading(more)[n + 1][g[n]] = ReadChar(g[n], c)
  <2>1. n + 1 \in 1 .. Len(more) /\ g[n] \in Parsers
    BY <1>1, <1>2, <1>4, ReadTyped
  <2> QED
    BY <1>1, <2>1 DEF Reading
<1> QED
  BY <1>1, <1>2, <1>3, <1>4, <1>5, <1>6

------------------------------------------------------------------------------
(* Single characters: one that is read as it is, a backslash, one behind it, *)
(* and the digits of an octal number.                                        *)
LEMMA ReadSafe ==
  ASSUME NEW ls, NEW l, NEW c \in Code, c \notin {Dot, Backslash}, ~IsControlOrSpace(c)
  PROVE  ReadChar(ParserOf(ls, l, "label", 0), c) = ParserOf(ls, Append(l, c), "label", 0)
<1> DEFINE p == ParserOf(ls, l, "label", 0)
<1>1. p.state = "label"
  BY ParserFields
<1>2. Push(p, c) = ParserOf(ls, Append(l, c), "label", 0)
  BY Pushed
<1> HIDE DEF p
<1>3. ReadPlain(p, c) = Push(p, c)
  BY DEF ReadPlain
<1>4. ReadChar(p, c) = ReadPlain(p, c)
  BY <1>1, TextAssumption DEF ReadChar, ParseState
<1> QED
  BY <1>2, <1>3, <1>4 DEF p

LEMMA ReadBackslash ==
  ASSUME NEW ls, NEW l
  PROVE  ReadChar(ParserOf(ls, l, "label", 0), Backslash) = ParserOf(ls, l, "escape1", 0)
<1> DEFINE p == ParserOf(ls, l, "label", 0)
<1>1. p.state = "label"
  BY ParserFields
<1>2. [p EXCEPT !.state = "escape1"] = ParserOf(ls, l, "escape1", 0)
  BY WithState
<1> HIDE DEF p
<1>3. ReadPlain(p, Backslash) = [p EXCEPT !.state = "escape1"]
  BY DEF ReadPlain, Backslash, Dot, IsControlOrSpace
<1>4. ReadChar(p, Backslash) = ReadPlain(p, Backslash)
  BY <1>1, TextAssumption DEF ReadChar, ParseState
<1> QED
  BY <1>2, <1>3, <1>4 DEF p

LEMMA ReadEscaped ==
  ASSUME NEW ls, NEW l, NEW c \in Code, ~IsNumeric(c)
  PROVE  ReadChar(ParserOf(ls, l, "escape1", 0), c) = ParserOf(ls, Append(l, c), "label", 0)
<1> DEFINE p == ParserOf(ls, l, "escape1", 0)
<1>1. p.state = "escape1"
  BY ParserFields
<1>2. Push(p, c) = ParserOf(ls, Append(l, c), "label", 0)
  BY Pushed
<1> HIDE DEF p
<1>3. ReadEscape(p, c) = Push(p, c)
  BY <1>1 DEF ReadEscape
<1>4. ReadChar(p, c) = ReadEscape(p, c)
  BY <1>1, TextAssumption DEF ReadChar, ParseState
<1> QED
  BY <1>2, <1>3, <1>4 DEF p

(* The number o, read so far, becomes value by the digit c. *)
Continues(o, c, value) == o \in Nat /\ c \in 48 .. 55 /\ value = 8 * o + c - 48

LEMMA DigitRead ==
  ASSUME NEW ls, NEW l, NEW st \in {"escape1", "escape2", "escape3"},
         NEW o, NEW c, NEW value, Continues(o, c, value)
  PROVE  ReadChar(ParserOf(ls, l, st, o), c) =
           IF st = "escape3" THEN ParserOf(ls, Append(l, value), "label", 0)
           ELSE ParserOf(ls, l, AfterDigit[st], value)
<1> DEFINE p == ParserOf(ls, l, st, o)
           after == AfterDigit[st]
           next == [p EXCEPT !.state = after, !.octal = value]
<1>1. p.state = st /\ p.octal = o
  BY ParserFields
<1>2. c \in 48 .. 55 /\ value = 8 * o + c - 48
  BY DEF Continues
<1>3. Push(p, value) = ParserOf(ls, Append(l, value), "label", 0)
  BY Pushed
<1>4. next = [p EXCEPT !.state = after, !.octal = value]
  OBVIOUS
<1>5. ReadEscape(p, c) = IF st = "escape3" THEN Push(p, value) ELSE next
  <2> HIDE DEF p
  <2>1. IsNumeric(c) /\ IsOctal(c)
    BY <1>2 DEF IsNumeric, IsOctal
  <2> QED
    BY <1>1, <1>2, <2>1 DEF ReadEscape
<1> HIDE DEF next, after
<1>6. next = ParserOf(ls, l, after, value)
  BY <1>4 DEF ParserOf
<1>7. ReadChar(p, c) = ReadEscape(p, c)
  <2> HIDE DEF p
  <2> QED
    BY <1>1, TextAssumption DEF ReadChar, ParseState
<1> QED
  BY <1>3, <1>5, <1>6, <1>7 DEF after

LEMMA ReadFirstDigit ==
  ASSUME NEW ls, NEW l, NEW o, NEW c, NEW value, Continues(o, c, value)
  PROVE  ReadChar(ParserOf(ls, l, "escape1", o), c) = ParserOf(ls, l, "escape2", value)
<1>1. ASSUME NEW st \in {"escape1", "escape2", "escape3"}
      PROVE  ReadChar(ParserOf(ls, l, st, o), c) =
               IF st = "escape3" THEN ParserOf(ls, Append(l, value), "label", 0)
               ELSE ParserOf(ls, l, AfterDigit[st], value)
  BY DigitRead
<1> QED
  BY <1>1 DEF AfterDigit

LEMMA ReadSecondDigit ==
  ASSUME NEW ls, NEW l, NEW o, NEW c, NEW value, Continues(o, c, value)
  PROVE  ReadChar(ParserOf(ls, l, "escape2", o), c) = ParserOf(ls, l, "escape3", value)
<1>1. ASSUME NEW st \in {"escape1", "escape2", "escape3"}
      PROVE  ReadChar(ParserOf(ls, l, st, o), c) =
               IF st = "escape3" THEN ParserOf(ls, Append(l, value), "label", 0)
               ELSE ParserOf(ls, l, AfterDigit[st], value)
  BY DigitRead
<1> QED
  BY <1>1 DEF AfterDigit

LEMMA ReadThirdDigit ==
  ASSUME NEW ls, NEW l, NEW o, NEW c, NEW value, Continues(o, c, value)
  PROVE  ReadChar(ParserOf(ls, l, "escape3", o), c) = ParserOf(ls, Append(l, value), "label", 0)
<1>1. ASSUME NEW st \in {"escape1", "escape2", "escape3"}
      PROVE  ReadChar(ParserOf(ls, l, st, o), c) =
               IF st = "escape3" THEN ParserOf(ls, Append(l, value), "label", 0)
               ELSE ParserOf(ls, l, AfterDigit[st], value)
  BY DigitRead
<1> QED
  BY <1>1 DEF AfterDigit

LEMMA ReadOctal ==
  ASSUME NEW t \in Seq(Code), NEW ls, NEW l, Read(t) = ParserOf(ls, l, "label", 0), NEW b \in Bytes
  PROVE  /\ Cat(<<Backslash>>, Octal(b)) \in Seq(Code)
         /\ Read(Cat(t, Cat(<<Backslash>>, Octal(b)))) = ParserOf(ls, Append(l, b), "label", 0)
<1>1. PICK x, y, z :
        /\ x \in 48 .. 55 /\ y \in 48 .. 55 /\ z \in 48 .. 55
        /\ Octal(b) = <<x, y, z>> /\ 8 * (8 * (x - 48) + y - 48) + z - 48 = b
  <2>1. /\ 48 + b \div 64 \in 48 .. 55 /\ 48 + ((b \div 8) % 8) \in 48 .. 55
        /\ 48 + (b % 8) \in 48 .. 55
        /\ 8 * (8 * (b \div 64) + ((b \div 8) % 8)) + (b % 8) = b
    BY DEF Bytes
  <2> DEFINE d == 48 + b \div 64  e == 48 + ((b \div 8) % 8)  f == 48 + (b % 8)
  <2>2. Octal(b) = <<d, e, f>>
    BY DEF Octal
  <2>3. /\ d \in 48 .. 55 /\ e \in 48 .. 55 /\ f \in 48 .. 55
        /\ d - 48 = b \div 64 /\ e - 48 = (b \div 8) % 8 /\ f - 48 = b % 8
    BY DEF Bytes
  <2>4. 8 * (8 * (d - 48) + e - 48) + f - 48 = b
    BY <2>1, <2>3
  <2> HIDE DEF d, e, f
  <2> QED
    BY <2>2, <2>3, <2>4
<1>2. x \in Code /\ y \in Code /\ z \in Code /\ Backslash \in Code
  BY <1>1 DEF Backslash, Code
<1> DEFINE t1 == Then(t, Backslash)  t2 == Then(t1, x)  t3 == Then(t2, y)  t4 == Then(t3, z)
<1>3. /\ Cat(<<Backslash>>, Octal(b)) \in Seq(Code)
      /\ Cat(t, Cat(<<Backslash>>, Octal(b))) = t4
  BY <1>1, <1>2, OneByOne
<1>4. t1 \in Seq(Code) /\ Read(t1) = ParserOf(ls, l, "escape1", 0)
  <2>1. t1 \in Seq(Code) /\ Read(t1) = ReadChar(ParserOf(ls, l, "label", 0), Backslash)
    BY <1>2, ReadNext
  <2> QED
    BY <2>1, ReadBackslash
<1> HIDE DEF t1
<1>5. t2 \in Seq(Code) /\ Read(t2) = ParserOf(ls, l, "escape2", x - 48)
  <2>1. t2 \in Seq(Code) /\ Read(t2) = ReadChar(ParserOf(ls, l, "escape1", 0), x)
    BY <1>2, <1>4, ReadNext
  <2> DEFINE o == 0  value == x - 48
  <2>2. Continues(o, x, value)
    BY <1>1 DEF Continues
  <2> HIDE DEF o, value
  <2>3. ReadChar(ParserOf(ls, l, "escape1", o), x) = ParserOf(ls, l, "escape2", value)
    BY <2>2, ReadFirstDigit
  <2> QED
    BY <2>1, <2>3 DEF o, value
<1> HIDE DEF t2
<1>6. t3 \in Seq(Code) /\ Read(t3) = ParserOf(ls, l, "escape3", 8 * (x - 48) + y - 48)
  <2>1. t3 \in Seq(Code) /\ Read(t3) = ReadChar(ParserOf(ls, l, "escape2", x - 48), y)
    BY <1>2, <1>5, ReadNext
  <2> DEFINE o == x - 48  value == 8 * o + y - 48
  <2>2. Continues(o, y, value)
    BY <1>1 DEF Continues
  <2> HIDE DEF o, value
  <2>3. ReadChar(ParserOf(ls, l, "escape2", o), y) = ParserOf(ls, l, "escape3", value)
    BY <2>2, ReadSecondDigit
  <2> QED
    BY <2>1, <2>3 DEF o, value
<1> HIDE DEF t3
<1>7. t4 \in Seq(Code) /\ Read(t4) = ParserOf(ls, Append(l, b), "label", 0)
  <2> DEFINE o == 8 * (x - 48) + y - 48
  <2>1. Continues(o, z, b)
    BY <1>1 DEF Continues
  <2>2. t4 \in Seq(Code) /\ Read(t4) = ReadChar(ParserOf(ls, l, "escape3", o), z)
    BY <1>2, <1>6, ReadNext
  <2> HIDE DEF o
  <2>3. ReadChar(ParserOf(ls, l, "escape3", o), z) = ParserOf(ls, Append(l, b), "label", 0)
    BY <2>1, ReadThirdDigit
  <2> QED
    BY <2>2, <2>3
<1> HIDE DEF t4
<1> QED
  BY <1>3, <1>7

LEMMA ReadByte ==
  ASSUME NEW t \in Seq(Code), NEW ls, NEW l, Read(t) = ParserOf(ls, l, "label", 0),
         NEW b \in Bytes, NEW first
  PROVE  /\ WriteByte(b, first) \in Seq(Code)
         /\ Read(Cat(t, WriteByte(b, first))) = ParserOf(ls, Append(l, b), "label", 0)
<1>1. b \in Code /\ Backslash \in Code
  BY DEF Bytes, Code, Backslash
<1>2. CASE IsSafeAscii(b, first, TRUE)
  <2>1. b \notin {Dot, Backslash} /\ ~IsControlOrSpace(b)
    BY <1>2 DEF IsSafeAscii, IsAlphanumeric, IsControlOrSpace, Dot, Dash, Asterisk, Underscore,
                Backslash, Bytes
  <2>2. Cat(t, <<b>>) = Then(t, b) /\ <<b>> \in Seq(Code)
    BY <1>1 DEF Cat, Then
  <2>3. Read(Then(t, b)) = ReadChar(ParserOf(ls, l, "label", 0), b)
    BY <1>1, ReadNext
  <2>4. ReadChar(ParserOf(ls, l, "label", 0), b) = ParserOf(ls, Append(l, b), "label", 0)
    BY <1>1, <2>1, ReadSafe
  <2> QED
    BY <1>2, <2>2, <2>3, <2>4 DEF WriteByte
<1>3. CASE ~IsSafeAscii(b, first, TRUE) /\ b > 32 /\ b < 127
  <2>1. ~IsNumeric(b)
    BY <1>3 DEF IsSafeAscii, IsAlphanumeric, IsNumeric, Bytes
  <2>2. WriteByte(b, first) = <<Backslash, b>>
    BY <1>3 DEF WriteByte
  <2>3. <<Backslash, b>> \in Seq(Code) /\ Cat(t, <<Backslash, b>>) = Then(Then(t, Backslash), b)
    BY <1>1, TwoByOne
  <2>4. /\ Then(t, Backslash) \in Seq(Code)
        /\ Read(Then(t, Backslash)) = ParserOf(ls, l, "escape1", 0)
    BY <1>1, ReadNext, ReadBackslash
  <2>5. Read(Then(Then(t, Backslash), b)) = ReadChar(ParserOf(ls, l, "escape1", 0), b)
    BY <1>1, <2>4, ReadNext
  <2>6. ReadChar(ParserOf(ls, l, "escape1", 0), b) = ParserOf(ls, Append(l, b), "label", 0)
    BY <1>1, <2>1, ReadEscaped
  <2> QED
    BY <2>2, <2>3, <2>5, <2>6
<1>4. CASE ~IsSafeAscii(b, first, TRUE) /\ ~(b > 32 /\ b < 127)
  <2>1. WriteByte(b, first) = Cat(<<Backslash>>, Octal(b))
    BY <1>4 DEF WriteByte, Cat
  <2> QED
    BY <2>1, ReadOctal
<1> QED
  BY <1>2, <1>3, <1>4

(* What is written never begins with a dot. *)
LEMMA WrittenByte ==
  ASSUME NEW b \in Bytes, NEW first
  PROVE  /\ WriteByte(b, first) \in Seq(Code) /\ Len(WriteByte(b, first)) > 0
         /\ WriteByte(b, first)[1] # Dot
<1>1. WriteByte(b, first) \in Seq(Code)
  BY ReadByte, ReadNothing, EmptySeq DEF NewParser, ParserOf
<1>2. CASE IsSafeAscii(b, first, TRUE)
  <2>1. b # Dot
    BY <1>2 DEF IsSafeAscii, IsAlphanumeric, Dot, Dash, Asterisk, Underscore
  <2> QED
    BY <1>1, <1>2, <2>1 DEF WriteByte
<1>3. CASE ~IsSafeAscii(b, first, TRUE)
  BY <1>1, <1>3 DEF WriteByte, Octal, Backslash, Dot
<1> QED
  BY <1>2, <1>3

LEMMA ReadLabel ==
  ASSUME NEW t \in Seq(Code), NEW ls, Read(t) = ParserOf(ls, <<>>, "label", 0),
         NEW label \in Seq(Bytes)
  PROVE  /\ WriteLabel(label) \in Seq(Code)
         /\ Read(Cat(t, WriteLabel(label))) = ParserOf(ls, label, "label", 0)
<1> DEFINE n == Len(label)
           parts == [i \in DOMAIN label |-> WriteByte(label[i], i = 1)]
           read == {i \in 0 .. n : /\ FlattenTo(parts, i) \in Seq(Code)
                                   /\ Read(Cat(t, FlattenTo(parts, i))) =
                                        ParserOf(ls, SubSeq(label, 1, i), "label", 0)}
<1>1. n \in Nat /\ DOMAIN label = 1 .. n /\ \A i \in 1 .. n : label[i] \in Bytes
  OBVIOUS
<1>2. \A i \in 1 .. n : parts[i] = WriteByte(label[i], i = 1) /\ parts[i] \in Seq(Code)
  BY <1>1, WrittenByte
<1>3. parts \in Seq(Seq(Code)) /\ Len(parts) = n
  BY <1>1, <1>2
<1>4. WriteLabel(label) = FlattenSeq(parts)
  BY DEF WriteLabel
<1> HIDE DEF parts
<1>5. FlattenTo(parts, 0) = <<>> /\ FlattenTo(parts, n) = FlattenSeq(parts)
  BY <1>3, FlattenEnds
<1>6. 0 \in read
  <2>1. Cat(t, <<>>) = t /\ <<>> \in Seq(Code) /\ SubSeq(label, 1, 0) = <<>>
    BY CatNothing, SubSeqEmpty, EmptySeq
  <2>2. 0 \in 0 .. n
    BY <1>1
  <2>3. /\ FlattenTo(parts, 0) \in Seq(Code)
        /\ Read(Cat(t, FlattenTo(parts, 0))) = ParserOf(ls, SubSeq(label, 1, 0), "label", 0)
    BY <1>5, <2>1
  <2> QED
    BY <2>2, <2>3
<1>7. ASSUME NEW i \in 0 .. n - 1, i \in read
      PROVE  i + 1 \in read
  <2> DEFINE f == FlattenTo(parts, i)
             byte == label[i + 1]
             w == WriteByte(byte, i + 1 = 1)
  <2>1. i + 1 \in 1 .. n /\ i + 1 \in 0 .. n
    BY <1>1
  <2>2. f \in Seq(Code) /\ FlattenTo(parts, i + 1) = Cat(f, w)
    BY <1>1, <1>2, <1>3, <2>1, FlattenNext
  <2>3. byte \in Bytes /\ SubSeq(label, 1, i + 1) = Append(SubSeq(label, 1, i), byte)
    BY <1>1, NextPrefix
  <2>4. w \in Seq(Code)
    BY <2>3, WrittenByte
  <2>5. Read(Cat(t, f)) = ParserOf(ls, SubSeq(label, 1, i), "label", 0)
    BY <1>7
  <2> HIDE DEF f, w, byte
  <2>6. Cat(t, Cat(f, w)) = Cat(Cat(t, f), w) /\ Cat(t, f) \in Seq(Code) /\ Cat(f, w) \in Seq(Code)
    BY <2>2, <2>4, CatThree
  <2>7. Read(Cat(Cat(t, f), w)) = ParserOf(ls, Append(SubSeq(label, 1, i), byte), "label", 0)
    BY <2>3, <2>5, <2>6, ReadByte DEF w
  <2> QED
    BY <2>1, <2>2, <2>3, <2>6, <2>7
<1> HIDE DEF read
<1>8. \A i \in 0 .. n : i \in read
  BY <1>1, <1>6, <1>7, CountedNumbers
<1>9. n \in read
  BY <1>1, <1>8
<1>10. SubSeq(label, 1, n) = label
  BY SubSeqFull
<1> QED
  BY <1>4, <1>5, <1>9, <1>10 DEF read

Begins(t) == t \in Seq(Code) /\ Len(t) > 0 /\ t[1] # Dot

LEMMA BeginsOn ==
  ASSUME NEW s, Begins(s), NEW t \in Seq(Code)
  PROVE  Begins(Cat(s, t))
<1>1. s \in Seq(Code) /\ Len(s) > 0 /\ s[1] # Dot
  BY DEF Begins
<1>2. /\ Cat(s, t) \in Seq(Code) /\ Len(Cat(s, t)) = Len(s) + Len(t)
      /\ \A i \in 1 .. Len(s) + Len(t) : Cat(s, t)[i] = IF i <= Len(s) THEN s[i] ELSE t[i - Len(s)]
  BY <1>1, ConcatProperties DEF Cat
<1>3. Len(s) \in Nat /\ Len(t) \in Nat /\ 1 \in 1 .. Len(s) + Len(t) /\ 1 <= Len(s)
  BY <1>1
<1>4. Cat(s, t)[1] = s[1]
  BY <1>2, <1>3
<1> QED
  BY <1>1, <1>2, <1>3, <1>4 DEF Begins

LEMMA WrittenLabel ==
  ASSUME NEW label \in Seq(Bytes), label # <<>>
  PROVE  Begins(WriteLabel(label))
<1> DEFINE n == Len(label)
           parts == [i \in DOMAIN label |-> WriteByte(label[i], i = 1)]
           begun == {i \in 0 .. n : i = 0 \/ Begins(FlattenTo(parts, i))}
<1>1. n \in Nat /\ n # 0 /\ DOMAIN label = 1 .. n /\ \A i \in 1 .. n : label[i] \in Bytes
  BY EmptySeq
<1>2. \A i \in 1 .. n : Begins(parts[i]) /\ parts[i] \in Seq(Code)
  BY <1>1, WrittenByte DEF Begins
<1>3. parts \in Seq(Seq(Code)) /\ Len(parts) = n
  BY <1>1, <1>2
<1>4. WriteLabel(label) = FlattenSeq(parts)
  BY DEF WriteLabel
<1> HIDE DEF parts
<1>5. FlattenTo(parts, 0) = <<>> /\ FlattenTo(parts, n) = FlattenSeq(parts)
  BY <1>3, FlattenEnds
<1>6. 0 \in begun
  BY <1>1
<1>7. ASSUME NEW i \in 0 .. n - 1, i \in begun
      PROVE  i + 1 \in begun
  <2> DEFINE f == FlattenTo(parts, i)
             w == parts[i + 1]
  <2>1. i + 1 \in 1 .. n /\ i + 1 \in 0 .. n
    BY <1>1
  <2>2. f \in Seq(Code) /\ FlattenTo(parts, i + 1) = Cat(f, w)
    BY <1>1, <1>3, FlattenNext
  <2>3. w \in Seq(Code) /\ Begins(w)
    BY <1>2, <2>1
  <2>4. f = <<>> \/ Begins(f)
    BY <1>5, <1>7
  <2> HIDE DEF f, w
  <2>5. Begins(Cat(f, w))
    BY <2>3, <2>4, BeginsOn, CatNothing
  <2> QED
    BY <2>1, <2>2, <2>5
<1> HIDE DEF begun
<1>8. \A i \in 0 .. n : i \in begun
  BY <1>1, <1>6, <1>7, CountedNumbers
<1>9. n \in begun
  BY <1>1, <1>8
<1> QED
  BY <1>1, <1>4, <1>5, <1>9 DEF begun

(* The end of a label, at a dot or at the end of the text. *)
Accepted(labels, i) == IsAsciiLabel(labels[i]) /\ NameLen(SubSeq(labels, 1, i)) <= MAX_NAME

LEMMA ReadDot ==
  ASSUME NEW ls, NEW l
  PROVE  ReadChar(ParserOf(ls, l, "label", 0), Dot) =
           IF IsAsciiLabel(l) /\ NameLen(Append(ls, l)) <= MAX_NAME
           THEN ParserOf(Append(ls, l), <<>>, "label", 0) ELSE ParserOf(ls, l, "failed", 0)
<1> DEFINE p == ParserOf(ls, l, "label", 0)
<1>1. p.state = "label"
  BY ParserFields
<1>2. EndLabel(p) = IF IsAsciiLabel(l) /\ NameLen(Append(ls, l)) <= MAX_NAME
                    THEN ParserOf(Append(ls, l), <<>>, "label", 0) ELSE ParserOf(ls, l, "failed", 0)
  BY LabelEnded
<1> HIDE DEF p
<1>3. ReadPlain(p, Dot) = EndLabel(p)
  BY DEF ReadPlain, Dot, Backslash, IsControlOrSpace
<1>4. ReadChar(p, Dot) = ReadPlain(p, Dot)
  BY <1>1, TextAssumption DEF ReadChar, ParseState
<1> QED
  BY <1>2, <1>3, <1>4 DEF p

LEMMA EndAtDot ==
  ASSUME NEW ls, NEW t, t # <<Dot>>
  PROVE  EndText(ParserOf(ls, <<>>, "label", 0), t) =
           [labels |-> ls, is_fqdn |-> t # <<>> /\ Last(t) = Dot]
<1> DEFINE p == ParserOf(ls, <<>>, "label", 0)
<1>1. p.state = "label" /\ p.label = <<>> /\ p.labels = ls
  BY ParserFields
<1> HIDE DEF p
<1>2. EndText(p, t) = [labels |-> p.labels, is_fqdn |-> t # <<>> /\ Last(t) = Dot]
  BY <1>1, TextAssumption DEF EndText, ParseState
<1> QED
  BY <1>1, <1>2 DEF p

LEMMA EndInLabel ==
  ASSUME NEW ls, NEW l, l # <<>>, IsAsciiLabel(l), NameLen(Append(ls, l)) <= MAX_NAME,
         NEW t, t # <<Dot>>
  PROVE  EndText(ParserOf(ls, l, "label", 0), t) =
           [labels |-> Append(ls, l), is_fqdn |-> t # <<>> /\ Last(t) = Dot]
<1> DEFINE labels == Append(ls, l)
           none == <<>>
           p == ParserOf(ls, l, "label", 0)
           q == ParserOf(labels, none, "label", 0)
<1>1. p.state = "label" /\ p.label = l
  BY ParserFields
<1>2. EndLabel(p) = q
  BY LabelEnded
<1> HIDE DEF p, labels, none
<1>3. q.state = "label" /\ q.labels = labels
  BY DEF ParserOf
<1> HIDE DEF q
<1>4. EndText(p, t) = [labels |-> q.labels, is_fqdn |-> t # <<>> /\ Last(t) = Dot]
  BY <1>1, <1>2, <1>3, TextAssumption DEF EndText, ParseState
<1> QED
  BY <1>3, <1>4 DEF p, labels

LEMMA EndFailed ==
  ASSUME NEW ls, NEW l, NEW t, t # <<Dot>>
  PROVE  EndText(ParserOf(ls, l, "failed", 0), t) = Failed
<1> DEFINE p == ParserOf(ls, l, "failed", 0)
<1>1. p.state = "failed"
  BY ParserFields
<1> HIDE DEF p
<1>2. EndText(p, t) = Failed
  BY <1>1, TextAssumption DEF EndText, ParseState
<1> QED
  BY <1>2 DEF p

------------------------------------------------------------------------------
(* Names: what Display writes is read label by label. *)
Shown(labels, i) == Cat(IF i = 1 THEN <<>> ELSE <<Dot>>, WriteLabel(labels[i]))

ShownLabels(labels) == [i \in DOMAIN labels |-> Shown(labels, i)]

LEMMA ReadShown ==
  ASSUME NEW labels \in Seq(Seq(Bytes)), labels # <<>>,
         \A i \in DOMAIN labels : labels[i] # <<>>,
         \A i \in 1 .. Len(labels) - 1 : Accepted(labels, i)
  PROVE  LET text_ == FlattenSeq(ShownLabels(labels))
             n == Len(labels)
         IN  /\ Begins(text_)
             /\ Read(text_) = ParserOf(SubSeq(labels, 1, n - 1), labels[n], "label", 0)
<1> DEFINE n == Len(labels)
           parts == ShownLabels(labels)
           At(i) == /\ Begins(FlattenTo(parts, i))
                    /\ Read(FlattenTo(parts, i)) =
                         ParserOf(SubSeq(labels, 1, i - 1), labels[i], "label", 0)
           read == {i \in 0 .. n : i = 0 \/ At(i)}
<1> DEFINE Q == Seq(Bytes)
<1>1. n \in Nat /\ n # 0 /\ DOMAIN labels = 1 .. n /\ \A i \in 1 .. n : labels[i] \in Q
  BY EmptySeq
<1>2. \A i \in 1 .. n : Begins(WriteLabel(labels[i])) /\ WriteLabel(labels[i]) \in Seq(Code)
  BY <1>1, WrittenLabel DEF Begins
<1>3. \A i \in 1 .. n : parts[i] = Shown(labels, i)
  BY <1>1 DEF ShownLabels
<1>4. <<>> \in Seq(Code) /\ <<Dot>> \in Seq(Code) /\ Dot \in Code
  BY DEF Code, Dot
<1>5. \A i \in 1 .. n : parts[i] \in Seq(Code)
  <2>1. ASSUME NEW i \in 1 .. n
        PROVE  Shown(labels, i) \in Seq(Code)
    BY <1>2, <1>4, CatThree DEF Shown
  <2> QED
    BY <1>3, <2>1
<1>6. parts \in Seq(Seq(Code)) /\ Len(parts) = n
  BY <1>1, <1>5 DEF ShownLabels
<1>7. labels \in Seq(Q)
  OBVIOUS
<1> HIDE DEF parts, Q
<1>8. FlattenTo(parts, 0) = <<>> /\ FlattenTo(parts, n) = FlattenSeq(parts)
  BY <1>6, FlattenEnds
<1>9. 0 \in read
  BY <1>1
<1>10. ASSUME NEW i \in 0 .. n - 1, i \in read
       PROVE  i + 1 \in read
  <2> DEFINE f == FlattenTo(parts, i)
             label == labels[i + 1]
             w == WriteLabel(label)
             before == SubSeq(labels, 1, i)
  <2>1. i + 1 \in 1 .. n /\ i + 1 \in 0 .. n /\ (i + 1) - 1 = i
    BY <1>1
  <2>2. f \in Seq(Code) /\ FlattenTo(parts, i + 1) = Cat(f, Shown(labels, i + 1))
    BY <1>3, <1>6, <2>1, FlattenNext
  <2>3. w \in Seq(Code) /\ Begins(w) /\ label \in Seq(Bytes)
    BY <1>1, <1>2, <2>1 DEF Q
  <2>4. CASE i = 0
    <3>1. Shown(labels, i + 1) = w /\ f = <<>> /\ before = <<>>
      BY <1>8, <2>3, <2>4, CatNothing, SubSeqEmpty DEF Shown
    <3> HIDE DEF f, w, before, label
    <3>2. FlattenTo(parts, i + 1) = w
      BY <2>2, <2>3, <3>1, CatNothing
    <3>3. Read(<<>>) = ParserOf(<<>>, <<>>, "label", 0)
      BY ReadNothing DEF NewParser, ParserOf
    <3>4. Read(Cat(<<>>, w)) = ParserOf(<<>>, label, "label", 0)
      BY <1>4, <2>3, <3>3, ReadLabel DEF w
    <3>5. Cat(<<>>, w) = w
      BY <2>3, CatNothing
    <3>6. At(i + 1)
      BY <2>1, <2>3, <3>1, <3>2, <3>4, <3>5 DEF before, label
    <3> QED
      BY <2>1, <3>6
  <2>5. CASE i # 0
    <3> DEFINE last == labels[i]
               done == SubSeq(labels, 1, i - 1)
               t == Then(f, Dot)
    <3>1. i \in 1 .. n - 1 /\ i - 1 \in 0 .. n - 1 /\ (i - 1) + 1 = i
      BY <1>1, <2>5
    <3>2. Begins(f) /\ Read(f) = ParserOf(done, last, "label", 0)
      BY <1>10, <2>5
    <3>3. Accepted(labels, i)
      BY <3>1
    <3>4. before = Append(done, last)
      BY <1>7, <3>1, NextPrefix
    <3>5. Shown(labels, i + 1) = Cat(<<Dot>>, w)
      BY <2>1, <2>5 DEF Shown
    <3>6. IsAsciiLabel(last) /\ NameLen(Append(done, last)) <= MAX_NAME
      BY <3>3, <3>4 DEF Accepted
    <3> HIDE DEF f, w, before, last, done, label
    <3>7. Cat(f, Cat(<<Dot>>, w)) = Cat(t, w) /\ t = Cat(f, <<Dot>>)
      <4>1. t = Cat(f, <<Dot>>)
        BY DEF Cat, Then
      <4> DEFINE dot == <<Dot>>
      <4>2. dot \in Seq(Code)
        BY <1>4
      <4> HIDE DEF t, dot
      <4>3. Cat(f, Cat(dot, w)) = Cat(Cat(f, dot), w)
        BY <2>2, <2>3, <4>2, CatThree
      <4> QED
        BY <4>1, <4>3 DEF dot
    <3>8. t \in Seq(Code) /\ Read(t) = ReadChar(ParserOf(done, last, "label", 0), Dot)
      BY <1>4, <2>2, <3>2, ReadNext
    <3>9. Read(t) = ParserOf(before, <<>>, "label", 0)
      BY <3>4, <3>6, <3>8, ReadDot
    <3> HIDE DEF t
    <3>10. Read(Cat(t, w)) = ParserOf(before, label, "label", 0)
      BY <2>3, <3>8, <3>9, ReadLabel DEF w
    <3>11. Begins(Cat(t, w))
      BY <1>4, <2>3, <3>2, <3>7, BeginsOn, CatThree
    <3>12. At(i + 1)
      BY <2>1, <2>2, <3>5, <3>7, <3>10, <3>11 DEF before, label
    <3> QED
      BY <2>1, <3>12
  <2> QED
    BY <2>4, <2>5
<1> HIDE DEF read
<1>11. \A i \in 0 .. n : i \in read
  BY <1>1, <1>9, <1>10, CountedNumbers
<1>12. n \in read
  BY <1>1, <1>11
<1> QED
  BY <1>1, <1>8, <1>12 DEF read, parts

(* The text of a name read is that of its labels. *)
LEMMA DisplayShown ==
  ASSUME NEW labels, NEW is_fqdn
  PROVE  Display([labels |-> labels, is_fqdn |-> is_fqdn]) =
           Cat(FlattenSeq(ShownLabels(labels)), IF is_fqdn THEN <<Dot>> ELSE <<>>)
BY DEF Display, ShownLabels, Shown, Cat

LEMMA ShowNothing == FlattenSeq(ShownLabels(<<>>)) = <<>>
<1>1. ShownLabels(<<>>) = <<>>
  <2> DEFINE none == ShownLabels(<<>>)
  <2>1. none \in Seq(Code) /\ Len(none) = 0
    BY DEF ShownLabels
  <2> HIDE DEF none
  <2>2. none = <<>>
    BY <2>1, EmptySeq
  <2> QED
    BY <2>2 DEF none
<1> QED
  BY <1>1, FlattenNone

LEMMA ReadNameBack ==
  ASSUME NEW labels \in Seq(Seq(Bytes)), \A i \in DOMAIN labels : labels[i] # <<>>,
         \A i \in DOMAIN labels : Accepted(labels, i), NEW is_fqdn \in BOOLEAN
  PROVE  FromAscii(Display([labels |-> labels, is_fqdn |-> is_fqdn])).labels = labels
<1> DEFINE n == Len(labels)
           s == FlattenSeq(ShownLabels(labels))
           name == [labels |-> labels, is_fqdn |-> is_fqdn]
           Q == Seq(Bytes)
<1>0. Display(name) = Cat(s, IF is_fqdn THEN <<Dot>> ELSE <<>>)
  BY DisplayShown
<1>1. \A t : FromAscii(t) = EndText(Read(t), t)
  BY DEF FromAscii, Read
<1>2. n \in Nat /\ DOMAIN labels = 1 .. n /\ labels \in Seq(Q)
  OBVIOUS
<1>3. <<Dot>> \in Seq(Code) /\ Dot \in Code /\ <<>> \in Seq(Code)
  BY DEF Code, Dot
<1>4. CASE labels = <<>>
  <2>1. s = <<>>
    BY <1>4, ShowNothing
  <2> HIDE DEF s, name
  <2>2. CASE is_fqdn
    <3>1. Display(name) = <<Dot>>
      BY <1>0, <1>3, <2>1, <2>2, CatNothing
    <3>2. EndText(Read(<<Dot>>), <<Dot>>) = FromLabels(<<>>)
      BY DEF EndText
    <3> QED
      BY <1>1, <1>4, <3>1, <3>2 DEF FromLabels, name
  <2>3. CASE ~is_fqdn
    <3>1. Display(name) = <<>>
      BY <1>0, <1>3, <2>1, <2>3, CatNothing
    <3>2. Read(<<>>) = ParserOf(<<>>, <<>>, "label", 0) /\ <<>> # <<Dot>>
      BY ReadNothing DEF NewParser, ParserOf
    <3> DEFINE none == <<>>
    <3>3. none # <<Dot>>
      OBVIOUS
    <3> HIDE DEF none
    <3>4. EndText(ParserOf(none, <<>>, "label", 0), none).labels = none
      BY <3>3, EndAtDot
    <3>5. EndText(Read(<<>>), <<>>).labels = <<>>
      BY <3>2, <3>4 DEF none
    <3> QED
      BY <1>1, <1>4, <3>1, <3>5 DEF name
  <2> QED
    BY <2>2, <2>3
<1>5. CASE labels # <<>>
  <2> DEFINE done == SubSeq(labels, 1, n - 1)
             last == labels[n]
  <2>1. n # 0 /\ n - 1 \in 0 .. n - 1 /\ (n - 1) + 1 = n /\ n \in DOMAIN labels
    BY <1>2, <1>5, EmptySeq
  <2>2. Begins(s) /\ Read(s) = ParserOf(done, last, "label", 0)
    <3>1. ASSUME NEW i \in 1 .. n - 1
          PROVE  Accepted(labels, i)
      <4>1. i \in DOMAIN labels
        BY <1>2
      <4> QED
        BY <4>1
    <3> QED
      BY <1>5, <3>1, ReadShown
  <2>3. Accepted(labels, n) /\ last # <<>>
    BY <2>1
  <2> HIDE DEF Q
  <2>4. SubSeq(labels, 1, n) = Append(done, last) /\ SubSeq(labels, 1, n) = labels
    BY <1>2, <2>1, NextPrefix, SubSeqFull
  <2>5. IsAsciiLabel(last) /\ NameLen(Append(done, last)) <= MAX_NAME
    BY <2>3, <2>4 DEF Accepted
  <2> HIDE DEF s, done, last, n, name
  <2>6. CASE is_fqdn
    <3> DEFINE t == Then(s, Dot)
    <3>1. s \in Seq(Code) /\ t = Cat(s, <<Dot>>)
      BY <2>2 DEF Cat, Then, Begins
    <3>2. Display(name) = t
      BY <1>0, <2>6, <3>1
    <3>3. Read(t) = ReadChar(ParserOf(done, last, "label", 0), Dot)
      BY <1>3, <2>2, <3>1, ReadNext
    <3>4. Read(t) = ParserOf(labels, <<>>, "label", 0)
      BY <2>4, <2>5, <3>3, ReadDot
    <3>5. Begins(t)
      BY <1>3, <2>2, <3>1, BeginsOn
    <3>6. t # <<Dot>>
      BY <3>5 DEF Begins
    <3> HIDE DEF t
    <3>7. EndText(ParserOf(labels, <<>>, "label", 0), t).labels = labels
      BY <3>6, EndAtDot
    <3> QED
      BY <1>1, <3>2, <3>4, <3>7 DEF name
  <2>7. CASE ~is_fqdn
    <3>1. Display(name) = s
      BY <1>0, <2>2, <2>7, CatNothing DEF Begins
    <3>2. s # <<Dot>>
      BY <2>2 DEF Begins
    <3>3. EndText(ParserOf(done, last, "label", 0), s).labels = Append(done, last)
      BY <2>3, <2>5, <3>2, EndInLabel
    <3> QED
      BY <1>1, <2>2, <2>4, <3>1, <3>3 DEF name
  <2> QED
    BY <2>6, <2>7
<1> QED
  BY <1>4, <1>5

LEMMA ReadRawBack ==
  ASSUME NEW label \in Seq(Bytes), label # <<>>
  PROVE  FromAscii(Display(FromLabels(<<label>>))) \in {Failed, FromLabels(<<label>>)}
<1> DEFINE labels == <<label>>
           s == FlattenSeq(ShownLabels(labels))
           t == Then(s, Dot)
<1>1. /\ labels \in Seq(Seq(Bytes)) /\ labels # <<>> /\ Len(labels) = 1
      /\ \A i \in DOMAIN labels : labels[i] # <<>>
      /\ labels[1] = label
      /\ \A i \in 1 .. Len(labels) - 1 : Accepted(labels, i)
  OBVIOUS
<1>2. FromLabels(labels) = [labels |-> labels, is_fqdn |-> TRUE]
  BY DEF FromLabels
<1>3. Append(<<>>, label) = labels
  OBVIOUS
<1> HIDE DEF labels
<1>4. Begins(s) /\ Read(s) = ParserOf(SubSeq(labels, 1, 1 - 1), labels[1], "label", 0)
  BY <1>1, ReadShown
<1>5. SubSeq(labels, 1, 1 - 1) = <<>>
  BY <1>1, SubSeqEmpty
<1>6. Display(FromLabels(labels)) = Cat(s, <<Dot>>)
  BY <1>2, DisplayShown
<1>7. Dot \in Code /\ <<Dot>> \in Seq(Code) /\ s \in Seq(Code)
  BY <1>4 DEF Code, Dot, Begins
<1> HIDE DEF s
<1>8. t = Cat(s, <<Dot>>) /\ Last(t) = Dot /\ t \in Seq(Code)
  BY <1>7 DEF Cat, Then, Last
<1>9. Begins(t)
  BY <1>4, <1>7, <1>8, BeginsOn
<1>10. t # <<Dot>> /\ t # <<>>
  BY <1>9 DEF Begins
<1>11. Read(t) = ReadChar(ParserOf(<<>>, label, "label", 0), Dot)
  BY <1>1, <1>4, <1>5, <1>7, ReadNext
<1>12. FromAscii(t) = EndText(Read(t), t)
  BY DEF FromAscii, Read
<1> HIDE DEF t
<1>13. Read(t) \in {ParserOf(labels, <<>>, "label", 0), ParserOf(<<>>, label, "failed", 0)}
  BY <1>3, <1>11, ReadDot
<1>14. EndText(ParserOf(labels, <<>>, "label", 0), t) = [labels |-> labels, is_fqdn |-> TRUE]
  BY <1>8, <1>10, EndAtDot
<1>15. EndText(ParserOf(<<>>, label, "failed", 0), t) = Failed
  BY <1>10, EndFailed
<1>16. FromAscii(Display(FromLabels(labels))) \in {Failed, FromLabels(labels)}
  BY <1>2, <1>6, <1>8, <1>12, <1>13, <1>14, <1>15
<1> QED
  BY <1>16 DEF labels

------------------------------------------------------------------------------
(* What the reader of the text typed keeps: the labels read so far are      *)
(* those a name may have.                                                   *)
ParserInv ==
  /\ text \in Seq(Characters)
  /\ parser \in Parsers
  /\ \A i \in DOMAIN parser.labels : Accepted(parser.labels, i)

LEMMA AsciiBytes ==
  ASSUME NEW l \in Seq(Code), IsAsciiLabel(l)
  PROVE  l \in Seq(Bytes) /\ l # <<>>
<1>1. Len(l) \in 1 .. MAX_LABEL /\ \A i \in DOMAIN l : IsSafeAscii(l[i], i = 1, FALSE)
  BY DEF IsAsciiLabel
<1>2. \A i \in 1 .. Len(l) : l[i] \in Bytes
  <2>1. ASSUME NEW c, IsSafeAscii(c, TRUE, FALSE) \/ IsSafeAscii(c, FALSE, FALSE)
        PROVE  c \in Bytes
    BY <2>1 DEF IsSafeAscii, IsAlphanumeric, Underscore, Dash, Asterisk, Dot, Bytes
  <2>2. ASSUME NEW i \in 1 .. Len(l)
        PROVE  l[i] \in Bytes
    <3>1. i \in DOMAIN l
      OBVIOUS
    <3>2. CASE i = 1
      BY <1>1, <2>1, <3>1, <3>2
    <3>3. CASE i # 1
      BY <1>1, <2>1, <3>1, <3>3
    <3> QED
      BY <3>2, <3>3
  <2> QED
    BY <2>2
<1>3. l # <<>>
  BY <1>1
<1> QED
  BY <1>2, <1>3

LEMMA MoreAccepted ==
  ASSUME NEW labels \in Seq(Seq(Code)), NEW l \in Seq(Code),
         \A i \in DOMAIN labels : Accepted(labels, i),
         IsAsciiLabel(l), NameLen(Append(labels, l)) <= MAX_NAME
  PROVE  \A i \in DOMAIN Append(labels, l) : Accepted(Append(labels, l), i)
<1> DEFINE Q == Seq(Code)
           n == Len(labels)
           more == Append(labels, l)
<1>1. labels \in Seq(Q) /\ l \in Q
  OBVIOUS
<1> HIDE DEF Q
<1>2. /\ n \in Nat /\ DOMAIN labels = 1 .. n /\ more \in Seq(Q) /\ DOMAIN more = 1 .. n + 1
      /\ Len(more) = n + 1 /\ more[n + 1] = l /\ \A i \in 1 .. n : more[i] = labels[i]
  BY <1>1, AppendProperties
<1>3. SubSeq(more, 1, n + 1) = more
  BY <1>2, SubSeqFull
<1>4. ASSUME NEW i \in 1 .. n
      PROVE  SubSeq(more, 1, i) = SubSeq(labels, 1, i)
  <2> DEFINE end == <<l>>
  <2>1. more = labels \o end /\ end \in Seq(Q)
    BY <1>1, AppendIsConcat
  <2>2. 1 \in 1 .. n + 1 /\ i \in 0 .. n
    BY <1>2
  <2> HIDE DEF end, more
  <2> QED
    BY <1>1, <2>1, <2>2, SubSeqOfConcat1
<1> HIDE DEF more, n
<1>5. ASSUME NEW i \in DOMAIN more
      PROVE  Accepted(more, i)
  <2>1. CASE i = n + 1
    BY <1>2, <1>3, <2>1 DEF Accepted, more
  <2>2. CASE i # n + 1
    <3>1. i \in 1 .. n
      BY <1>2, <2>2
    <3> QED
      BY <1>2, <1>4, <3>1 DEF Accepted
  <2> QED
    BY <2>1, <2>2
<1> QED
  BY <1>5 DEF more

LEMMA EndLabelAccepts ==
  ASSUME NEW q \in Parsers, \A i \in DOMAIN q.labels : Accepted(q.labels, i)
  PROVE  \A i \in DOMAIN EndLabel(q).labels : Accepted(EndLabel(q).labels, i)
<1> DEFINE ls == q.labels  l == q.label  st == q.state  o == q.octal
           more == Append(ls, l)
<1>1. q = ParserOf(ls, l, st, o) /\ ls \in Seq(Seq(Code)) /\ l \in Seq(Code)
  BY DEF Parsers, ParserOf
<1>2. \A i \in DOMAIN ls : Accepted(ls, i)
  OBVIOUS
<1> HIDE DEF ls, l, st, o
<1>3. CASE IsAsciiLabel(l) /\ NameLen(more) <= MAX_NAME
  <2>1. \A i \in DOMAIN more : Accepted(more, i)
    BY <1>1, <1>2, <1>3, MoreAccepted
  <2> DEFINE none == <<>>
  <2>2. EndLabel(q) = ParserOf(more, none, st, o)
    BY <1>1, <1>3, LabelEnded
  <2> HIDE DEF more, none
  <2>3. EndLabel(q).labels = more
    BY <2>2 DEF ParserOf
  <2> QED
    BY <2>1, <2>3
<1>4. CASE ~(IsAsciiLabel(l) /\ NameLen(more) <= MAX_NAME)
  <2>1. EndLabel(q) = ParserOf(ls, l, "failed", o)
    BY <1>1, <1>4, LabelEnded
  <2>2. EndLabel(q).labels = ls
    BY <2>1 DEF ParserOf
  <2> QED
    BY <1>2, <2>2
<1> QED
  BY <1>3, <1>4

LEMMA ReadCharAccepts ==
  ASSUME NEW q \in Parsers, NEW c, \A i \in DOMAIN q.labels : Accepted(q.labels, i)
  PROVE  \A i \in DOMAIN ReadChar(q, c).labels : Accepted(ReadChar(q, c).labels, i)
<1>1. /\ DOMAIN q = {"labels", "label", "state", "octal"}
      /\ q = [x \in {"labels", "label", "state", "octal"} |-> q[x]]
  BY DEF Parsers
<1>2. ASSUME NEW d PROVE Push(q, d).labels = q.labels
  BY <1>1 DEF Push
<1>3. ASSUME NEW st, NEW o
      PROVE  [q EXCEPT !.state = st].labels = q.labels
             /\ [q EXCEPT !.state = st, !.octal = o].labels = q.labels
  BY <1>1
<1>4. ReadEscape(q, c).labels = q.labels
  BY <1>2, <1>3 DEF ReadEscape
<1>5. ReadPlain(q, c) = EndLabel(q) \/ ReadPlain(q, c).labels = q.labels
  BY <1>2, <1>3 DEF ReadPlain
<1>6. ReadChar(q, c) = EndLabel(q) \/ ReadChar(q, c).labels = q.labels
  BY <1>4, <1>5 DEF ReadChar
<1> QED
  BY <1>6, EndLabelAccepts

LEMMA ParserIsInductive == Spec => []ParserInv
<1>1. Characters \subseteq Code /\ Characters \subseteq Bytes
  BY CodecAssumption DEF Code, Bytes
<1>2. Init => ParserInv
  BY EmptySeq DEF Init, ParserInv, NewParser, Parsers, ParseState
<1>3. ParserInv /\ [Next]_vars => ParserInv'
  <2> SUFFICES ASSUME ParserInv, [Next]_vars PROVE ParserInv'
    OBVIOUS
  <2>1. ASSUME NEW c \in Characters, Type(c) PROVE ParserInv'
    <3>1. text' = Append(text, c) /\ parser' = ReadChar(parser, c)
      BY <2>1 DEF Type
    <3>2. text' \in Seq(Characters)
      BY <3>1, AppendProperties DEF ParserInv
    <3>3. ReadChar(parser, c) \in Parsers
      BY <1>1, ReadCharTyped DEF ParserInv
    <3>4. \A i \in DOMAIN ReadChar(parser, c).labels : Accepted(ReadChar(parser, c).labels, i)
      BY ReadCharAccepts DEF ParserInv
    <3> DEFINE q == ReadChar(parser, c)
    <3>5. parser' = q /\ q \in Parsers /\ \A i \in DOMAIN q.labels : Accepted(q.labels, i)
      BY <3>1, <3>3, <3>4
    <3> HIDE DEF q
    <3> QED
      BY <3>2, <3>5 DEF ParserInv, Accepted
  <2>2. CASE UNCHANGED <<text, parser>>
    BY <2>2 DEF ParserInv, Accepted
  <2>3. ASSUME NEW name \in GivenNames, NEW lowercase \in BOOLEAN, EmitName(name.labels, lowercase)
        PROVE  ParserInv'
    BY <2>2, <2>3 DEF EmitName, Emitted
  <2>4. ASSUME NEW data \in Fields, EmitField(data) PROVE ParserInv'
    BY <2>2, <2>4 DEF EmitField, Emitted
  <2>5. ASSUME NEW rdata \in Rdatas, EmitRecordData(rdata) PROVE ParserInv'
    BY <2>2, <2>5 DEF EmitRecordData, Emitted
  <2>6. CASE SetCanonicalNames
    BY <2>2, <2>6 DEF SetCanonicalNames
  <2>7. ASSUME NEW name \in GivenNames, NEW sig \in Sig, NEW records \in SeqOf(Rdata, MaxRecords),
               Construct(name, sig, records)
        PROVE  ParserInv'
    BY <2>2, <2>7 DEF Construct
  <2>8. CASE UNCHANGED vars
    BY <2>2, <2>8 DEF vars
  <2> QED
    BY <2>1, <2>3, <2>4, <2>5, <2>6, <2>7, <2>8 DEF Next
<1> QED
  BY <1>2, <1>3, PTL DEF Spec

LEMMA AcceptedNames ==
  ASSUME NEW labels \in Seq(Seq(Code)), \A i \in DOMAIN labels : Accepted(labels, i),
         NEW is_fqdn \in BOOLEAN
  PROVE  FromAscii(Display([labels |-> labels, is_fqdn |-> is_fqdn])).labels = labels
<1> DEFINE Q == Seq(Code)  B == Seq(Bytes)
<1>1. ASSUME NEW i \in DOMAIN labels
      PROVE  labels[i] \in B /\ labels[i] # <<>>
  <2>1. labels[i] \in Seq(Code)
    OBVIOUS
  <2>2. IsAsciiLabel(labels[i])
    BY DEF Accepted
  <2> QED
    BY <2>1, <2>2, AsciiBytes
<1>2. labels \in Seq(Q)
  OBVIOUS
<1> HIDE DEF Q, B
<1>3. labels \in Seq(B)
  BY <1>1, <1>2
<1> QED
  BY <1>1, <1>3, ReadNameBack DEF B

(* A name that text was read as. *)
LEMMA ReadIsAccepted ==
  ASSUME NEW q \in Parsers, NEW t, \A i \in DOMAIN q.labels : Accepted(q.labels, i),
         EndText(q, t) \notin {Failed, Panicked}
  PROVE  \E labels \in Seq(Seq(Code)), is_fqdn \in BOOLEAN :
           /\ EndText(q, t) = [labels |-> labels, is_fqdn |-> is_fqdn]
           /\ \A i \in DOMAIN labels : Accepted(labels, i)
<1> DEFINE last == IF q.label = <<>> THEN q ELSE EndLabel(q)
           b == t # <<>> /\ Last(t) = Dot
           labels == last.labels
<1>1. CASE t = <<Dot>>
  <2> DEFINE none == <<>>
  <2>1. EndText(q, t) = [labels |-> none, is_fqdn |-> TRUE]
    BY <1>1 DEF EndText, FromLabels
  <2>2. none \in Seq(Seq(Code)) /\ \A i \in DOMAIN none : Accepted(none, i)
    BY EmptySeq
  <2> HIDE DEF none
  <2> QED
    BY <2>1, <2>2
<1>2. CASE t # <<Dot>>
  <2>1. EndText(q, t) = [labels |-> labels, is_fqdn |-> b]
    BY <1>2 DEF EndText
  <2>2. last \in Parsers
    BY EndLabelTyped
  <2>3. labels \in Seq(Seq(Code))
    <3> HIDE DEF last
    <3> QED
      BY <2>2 DEF Parsers
  <2>4. \A i \in DOMAIN labels : Accepted(labels, i)
    BY EndLabelAccepts
  <2> HIDE DEF labels, b
  <2>5. b \in BOOLEAN
    BY DEF b
  <2> QED
    BY <2>1, <2>3, <2>4, <2>5
<1> QED
  BY <1>1, <1>2

(***************************************************************************)
(* A name read from a text, character by character, is written as a text   *)
(* that is read as the same labels, and a label of any bytes is never read *)
(* back as another name: for texts of any length over any characters.      *)
(***************************************************************************)
THEOREM TextIsAlwaysReadBack == Spec => []TextIsReadBack
<1>1. ParserInv => TextIsReadBack
  <2> SUFFICES ASSUME ParserInv PROVE TextIsReadBack
    OBVIOUS
  <2> DEFINE parsed == EndText(parser, text)
             raw == FromLabels(<<text>>)
  <2>1. ASSUME parsed \notin {Failed, Panicked}
        PROVE  FromAscii(Display(parsed)).labels = parsed.labels
    <3>1. PICK labels \in Seq(Seq(Code)), is_fqdn \in BOOLEAN :
            /\ parsed = [labels |-> labels, is_fqdn |-> is_fqdn]
            /\ \A i \in DOMAIN labels : Accepted(labels, i)
      BY <2>1, ReadIsAccepted DEF ParserInv
    <3>2. FromAscii(Display([labels |-> labels, is_fqdn |-> is_fqdn])).labels = labels
      BY <3>1, AcceptedNames
    <3> HIDE DEF parsed
    <3> QED
      BY <3>1, <3>2
  <2>2. ASSUME Len(text) \in 1 .. MAX_LABEL
        PROVE  FromAscii(Display(raw)) \in {Failed, raw}
    <3>1. text \in Seq(Bytes)
      <4>1. text \in Seq(Characters) /\ Characters \subseteq Bytes
        BY CodecAssumption DEF ParserInv, Bytes
      <4> HIDE DEF parsed, raw
      <4> QED
        BY <4>1
    <3>2. text # <<>>
      BY <2>2
    <3> QED
      BY <3>1, <3>2, ReadRawBack
  <2> QED
    BY <2>1, <2>2 DEF TextIsReadBack
<1> QED
  BY <1>1, ParserIsInductive, PTL

------------------------------------------------------------------------------
(* Numbers of a fixed width. *)
LEMMA LowByte ==
  ASSUME NEW n \in Nat
  PROVE  n % 256 \in Bytes
BY DEF Bytes

LEMMA U16Bytes ==
  ASSUME NEW n \in Nat
  PROVE  U16(n) \in Seq(Bytes) /\ Len(U16(n)) = 2
BY DEF U16, Bytes

LEMMA U16Same ==
  ASSUME NEW m \in Nat, m < 65536, NEW n \in Nat, n < 65536, U16(m) = U16(n)
  PROVE  m = n
<1>1. ASSUME NEW k \in Nat, k < 65536
      PROVE  (k \div 256) % 256 = k \div 256 /\ k = 256 * (k \div 256) + (k % 256)
  BY <1>1
<1> DEFINE a == (m \div 256) % 256  b == m % 256  c == (n \div 256) % 256  d == n % 256
<1>2. <<a, b>> = <<c, d>>
  BY DEF U16
<1> HIDE DEF a, b, c, d
<1>3. a = c /\ b = d
  BY <1>2
<1>4. m = 256 * a + b /\ n = 256 * c + d
  BY <1>1 DEF a, b, c, d
<1> QED
  BY <1>3, <1>4

LEMMA U32Bytes ==
  ASSUME NEW n \in Nat
  PROVE  U32(n) = Cat(U16(n \div 65536), U16(n)) /\ n \div 65536 \in Nat
BY DEF U32, Cat

(* Character strings. *)
StringParts(strings) == [i \in DOMAIN strings |-> CharacterData(strings[i])]

LEMMA CharacterBytes ==
  ASSUME NEW data \in Seq(Bytes)
  PROVE  /\ CharacterData(data) \in Seq(Bytes)
         /\ Len(CharacterData(data)) = 1 + Len(data)
         /\ CharacterData(data)[1] = Len(data) % 256
<1> DEFINE size == Len(data) % 256
           head == <<size>>
<1>1. Len(data) \in Nat /\ size \in Bytes
  <2>1. Len(data) \in Nat
    OBVIOUS
  <2> QED
    BY <2>1, LowByte
<1>2. head \in Seq(Bytes) /\ Len(head) = 1 /\ head[1] = size
  BY <1>1
<1>3. CharacterData(data) = head \o data
  BY DEF CharacterData
<1> HIDE DEF head, size
<1>4. 1 \in 1 .. Len(head) + Len(data) /\ 1 <= Len(head)
  BY <1>2
<1>5. (head \o data)[1] = head[1]
  BY <1>2, <1>4, ConcatProperties
<1>6. head \o data \in Seq(Bytes) /\ Len(head \o data) = Len(head) + Len(data)
  BY <1>2, ConcatProperties
<1> QED
  BY <1>2, <1>3, <1>5, <1>6 DEF size

LEMMA StringBytes ==
  ASSUME NEW strings \in Seq(Seq(Bytes))
  PROVE  /\ StringParts(strings) \in Seq(Seq(Bytes)) /\ Len(StringParts(strings)) = Len(strings)
         /\ \A i \in 1 .. Len(strings) :
              /\ strings[i] \in Seq(Bytes)
              /\ StringParts(strings)[i] = CharacterData(strings[i])
         /\ CharacterStrings(strings) = FlattenSeq(StringParts(strings))
         /\ CharacterStrings(strings) \in Seq(Bytes)
<1>1. DOMAIN strings = 1 .. Len(strings) /\ Len(strings) \in Nat
  OBVIOUS
<1>2. \A i \in 1 .. Len(strings) : strings[i] \in Seq(Bytes)
  OBVIOUS
<1>3. \A i \in 1 .. Len(strings) : /\ StringParts(strings)[i] = CharacterData(strings[i])
                                   /\ StringParts(strings)[i] \in Seq(Bytes)
  BY <1>1, <1>2, CharacterBytes DEF StringParts
<1>4. StringParts(strings) \in Seq(Seq(Bytes)) /\ Len(StringParts(strings)) = Len(strings)
  BY <1>1, <1>3 DEF StringParts
<1>5. CharacterStrings(strings) = FlattenSeq(StringParts(strings))
  BY DEF CharacterStrings, StringParts
<1>6. FlattenSeq(StringParts(strings)) \in Seq(Bytes)
  BY <1>4, FlattenSequence
<1> QED
  BY <1>2, <1>3, <1>4, <1>5, <1>6

------------------------------------------------------------------------------
(* The size of a name is the length of its labels on the wire. *)
Adding(sizes) == [i \in 1 .. Len(sizes) |-> [sum \in Nat |-> sum + sizes[i]]]

LEMMA SizeRun ==
  ASSUME NEW labels, WireSizes(labels) \in Seq(Nat)
  PROVE  \E f : /\ IsRun(f, Nat, Len(WireSizes(labels)), 0, Adding(WireSizes(labels)))
                /\ WireSize(labels) = f[Len(WireSizes(labels))]
<1> DEFINE t == WireSizes(labels)
           n == Len(t)
           Step(h) == [s \in SUBSET (DOMAIN t) |->
                         IF s = {} THEN 0 ELSE h[s \ {Max(s)}] + t[Max(s)]]
           it == CHOOSE h : h = Step(h)
<1>1. n \in Nat /\ DOMAIN t = 1 .. n /\ \A i \in 1 .. n : t[i] \in Nat
  OBVIOUS
<1>2. WireSize(labels) = it[DOMAIN t]
  BY DEF WireSize, FoldLeft, MapThenFoldSet
<1> HIDE DEF t
<1>3. Adding(t) \in [1 .. n -> [Nat -> Nat]]
  BY <1>1 DEF Adding
<1>5. \E h : h = Step(h)
  <2>1. PICK h : IsFold(h, Nat, n, 0, Adding(t))
    BY <1>1, <1>3, FoldExists
  <2>2. h = [s \in SUBSET (1 .. n) |-> h[s]]
    BY <2>1 DEF IsFold
  <2>3. ASSUME NEW s \in SUBSET (1 .. n)
        PROVE  h[s] = IF s = {} THEN 0 ELSE h[s \ {Max(s)}] + t[Max(s)]
    <3>1. CASE s = {}
      BY <2>1, <3>1 DEF IsFold
    <3>2. CASE s # {}
      <4>1. Max(s) \in 1 .. n
        BY <1>1, <3>2, LargestNumber
      <4>2. s \ {Max(s)} \in SUBSET (1 .. n)
        OBVIOUS
      <4>3. h[s \ {Max(s)}] \in Nat /\ h[s] = Adding(t)[Max(s)][h[s \ {Max(s)}]]
        BY <2>1, <3>2, <4>2 DEF IsFold
      <4> QED
        BY <3>2, <4>1, <4>3 DEF Adding
    <3> QED
      BY <3>1, <3>2
  <2> QED
    BY <1>1, <2>2, <2>3
<1>6. it = Step(it)
  <2> HIDE DEF Step
  <2> QED
    BY <1>5
<1> HIDE DEF it
<1>7. FoldsTo(it, Nat, n, 0, Adding(t))
  <2>1. ASSUME NEW s \in SUBSET (1 .. n), s # {}, it[s \ {Max(s)}] \in Nat
        PROVE  it[s] = Adding(t)[Max(s)][it[s \ {Max(s)}]]
    <3>1. Max(s) \in 1 .. n
      BY <1>1, <2>1, LargestNumber
    <3>2. it[s] = it[s \ {Max(s)}] + t[Max(s)]
      BY <1>1, <1>6, <2>1
    <3> QED
      BY <2>1, <3>1, <3>2 DEF Adding
  <2>2. ASSUME NEW s \in SUBSET (1 .. n), s = {}
        PROVE  it[s] = 0
    BY <1>1, <1>6, <2>2
  <2> QED
    BY <2>1, <2>2 DEF FoldsTo
<1> HIDE DEF n
<1>8. \E f : IsRun(f, Nat, n, 0, Adding(t)) /\ it[1 .. n] = f[n]
  <2> DEFINE none == 0  T == Nat  next == Adding(t)
  <2>1. none \in T /\ n \in Nat /\ next \in [1 .. n -> [T -> T]] /\ FoldsTo(it, T, n, none, next)
    BY <1>1, <1>3, <1>7
  <2> HIDE DEF none, T, next
  <2>2. \E f : IsRun(f, T, n, none, next) /\ it[1 .. n] = f[n]
    BY <2>1, FoldIsRun
  <2> QED
    BY <2>2 DEF none, T, next
<1> QED
  BY <1>1, <1>2, <1>8 DEF n, t

LEMMA LabelBytes ==
  ASSUME NEW labels \in Seq(Labels)
  PROVE  /\ labels \in Seq(Seq(Bytes))
         /\ WireSizes(labels) \in Seq(Nat) /\ Len(WireSizes(labels)) = Len(labels)
         /\ \A i \in 1 .. Len(labels) : /\ labels[i] \in Labels /\ labels[i] \in Seq(Bytes)
                                        /\ Len(labels[i]) \in 1 .. MAX_LABEL
                                        /\ WireSizes(labels)[i] = 1 + Len(labels[i])
<1>1. \A l \in Labels : /\ l \in Seq(Bytes) /\ LabelSize[l] = Len(l) /\ Len(l) \in 1 .. MAX_LABEL
                        /\ Len(l) \in Nat
  BY EncoderAssumption, TextAssumption DEF Bytes
<1>2. Len(labels) \in Nat /\ DOMAIN labels = 1 .. Len(labels)
      /\ \A i \in 1 .. Len(labels) : labels[i] \in Labels
  OBVIOUS
<1>3. \A i \in 1 .. Len(labels) : WireSizes(labels)[i] = 1 + Len(labels[i])
  BY <1>1, <1>2 DEF WireSizes
<1>4. labels \in Seq(Seq(Bytes))
  BY <1>1, <1>2
<1>5. WireSizes(labels) \in Seq(Nat) /\ Len(WireSizes(labels)) = Len(labels)
  <2>1. WireSizes(labels) = [i \in 1 .. Len(labels) |-> WireSizes(labels)[i]]
    BY <1>2 DEF WireSizes
  <2>2. \A i \in 1 .. Len(labels) : WireSizes(labels)[i] \in Nat
    BY <1>1, <1>2, <1>3
  <2> DEFINE t == WireSizes(labels)
  <2> HIDE DEF t
  <2>3. t \in Seq(Nat) /\ Len(t) = Len(labels)
    BY <1>2, <2>1, <2>2 DEF t
  <2> QED
    BY <2>3 DEF t
<1> QED
  BY <1>1, <1>2, <1>3, <1>4, <1>5

LEMMA SizeOfWire ==
  ASSUME NEW labels \in Seq(Labels)
  PROVE  WireSize(labels) = Len(CharacterStrings(labels))
<1> DEFINE n == Len(labels)
           parts == StringParts(labels)
           sizes == WireSizes(labels)
           Size(i) == Len(FlattenTo(parts, i))
<1>1. /\ n \in Nat /\ sizes \in Seq(Nat) /\ Len(sizes) = n
      /\ \A i \in 1 .. n : /\ labels[i] \in Seq(Bytes)
                           /\ sizes[i] = 1 + Len(labels[i])
  BY LabelBytes
<1>2. /\ parts \in Seq(Seq(Bytes)) /\ Len(parts) = n
      /\ \A i \in 1 .. n : parts[i] = CharacterData(labels[i])
      /\ CharacterStrings(labels) = FlattenSeq(parts)
  BY LabelBytes, StringBytes
<1>3. \A i \in 1 .. n : Len(parts[i]) = sizes[i] /\ parts[i] \in Seq(Bytes)
  <2>1. ASSUME NEW i \in 1 .. n
        PROVE  Len(parts[i]) = sizes[i] /\ parts[i] \in Seq(Bytes)
    <3>1. labels[i] \in Seq(Bytes) /\ sizes[i] = 1 + Len(labels[i])
          /\ parts[i] = CharacterData(labels[i])
      BY <1>1, <1>2
    <3> HIDE DEF parts, sizes, n
    <3> QED
      BY <3>1, CharacterBytes
  <2> QED
    BY <2>1
<1>4. PICK f : IsRun(f, Nat, n, 0, Adding(sizes)) /\ WireSize(labels) = f[n]
  BY <1>1, SizeRun
<1> HIDE DEF parts, sizes, n
<1>5. FlattenTo(parts, 0) = <<>> /\ FlattenTo(parts, n) = FlattenSeq(parts)
  BY <1>2, FlattenEnds
<1> DEFINE measured == {i \in 0 .. n : f[i] = Size(i)}
<1>6. 0 \in measured
  BY <1>1, <1>4, <1>5 DEF IsRun
<1>7. ASSUME NEW i \in 0 .. n - 1, i \in measured
      PROVE  i + 1 \in measured
  <2> DEFINE s == FlattenTo(parts, i)
             p == parts[i + 1]
  <2>1. i + 1 \in 1 .. n /\ i + 1 \in 0 .. n /\ (i + 1) - 1 = i
    BY <1>1
  <2>2. s \in Seq(Bytes) /\ FlattenTo(parts, i + 1) = Cat(s, p)
    BY <1>2, FlattenNext
  <2>3. p \in Seq(Bytes) /\ Len(p) = sizes[i + 1]
    BY <1>3, <2>1
  <2>4. f[i + 1] = Adding(sizes)[i + 1][f[i]] /\ f[i] = Len(s)
    BY <1>4, <1>7, <2>1 DEF IsRun
  <2> HIDE DEF s, p
  <2>5. Len(s) \in Nat /\ Len(Cat(s, p)) = Len(s) + Len(p)
    BY <2>2, <2>3, CatLength
  <2>6. Adding(sizes)[i + 1][Len(s)] = Len(s) + sizes[i + 1]
    BY <1>1, <2>1, <2>5 DEF Adding
  <2> QED
    BY <2>1, <2>2, <2>3, <2>4, <2>5, <2>6
<1> HIDE DEF measured
<1>8. \A i \in 0 .. n : i \in measured
  BY <1>1, <1>6, <1>7, CountedNumbers
<1>9. n \in measured
  BY <1>1, <1>8
<1> QED
  BY <1>2, <1>4, <1>5, <1>9 DEF measured

------------------------------------------------------------------------------
(* Encoders, by what they hold: the offset is the length of the buffer, and *)
(* what is remembered begins in it.                                         *)
PointerSet == [start : Nat, name : Seq(Bytes)]
PointersTo(size) == {p \in PointerSet : p.start < size}

AllIn(ps, S) == \A i \in 1 .. Len(ps) : ps[i] \in S
PointerFrom(b, start) == [start |-> start, name |-> SubSeq(b, start + 1, Len(b))]

EncoderOf(buffer, pointers, canonical) ==
  [offset |-> Len(buffer), buffer |-> buffer, name_pointers |-> pointers,
   canonical_names |-> canonical]

Sound(e) ==
  \E b \in Seq(Bytes), c \in BOOLEAN :
    \E ps \in Seq(PointersTo(Len(b))) : e = EncoderOf(b, ps, c)

LEMMA EncoderFields ==
  ASSUME NEW b, NEW ps, NEW c
  PROVE  /\ EncoderOf(b, ps, c).buffer = b /\ EncoderOf(b, ps, c).offset = Len(b)
         /\ EncoderOf(b, ps, c).name_pointers = ps /\ EncoderOf(b, ps, c).canonical_names = c
BY DEF EncoderOf

LEMMA MorePointers ==
  ASSUME NEW size \in Nat, NEW ps \in Seq(PointersTo(size))
  PROVE  /\ ps \in Seq(PointerSet)
         /\ \A more \in Nat : more >= size => ps \in Seq(PointersTo(more))
<1>1. \A i \in 1 .. Len(ps) : ps[i] \in PointersTo(size)
  OBVIOUS
<1>2. \A i \in 1 .. Len(ps) : /\ ps[i] \in PointerSet
                              /\ \A more \in Nat : more >= size => ps[i] \in PointersTo(more)
  BY <1>1 DEF PointersTo, PointerSet
<1> DEFINE T == PointersTo(size)
<1>3. Len(ps) \in Nat /\ ps \in Seq(T)
  OBVIOUS
<1> HIDE DEF T
<1>4. ps = [i \in 1 .. Len(ps) |-> ps[i]]
  BY <1>3
<1>5. ASSUME NEW S, \A i \in 1 .. Len(ps) : ps[i] \in S
      PROVE  ps \in Seq(S)
  BY <1>3, <1>4, <1>5
<1>6. ASSUME NEW more \in Nat, more >= size
      PROVE  ps \in Seq(PointersTo(more))
  BY <1>2, <1>5, <1>6
<1> QED
  BY <1>2, <1>5, <1>6

LEMMA EncoderTyped ==
  ASSUME NEW e, Sound(e)
  PROVE  e \in BinEncoder /\ e.offset = Len(e.buffer) /\ e \notin Broken
<1>1. PICK b \in Seq(Bytes), c \in BOOLEAN : \E ps \in Seq(PointersTo(Len(b))) : e = EncoderOf(b, ps, c)
  BY DEF Sound
<1>2. PICK ps \in Seq(PointersTo(Len(b))) : e = EncoderOf(b, ps, c)
  BY <1>1
<1> DEFINE size == Len(b)
<1>3. size \in Nat
  OBVIOUS
<1>4. ps \in Seq(PointerSet)
  BY <1>3, MorePointers
<1> HIDE DEF size
<1>5. e = [offset |-> size, buffer |-> b, name_pointers |-> ps, canonical_names |-> c]
  BY <1>2 DEF EncoderOf, size
<1>6. e \in BinEncoder
  BY <1>3, <1>4, <1>5 DEF BinEncoder, PointerSet
<1> QED
  BY <1>2, <1>6, EncoderFields, EncoderAssumption

LEMMA WriteTo ==
  ASSUME NEW b \in Seq(Bytes), NEW d \in Seq(Bytes), NEW ps, NEW c
  PROVE  WriteSlice(EncoderOf(b, ps, c), d) = EncoderOf(Cat(b, d), ps, c)
<1> DEFINE e == EncoderOf(b, ps, c)
           more == Cat(b, d)
           size == Len(b) + Len(d)
<1>1. Len(more) = size
  BY CatLength
<1>2. WriteSlice(e, d) = [e EXCEPT !.buffer = e.buffer \o d, !.offset = e.offset + Len(d)]
  BY DEF WriteSlice
<1> HIDE DEF e
<1>3. e.buffer = b /\ e.offset = Len(b)
  BY EncoderFields DEF e
<1>4. WriteSlice(e, d) = [e EXCEPT !.buffer = more, !.offset = size]
  <2>1. e.buffer \o d = more
    BY <1>3 DEF Cat
  <2>2. e.offset + Len(d) = size
    BY <1>3
  <2> HIDE DEF more, size
  <2> QED
    BY <1>2, <2>1, <2>2
<1> USE DEF e
<1> HIDE DEF more, size
<1>5. WriteSlice(e, d) = [offset |-> size, buffer |-> more, name_pointers |-> ps,
                          canonical_names |-> c]
  BY <1>4 DEF EncoderOf
<1> QED
  BY <1>1, <1>5 DEF EncoderOf, more

LEMMA SetCanonical ==
  ASSUME NEW b, NEW ps, NEW c, NEW d
  PROVE  [EncoderOf(b, ps, c) EXCEPT !.canonical_names = d] = EncoderOf(b, ps, d)
<1> DEFINE size == Len(b)
<1> SUFFICES [[offset |-> size, buffer |-> b, name_pointers |-> ps, canonical_names |-> c]
                EXCEPT !.canonical_names = d]
             = [offset |-> size, buffer |-> b, name_pointers |-> ps, canonical_names |-> d]
  BY DEF EncoderOf
<1> HIDE DEF size
<1> QED
  OBVIOUS

LEMMA KeptPointers ==
  ASSUME NEW ps \in Seq(PointerSet), NEW offset \in Nat, NEW S, AllIn(ps, S)
  PROVE  PointersBelow(ps, offset) \in Seq(PointersTo(offset)) /\ AllIn(PointersBelow(ps, offset), S)
<1> DEFINE T == {p \in PointersTo(offset) : p \in S}
           parts == [i \in DOMAIN ps |-> IF ps[i].start < offset THEN <<ps[i]>> ELSE <<>>]
<1>1. \A i \in DOMAIN ps : ps[i] \in PointerSet /\ ps[i].start < offset => ps[i] \in T
  BY DEF PointersTo, AllIn
<1>2. \A i \in DOMAIN ps : ps[i] \in PointerSet
  OBVIOUS
<1> HIDE DEF T
<1>3. \A p \in T : <<p>> \in Seq(T)
  OBVIOUS
<1>4. parts \in Seq(Seq(T))
  <2>1. \A i \in DOMAIN ps : parts[i] \in Seq(T)
    BY <1>1, <1>2, <1>3, EmptySeq
  <2>2. DOMAIN ps = 1 .. Len(ps) /\ Len(ps) \in Nat
    OBVIOUS
  <2> DEFINE Q == Seq(T)
  <2> HIDE DEF Q
  <2>3. parts \in Seq(Q)
    BY <2>1, <2>2 DEF Q
  <2> QED
    BY <2>3 DEF Q
<1>5. PointersBelow(ps, offset) = FlattenSeq(parts)
  BY DEF PointersBelow
<1> HIDE DEF parts
<1> DEFINE below == PointersBelow(ps, offset)
<1>6. below \in Seq(T)
  BY <1>4, <1>5, FlattenSequence
<1>7. \A i \in 1 .. Len(below) : below[i] \in T
  BY <1>6
<1>8. \A t \in T : t \in PointersTo(offset) /\ t \in S
  BY DEF T
<1>9. below \in Seq(PointersTo(offset))
  <2> DEFINE U == PointersTo(offset)
  <2>1. \A t \in T : t \in U
    BY <1>8
  <2> HIDE DEF U, below, T
  <2>2. \A i \in 1 .. Len(below) : below[i] \in U
    BY <1>7, <2>1
  <2>3. Len(below) \in Nat /\ below = [i \in 1 .. Len(below) |-> below[i]]
    BY <1>6
  <2>4. [i \in 1 .. Len(below) |-> below[i]] \in Seq(U)
    BY <2>2, <2>3
  <2> QED
    BY <2>3, <2>4 DEF U
<1> HIDE DEF below
<1>10. AllIn(below, S)
  BY <1>7, <1>8 DEF AllIn
<1> QED
  BY <1>9, <1>10 DEF below

(* What was remembered first stays where it was. *)
Least(i, m) == IF i <= m THEN i ELSE m
Extends(qs, ps) == Len(ps) <= Len(qs) /\ \A i \in 1 .. Len(ps) : qs[i] = ps[i]

LEMMA KeptFirst ==
  ASSUME NEW offset \in Nat, NEW ps \in Seq(PointersTo(offset)), NEW qs \in Seq(PointerSet),
         Extends(qs, ps)
  PROVE  Extends(PointersBelow(qs, offset), ps)
<1> DEFINE T == PointersTo(offset)
           parts == [i \in DOMAIN qs |-> IF qs[i].start < offset THEN <<qs[i]>> ELSE <<>>]
           n == Len(qs)  m == Len(ps)
<1>1. n \in Nat /\ m \in 0 .. n /\ DOMAIN qs = 1 .. n /\ \A i \in 1 .. n : qs[i] \in PointerSet
  BY DEF Extends
<1>2. \A i \in 1 .. m : qs[i] = ps[i] /\ ps[i] \in T /\ ps[i].start < offset
  BY DEF Extends, PointersTo
<1>3. \A i \in 1 .. n : qs[i].start < offset => qs[i] \in T
  BY <1>1 DEF PointersTo
<1> HIDE DEF T
<1>4. \A p \in T : <<p>> \in Seq(T)
  OBVIOUS
<1> DEFINE Q == Seq(T)
<1> HIDE DEF n, m
<1>5. \A i \in 1 .. n : parts[i] \in Q
  BY <1>1, <1>3, <1>4, EmptySeq
<1> HIDE DEF Q
<1>6. parts \in Seq(Q) /\ Len(parts) = n
  BY <1>1, <1>5
<1>7. PointersBelow(qs, offset) = FlattenSeq(parts)
  BY DEF PointersBelow
<1>8. \A i \in 1 .. m : parts[i] = <<ps[i]>>
  <2>1. ASSUME NEW i \in 1 .. m
        PROVE  parts[i] = <<ps[i]>>
    <3>1. i \in 1 .. n
      BY <1>1
    <3> QED
      BY <1>1, <1>2, <3>1
  <2> QED
    BY <2>1
<1> HIDE DEF parts
<1>9. parts \in Seq(Seq(T))
  BY <1>6 DEF Q
<1>10. FlattenTo(parts, 0) = <<>> /\ FlattenTo(parts, n) = FlattenSeq(parts)
  BY <1>6, <1>9, FlattenEnds
<1> DEFINE numbers == {i \in 0 .. n : /\ FlattenTo(parts, i) \in Seq(T)
                                      /\ Least(i, m) <= Len(FlattenTo(parts, i))
                                      /\ i <= m => Len(FlattenTo(parts, i)) = i
                                      /\ \A k \in 1 .. Least(i, m) : FlattenTo(parts, i)[k] = ps[k]}
<1>k. ASSUME NEW i \in 0 .. n
      PROVE  /\ i <= m => Least(i, m) = i
             /\ ~(i <= m) => Least(i, m) = m
  BY <1>1 DEF Least
<1>11. 0 \in numbers
  <2> DEFINE s == FlattenTo(parts, 0)
  <2>1. 0 \in 0 .. n /\ (0 <= m => Least(0, m) = 0) /\ 0 <= m
    BY <1>1, <1>k
  <2>2. s = <<>> /\ s \in Seq(T) /\ Len(s) = 0
    BY <1>10, EmptySeq
  <2> HIDE DEF s
  <2>3. Least(0, m) <= Len(s) /\ \A k \in 1 .. Least(0, m) : s[k] = ps[k]
    BY <2>1, <2>2
  <2> QED
    BY <2>1, <2>2, <2>3 DEF s
<1>12. ASSUME NEW i \in 0 .. n - 1, i \in numbers
       PROVE  i + 1 \in numbers
  <2> DEFINE s == FlattenTo(parts, i)
             p == parts[i + 1]
             t == FlattenTo(parts, i + 1)
  <2>1. s \in Seq(T) /\ p \in Seq(T) /\ t = Cat(s, p)
    BY <1>6, <1>9, FlattenNext
  <2>2. /\ Least(i, m) <= Len(s)
        /\ i <= m => Len(s) = i
        /\ \A k \in 1 .. Least(i, m) : s[k] = ps[k]
    BY <1>12
  <2>3. i + 1 <= m => p = <<ps[i + 1]>>
    BY <1>1, <1>8
  <2> HIDE DEF s, p, t
  <2>4. /\ t \in Seq(T) /\ Len(s) \in Nat /\ Len(p) \in Nat /\ Len(t) = Len(s) + Len(p)
        /\ \A k \in 1 .. Len(s) : t[k] = s[k]
        /\ \A k \in Len(s) + 1 .. Len(s) + Len(p) : t[k] = p[k - Len(s)]
    <3>1. /\ s \o p \in Seq(T) /\ Len(s \o p) = Len(s) + Len(p)
          /\ \A k \in 1 .. Len(s) + Len(p) : (s \o p)[k] = IF k <= Len(s) THEN s[k] ELSE p[k - Len(s)]
      BY <2>1, ConcatProperties
    <3>2. Len(s) \in Nat /\ Len(p) \in Nat
      BY <2>1
    <3> QED
      BY <2>1, <3>1, <3>2 DEF Cat
  <2>5. CASE i + 1 <= m
    <3>0. i <= m /\ i + 1 \in 0 .. n /\ i \in 0 .. n
      BY <1>1, <2>5
    <3>1. Len(p) = 1 /\ p[1] = ps[i + 1] /\ Len(s) = i /\ Least(i, m) = i /\ Least(i + 1, m) = i + 1
      <4>1. Least(i, m) = i /\ Least(i + 1, m) = i + 1
        BY <1>k, <2>5, <3>0
      <4>2. Len(p) = 1 /\ p[1] = ps[i + 1]
        BY <2>3, <2>5
      <4> QED
        BY <2>2, <3>0, <4>1, <4>2
    <3>2. t[i + 1] = ps[i + 1] /\ \A k \in 1 .. i : t[k] = ps[k]
      BY <2>2, <2>4, <3>1
    <3>3. Len(t) = i + 1 /\ \A k \in 1 .. i + 1 : t[k] = ps[k]
      <4>1. \A k \in 1 .. i + 1 : k = i + 1 \/ k \in 1 .. i
        BY <3>0
      <4> QED
        BY <2>4, <3>1, <3>2, <4>1
    <3> QED
      BY <2>4, <2>5, <3>0, <3>1, <3>3 DEF t
  <2>6. CASE ~(i + 1 <= m)
    <3>0. i + 1 \in 0 .. n /\ i \in 0 .. n /\ (i <= m => i = m)
      BY <1>1, <2>6
    <3>1. Least(i, m) = m /\ Least(i + 1, m) = m
      BY <1>k, <2>6, <3>0
    <3>2. m <= Len(s) /\ \A k \in 1 .. m : s[k] = ps[k]
      <4> DEFINE r == Least(i, m)
      <4>1. r <= Len(s) /\ (\A k \in 1 .. r : s[k] = ps[k]) /\ r = m
        BY <2>2, <3>1
      <4> HIDE DEF r
      <4> QED
        BY <4>1
    <3>4. m <= Len(t) /\ \A k \in 1 .. m : k \in 1 .. Len(s)
      BY <1>1, <2>4, <3>2
    <3>5. \A k \in 1 .. m : t[k] = ps[k]
      BY <2>4, <3>2, <3>4
    <3>3. i + 1 \in 0 .. n
      BY <1>1
    <3> QED
      BY <2>4, <2>6, <3>1, <3>3, <3>4, <3>5 DEF t
  <2> QED
    BY <2>5, <2>6
<1> HIDE DEF numbers
<1>13. \A i \in 0 .. n : i \in numbers
  BY <1>1, <1>11, <1>12, CountedNumbers
<1>14. n \in numbers
  BY <1>1, <1>13
<1> DEFINE all == FlattenTo(parts, n)
<1>15. Least(n, m) = m
  <2>1. n \in 0 .. n /\ (n <= m => n = m)
    BY <1>1
  <2> QED
    BY <1>k, <2>1
<1>16. m <= Len(all) /\ \A k \in 1 .. m : all[k] = ps[k]
  BY <1>14, <1>15 DEF numbers
<1>17. PointersBelow(qs, offset) = all
  BY <1>7, <1>10
<1> HIDE DEF all
<1> QED
  BY <1>16, <1>17 DEF Extends, m

LEMMA ResetOf ==
  ASSUME NEW b \in Seq(Bytes), NEW ps, NEW c, NEW offset \in 0 .. Len(b)
  PROVE  /\ SubSeq(b, 1, offset) \in Seq(Bytes)
         /\ ResetTo(EncoderOf(b, ps, c), offset) =
              EncoderOf(SubSeq(b, 1, offset), PointersBelow(ps, offset), c)
<1> DEFINE less == SubSeq(b, 1, offset)
           below == PointersBelow(ps, offset)
           size == Len(b)
           e == EncoderOf(b, ps, c)
<1>1. less \in Seq(Bytes) /\ Len(less) = offset
  <2>1. CASE offset = Len(b)
    BY <2>1, SubSeqFull
  <2>2. CASE offset # Len(b)
    <3>1. offset \in 0 .. Len(b) - 1
      BY <2>2
    <3> QED
      BY <3>1, NextPrefix
  <2> QED
    BY <2>1, <2>2
<1>2. ResetTo(e, offset) = [e EXCEPT !.offset = offset, !.buffer = less, !.name_pointers = below]
  <2> HIDE DEF e
  <2>1. e.buffer = b /\ e.name_pointers = ps
    BY EncoderFields DEF e
  <2>2. ResetTo(e, offset) =
          [e EXCEPT !.offset = offset, !.buffer = SubSeq(e.buffer, 1, offset),
                    !.name_pointers = PointersBelow(e.name_pointers, offset)]
    BY DEF ResetTo
  <2> QED
    BY <2>1, <2>2
<1> HIDE DEF less, below
<1>3. e = [offset |-> size, buffer |-> b, name_pointers |-> ps, canonical_names |-> c]
  BY DEF EncoderOf
<1> HIDE DEF size, e
<1>4. ResetTo(e, offset) = [offset |-> offset, buffer |-> less, name_pointers |-> below,
                            canonical_names |-> c]
  BY <1>2, <1>3
<1> QED
  BY <1>1, <1>4 DEF EncoderOf, less, below, e

LEMMA StoreIn ==
  ASSUME NEW b \in Seq(Bytes), NEW ps \in Seq(PointersTo(Len(b))), NEW c,
         NEW start \in Nat, start < Len(b), NEW S, AllIn(ps, S),
         Len(b) < MAX_POINTER => PointerFrom(b, start) \in S
  PROVE  \E qs \in Seq(PointersTo(Len(b))) :
           /\ Extends(qs, ps) /\ AllIn(qs, S)
           /\ StoreLabelPointer(EncoderOf(b, ps, c), start, Len(b)) = EncoderOf(b, qs, c)
<1> DEFINE end == Len(b)
           e == EncoderOf(b, ps, c)
           slice == SubSeq(b, start + 1, end)
           pointer == [start |-> start, name |-> slice]
           more == Append(ps, pointer)
           size == Len(b)
<1>1. slice \in Seq(Bytes)
  <2>1. \A i \in start + 1 .. end : b[i] \in Bytes
    <3>1. \A i \in start + 1 .. end : i \in 1 .. Len(b)
      OBVIOUS
    <3> QED
      BY <3>1, ElementOfSeq
  <2> QED
    BY <2>1, SubSeqProperties
<1>2. pointer \in PointersTo(Len(b))
  <2> HIDE DEF slice
  <2> QED
    BY <1>1 DEF PointerSet, PointersTo
<1>3. /\ more \in Seq(PointersTo(Len(b))) /\ Extends(more, ps) /\ Extends(ps, ps)
      /\ Len(b) < MAX_POINTER => AllIn(more, S)
  <2> DEFINE T == PointersTo(Len(b))
  <2>1. ps \in Seq(T) /\ pointer \in T
    BY <1>2
  <2>2. Len(b) < MAX_POINTER => pointer \in S
    BY DEF PointerFrom
  <2> HIDE DEF T, pointer
  <2>3. /\ more \in Seq(T) /\ Len(more) = Len(ps) + 1 /\ Len(ps) \in Nat
        /\ \A i \in 1 .. Len(ps) : more[i] = ps[i]
        /\ more[Len(ps) + 1] = pointer
    BY <2>1, AppendProperties
  <2>4. Extends(more, ps) /\ Extends(ps, ps)
    BY <2>3 DEF Extends
  <2>5. Len(b) < MAX_POINTER => AllIn(more, S)
    <3> SUFFICES ASSUME pointer \in S, NEW i \in 1 .. Len(more) PROVE more[i] \in S
      BY <2>2 DEF AllIn
    <3>1. i \in 1 .. Len(ps) \/ i = Len(ps) + 1
      BY <2>3
    <3> HIDE DEF more
    <3> QED
      BY <2>3, <3>1 DEF AllIn
  <2> QED
    BY <2>3, <2>4, <2>5 DEF T
<1>4. StoreLabelPointer(e, start, end) = IF e.offset < MAX_POINTER
                                         THEN [e EXCEPT !.name_pointers = more] ELSE e
  <2> HIDE DEF e
  <2>1. e.buffer = b /\ e.name_pointers = ps
    BY EncoderFields DEF e
  <2>2. SliceOf(e, start, end) = slice
    BY <2>1 DEF SliceOf
  <2>3. Append(e.name_pointers, pointer) = more
    BY <2>1
  <2> HIDE DEF more, slice
  <2>4. StoreLabelPointer(e, start, end) =
          IF e.offset < MAX_POINTER
          THEN [e EXCEPT !.name_pointers = Append(e.name_pointers, pointer)] ELSE e
    BY <2>2 DEF StoreLabelPointer
  <2> HIDE DEF pointer
  <2> QED
    BY <2>3, <2>4
<1> HIDE DEF more, pointer, slice
<1>5. e = [offset |-> size, buffer |-> b, name_pointers |-> ps, canonical_names |-> c]
  BY DEF EncoderOf
<1>6. [e EXCEPT !.name_pointers = more] = EncoderOf(b, more, c)
  <2> HIDE DEF size, e
  <2>1. [e EXCEPT !.name_pointers = more] =
          [offset |-> size, buffer |-> b, name_pointers |-> more, canonical_names |-> c]
    BY <1>5
  <2> QED
    BY <2>1 DEF EncoderOf, size
<1>7. e.offset = Len(b)
  BY EncoderFields
<1> HIDE DEF e
<1>8. \/ StoreLabelPointer(e, start, end) = EncoderOf(b, more, c) /\ AllIn(more, S)
      \/ StoreLabelPointer(e, start, end) = EncoderOf(b, ps, c)
  BY <1>3, <1>4, <1>6, <1>7 DEF e
<1> HIDE DEF end
<1> QED
  BY <1>3, <1>8 DEF e, end

(* Remembering the labels of a name. *)
Storing(T, start, fresh, end) ==
  [i \in 1 .. Len(start) |->
     [f \in T |-> IF i \in fresh THEN StoreLabelPointer(f, start[i], end) ELSE f]]

Extensions(b, ps, S) == {qs \in Seq(PointersTo(Len(b))) : Extends(qs, ps) /\ AllIn(qs, S)}
Remembering(b, ps, c, S) == {EncoderOf(b, qs, c) : qs \in Extensions(b, ps, S)}

LEMMA RememberTyped ==
  ASSUME NEW b \in Seq(Bytes), NEW ps \in Seq(PointersTo(Len(b))), NEW c, NEW S,
         NEW f \in Remembering(b, ps, c, S), NEW start \in Nat, start < Len(b), NEW fresh, NEW i,
         i \in fresh /\ Len(b) < MAX_POINTER => PointerFrom(b, start) \in S
  PROVE  (IF i \in fresh THEN StoreLabelPointer(f, start, Len(b)) ELSE f) \in Remembering(b, ps, c, S)
<1>1. PICK qs \in Extensions(b, ps, S) : f = EncoderOf(b, qs, c)
  BY DEF Remembering
<1>2. qs \in Seq(PointersTo(Len(b))) /\ Extends(qs, ps) /\ AllIn(qs, S)
  BY DEF Extensions
<1>3. i \in fresh =>
        \E rs \in Seq(PointersTo(Len(b))) :
          /\ Extends(rs, qs) /\ AllIn(rs, S)
          /\ StoreLabelPointer(f, start, Len(b)) = EncoderOf(b, rs, c)
  BY <1>1, <1>2, StoreIn
<1>4. ASSUME NEW rs \in Seq(PointersTo(Len(b))), Extends(rs, qs), AllIn(rs, S)
      PROVE  rs \in Extensions(b, ps, S)
  <2>1. Len(ps) \in Nat /\ Len(qs) \in Nat /\ Len(rs) \in Nat
    BY <1>2
  <2>2. \A k \in 1 .. Len(ps) : k \in 1 .. Len(qs)
    BY <1>2, <2>1 DEF Extends
  <2> QED
    BY <1>2, <1>4, <2>1, <2>2 DEF Extends, Extensions
<1> QED
  BY <1>3, <1>4 DEF Remembering

AllBelow(start, size) == \A i \in 1 .. Len(start) : start[i] < size

FreshIn(b, start, fresh, S) ==
  \A i \in 1 .. Len(start) : i \in fresh /\ Len(b) < MAX_POINTER => PointerFrom(b, start[i]) \in S

Remembers(out, b, ps, c, S) ==
  \E qs \in Seq(PointersTo(Len(b))) : /\ Extends(qs, ps) /\ AllIn(qs, S)
                                      /\ out = EncoderOf(b, qs, c)

LEMMA StorePointersIn ==
  ASSUME NEW b \in Seq(Bytes), NEW ps \in Seq(PointersTo(Len(b))), NEW c,
         NEW start \in Seq(Nat), AllBelow(start, Len(b)), NEW fresh, NEW S, AllIn(ps, S),
         FreshIn(b, start, fresh, S)
  PROVE  Remembers(StorePointers(EncoderOf(b, ps, c), start, fresh), b, ps, c, S)
<1> DEFINE n == Len(start)
           e == EncoderOf(b, ps, c)
           end == Len(b)
           T == Remembering(b, ps, c, S)
           Next1(f, i) == IF i \in fresh THEN StoreLabelPointer(f, start[i], end) ELSE f
           next == Storing(T, start, fresh, end)
           Step(h) == [s \in SUBSET (1 .. n) |-> IF s = {} THEN e ELSE Next1(h[s \ {Max(s)}], Max(s))]
           it == CHOOSE h : h = Step(h)
           numbers == [i \in DOMAIN start |-> i]
<1>1. n \in Nat /\ DOMAIN start = 1 .. n /\ \A i \in 1 .. n : start[i] \in Nat
  OBVIOUS
<1>2. e \in T /\ e.offset = end
  <2>1. Len(ps) \in Nat
    OBVIOUS
  <2>2. ps \in Extensions(b, ps, S)
    BY <2>1 DEF Extensions, Extends
  <2> QED
    BY <2>2, EncoderFields DEF Remembering
<1> HIDE DEF T
<1>3. ASSUME NEW i \in 1 .. n, NEW f \in T
      PROVE  Next1(f, i) \in T /\ next[i][f] = Next1(f, i)
  <2>1. /\ start[i] \in Nat /\ start[i] < Len(b)
        /\ i \in fresh /\ Len(b) < MAX_POINTER => PointerFrom(b, start[i]) \in S
    BY <1>1 DEF AllBelow, FreshIn
  <2>2. Next1(f, i) \in T
    BY <2>1, RememberTyped DEF T
  <2> QED
    BY <2>2 DEF Storing
<1>4. next \in [1 .. n -> [T -> T]]
  <2>1. \A i \in 1 .. n : next[i] \in [T -> T]
    BY <1>3 DEF Storing
  <2>2. next = [i \in 1 .. n |-> next[i]]
    BY DEF Storing
  <2> HIDE DEF next
  <2> QED
    BY <2>1, <2>2
<1> HIDE DEF next
<1>5. StorePointers(e, start, fresh) = it[1 .. n]
  <2> DEFINE Step2(h) == [s \in SUBSET (DOMAIN numbers) |->
                            IF s = {} THEN e
                            ELSE IF numbers[Max(s)] \in fresh
                                 THEN StoreLabelPointer(h[s \ {Max(s)}], start[numbers[Max(s)]], e.offset)
                                 ELSE h[s \ {Max(s)}]]
             it2 == CHOOSE h : h = Step2(h)
  <2> HIDE DEF e
  <2>1. StorePointers(e, start, fresh) = it2[DOMAIN numbers]
    BY DEF StorePointers, FoldLeft, MapThenFoldSet
  <2>2. DOMAIN numbers = 1 .. n
    BY <1>1
  <2>3. ASSUME NEW h
        PROVE  Step2(h) = Step(h)
    <3>1. ASSUME NEW s \in SUBSET (1 .. n), s # {}
          PROVE  numbers[Max(s)] = Max(s)
      BY <1>1, <3>1, LargestNumber
    <3> HIDE DEF numbers
    <3> QED
      BY <1>2, <2>2, <3>1
  <2> HIDE DEF Step, Step2, numbers
  <2>4. it2 = it
    BY <2>3
  <2> QED
    BY <2>1, <2>2, <2>4
<1> HIDE DEF e, numbers
<1>6. \E h : h = Step(h)
  <2>1. PICK h : IsFold(h, T, n, e, next)
    BY <1>1, <1>2, <1>4, FoldExists
  <2>2. h = [s \in SUBSET (1 .. n) |-> h[s]]
    BY <2>1 DEF IsFold
  <2>3. ASSUME NEW s \in SUBSET (1 .. n)
        PROVE  h[s] = IF s = {} THEN e ELSE Next1(h[s \ {Max(s)}], Max(s))
    <3>1. CASE s = {}
      BY <2>1, <3>1 DEF IsFold
    <3>2. CASE s # {}
      <4>1. Max(s) \in 1 .. n
        BY <1>1, <3>2, LargestNumber
      <4>2. s \ {Max(s)} \in SUBSET (1 .. n)
        OBVIOUS
      <4>3. h[s \ {Max(s)}] \in T /\ h[s] = next[Max(s)][h[s \ {Max(s)}]]
        BY <2>1, <3>2, <4>2 DEF IsFold
      <4> HIDE DEF Next1
      <4> QED
        BY <1>3, <3>2, <4>1, <4>3
    <3> QED
      BY <3>1, <3>2
  <2> HIDE DEF Next1
  <2> QED
    BY <2>2, <2>3
<1> HIDE DEF Next1
<1>7. it = Step(it)
  <2> HIDE DEF Step
  <2> QED
    BY <1>6
<1> HIDE DEF it
<1>8. FoldsTo(it, T, n, e, next)
  <2>1. ASSUME NEW s \in SUBSET (1 .. n), s # {}, it[s \ {Max(s)}] \in T
        PROVE  it[s] = next[Max(s)][it[s \ {Max(s)}]]
    <3>1. Max(s) \in 1 .. n
      BY <1>1, <2>1, LargestNumber
    <3>2. it[s] = Next1(it[s \ {Max(s)}], Max(s))
      BY <1>7, <2>1
    <3> QED
      BY <1>3, <2>1, <3>1, <3>2
  <2>2. ASSUME NEW s \in SUBSET (1 .. n), s = {}
        PROVE  it[s] = e
    BY <1>7, <2>2
  <2> QED
    BY <2>1, <2>2 DEF FoldsTo
<1> HIDE DEF n
<1>9. PICK f : IsRun(f, T, n, e, next) /\ it[1 .. n] = f[n]
  <2>1. n \in Nat /\ e \in T /\ next \in [1 .. n -> [T -> T]] /\ FoldsTo(it, T, n, e, next)
    BY <1>1, <1>2, <1>4, <1>8
  <2> QED
    BY <2>1, FoldIsRun
<1>10. n \in 0 .. n
  BY <1>1
<1>11. it[1 .. n] \in T
  BY <1>9, <1>10 DEF IsRun
<1> QED
  BY <1>5, <1>11 DEF T, Remembering, Remembers, Extensions, e

------------------------------------------------------------------------------
(* Beginnings of names on the wire. *)
LEMMA Prefix ==
  ASSUME NEW S, NEW s \in Seq(S), NEW i \in 0 .. Len(s)
  PROVE  /\ SubSeq(s, 1, i) \in Seq(S) /\ Len(SubSeq(s, 1, i)) = i
         /\ \A k \in 1 .. i : SubSeq(s, 1, i)[k] = s[k]
<1>1. \A k \in 1 .. i : s[k] \in S
  <2>1. \A k \in 1 .. i : k \in 1 .. Len(s)
    OBVIOUS
  <2> QED
    BY <2>1, ElementOfSeq
<1>2. Len(s) \in Nat /\ i \in Nat /\ (IF 1 <= i THEN i - 1 + 1 ELSE 0) = i
  OBVIOUS
<1>3. /\ SubSeq(s, 1, i) \in Seq(S)
      /\ Len(SubSeq(s, 1, i)) = IF 1 <= i THEN i - 1 + 1 ELSE 0
      /\ \A k \in 1 .. i - 1 + 1 : SubSeq(s, 1, i)[k] = s[1 + k - 1]
  BY <1>1, <1>2, SubSeqProperties
<1>4. \A k \in 1 .. i : k \in 1 .. i - 1 + 1 /\ 1 + k - 1 = k
  BY <1>2
<1> QED
  BY <1>2, <1>3, <1>4

LEMMA WirePrefix ==
  ASSUME NEW labels \in Seq(Labels), NEW i \in 0 .. Len(labels)
  PROVE  /\ SubSeq(labels, 1, i) \in Seq(Labels)
         /\ CharacterStrings(SubSeq(labels, 1, i)) = FlattenTo(StringParts(labels), i)
         /\ FlattenTo(StringParts(labels), i) \in Seq(Bytes)
         /\ WireSize(SubSeq(labels, 1, i)) = Len(FlattenTo(StringParts(labels), i))
<1> DEFINE parts == StringParts(labels)
           some == SubSeq(labels, 1, i)
<1>1. /\ some \in Seq(Labels) /\ Len(some) = i
      /\ \A k \in 1 .. i : some[k] = labels[k]
  BY Prefix
<1>2. /\ labels \in Seq(Seq(Bytes)) /\ some \in Seq(Seq(Bytes))
  BY <1>1, LabelBytes
<1>3. /\ parts \in Seq(Seq(Bytes)) /\ Len(parts) = Len(labels)
      /\ \A k \in 1 .. Len(labels) : parts[k] = CharacterData(labels[k])
  BY <1>2, StringBytes
<1>4. /\ StringParts(some) \in Seq(Seq(Bytes)) /\ Len(StringParts(some)) = i
      /\ \A k \in 1 .. i : StringParts(some)[k] = CharacterData(some[k])
      /\ CharacterStrings(some) = FlattenSeq(StringParts(some))
      /\ CharacterStrings(some) \in Seq(Bytes)
  BY <1>1, <1>2, StringBytes
<1> HIDE DEF parts, some
<1> DEFINE Q == Seq(Bytes)
<1>5. parts \in Seq(Q) /\ i \in 0 .. Len(parts) /\ StringParts(some) \in Seq(Q)
  BY <1>3, <1>4
<1> HIDE DEF Q
<1>6. /\ SubSeq(parts, 1, i) \in Seq(Q) /\ Len(SubSeq(parts, 1, i)) = i
      /\ \A k \in 1 .. i : SubSeq(parts, 1, i)[k] = parts[k]
  BY <1>5, Prefix
<1>7. StringParts(some) = SubSeq(parts, 1, i)
  <2> DEFINE s == StringParts(some)  t == SubSeq(parts, 1, i)
  <2>1. \A k \in 1 .. i : k \in 1 .. Len(labels)
    OBVIOUS
  <2>2. \A k \in 1 .. i : s[k] = t[k]
    BY <1>1, <1>3, <1>4, <1>6, <2>1
  <2>3. s \in Seq(Q) /\ t \in Seq(Q) /\ Len(s) = i /\ Len(t) = i
    BY <1>4, <1>5, <1>6
  <2> HIDE DEF s, t
  <2>4. s = t
    BY <2>2, <2>3, SeqEqual
  <2> QED
    BY <2>4 DEF s, t
<1>8. CharacterStrings(some) = FlattenTo(parts, i)
  BY <1>4, <1>7 DEF FlattenTo
<1>9. WireSize(some) = Len(CharacterStrings(some))
  BY <1>1, SizeOfWire
<1> QED
  BY <1>1, <1>4, <1>8, <1>9 DEF parts, some

LEMMA LongerPrefix ==
  ASSUME NEW S, NEW seqs \in Seq(Seq(S)), NEW i \in 0 .. Len(seqs)
  PROVE  /\ FlattenTo(seqs, i) \in Seq(S) /\ Len(FlattenTo(seqs, i)) \in Nat
         /\ FlattenSeq(seqs) \in Seq(S) /\ Len(FlattenSeq(seqs)) \in Nat
         /\ Len(FlattenTo(seqs, i)) <= Len(FlattenSeq(seqs))
<1> DEFINE n == Len(seqs) - i
           Size(k) == Len(FlattenTo(seqs, k))
           numbers == {d \in 0 .. n : Size(i) <= Size(i + d)}
<1>1. n \in Nat /\ Len(seqs) \in Nat /\ i \in Nat
  OBVIOUS
<1>2. ASSUME NEW k \in 0 .. Len(seqs)
      PROVE  FlattenTo(seqs, k) \in Seq(S)
  <2> DEFINE Q == Seq(S)
  <2>1. seqs \in Seq(Q)
    OBVIOUS
  <2> HIDE DEF Q
  <2>2. SubSeq(seqs, 1, k) \in Seq(Q)
    BY <2>1, Prefix
  <2> QED
    BY <2>2, FlattenSequence DEF FlattenTo, Q
<1>3. FlattenTo(seqs, Len(seqs)) = FlattenSeq(seqs)
  BY FlattenEnds
<1>4. 0 \in numbers
  <2>1. Size(i) \in Nat /\ i + 0 = i
    BY <1>1, <1>2
  <2> QED
    BY <1>1, <2>1
<1>5. ASSUME NEW d \in 0 .. n - 1, d \in numbers
      PROVE  d + 1 \in numbers
  <2> DEFINE s == FlattenTo(seqs, i + d)  p == seqs[i + d + 1]  t == FlattenTo(seqs, i + d + 1)
  <2>1. i + d \in 0 .. Len(seqs) - 1 /\ i + d + 1 = i + (d + 1) /\ d + 1 \in 0 .. n
    BY <1>1
  <2>2. s \in Seq(S) /\ p \in Seq(S) /\ t = Cat(s, p)
    BY <2>1, FlattenNext
  <2>3. Size(i) <= Len(s) /\ Size(i) \in Nat
    BY <1>2, <1>5
  <2> HIDE DEF s, p, t
  <2>4. Len(s) \in Nat /\ Len(p) \in Nat /\ Len(t) = Len(s) + Len(p)
    BY <2>2, CatLength
  <2>5. Size(i) <= Len(t)
    BY <2>3, <2>4
  <2> QED
    BY <2>1, <2>5 DEF t
<1> HIDE DEF numbers, n
<1>6. \A d \in 0 .. n : d \in numbers
  BY <1>1, <1>4, <1>5, CountedNumbers
<1>7. n \in numbers /\ i + n = Len(seqs)
  BY <1>1, <1>6 DEF n
<1>8. Size(i) <= Len(FlattenSeq(seqs))
  BY <1>3, <1>7 DEF numbers
<1>9. FlattenTo(seqs, i) \in Seq(S) /\ FlattenTo(seqs, Len(seqs)) \in Seq(S)
  BY <1>1, <1>2
<1> QED
  BY <1>3, <1>8, <1>9

(* Where the labels of a name begin, and that they end behind it. *)
LEMMA LabelStarts ==
  ASSUME NEW labels \in Seq(Labels), NEW i \in 1 .. Len(labels)
  PROVE  /\ WireSize(SubSeq(labels, 1, i - 1)) \in Nat
         /\ WireSize(SubSeq(labels, 1, i - 1)) + 1 + Len(labels[i]) <= Len(CharacterStrings(labels))
         /\ WireSize(SubSeq(labels, 1, i)) = WireSize(SubSeq(labels, 1, i - 1)) + 1 + Len(labels[i])
<1> DEFINE parts == StringParts(labels)
           s == FlattenTo(parts, i - 1)  p == parts[i]  t == FlattenTo(parts, i)
<1>1. i - 1 \in 0 .. Len(labels) /\ i \in 0 .. Len(labels)
      /\ i - 1 \in 0 .. Len(labels) - 1 /\ (i - 1) + 1 = i
  OBVIOUS
<1>2. WireSize(SubSeq(labels, 1, i - 1)) = Len(s) /\ WireSize(SubSeq(labels, 1, i)) = Len(t)
  BY <1>1, WirePrefix
<1>3. labels[i] \in Seq(Bytes) /\ labels \in Seq(Seq(Bytes))
  BY LabelBytes
<1>4. /\ parts \in Seq(Seq(Bytes)) /\ Len(parts) = Len(labels) /\ p = CharacterData(labels[i])
      /\ CharacterStrings(labels) = FlattenSeq(parts)
  BY <1>3, StringBytes
<1>5. Len(p) = 1 + Len(labels[i]) /\ p \in Seq(Bytes) /\ Len(labels[i]) \in Nat
  <2> DEFINE l == labels[i]
  <2>1. l \in Seq(Bytes) /\ p = CharacterData(l)
    BY <1>3, <1>4
  <2> HIDE DEF l, p
  <2>2. Len(p) = 1 + Len(l) /\ p \in Seq(Bytes) /\ Len(l) \in Nat
    BY <2>1, CharacterBytes
  <2> QED
    BY <2>2 DEF l
<1> HIDE DEF parts
<1>6. s \in Seq(Bytes) /\ parts[(i - 1) + 1] \in Seq(Bytes)
      /\ FlattenTo(parts, (i - 1) + 1) = Cat(s, parts[(i - 1) + 1])
  BY <1>1, <1>4, FlattenNext
<1>7. t = Cat(s, p)
  BY <1>1, <1>6
<1>8. Len(t) <= Len(FlattenSeq(parts)) /\ Len(t) \in Nat /\ Len(FlattenSeq(parts)) \in Nat
  BY <1>1, <1>4, LongerPrefix
<1> HIDE DEF s, p, t
<1>9. Len(t) = Len(s) + Len(p) /\ Len(s) \in Nat
  BY <1>5, <1>6, <1>7, CatLength
<1> DEFINE a == Len(s)  z == Len(t)  l == Len(labels[i])  w == Len(CharacterStrings(labels))
<1>10. /\ z = a + 1 + l /\ z <= w /\ a \in Nat
       /\ WireSize(SubSeq(labels, 1, i - 1)) = a /\ WireSize(SubSeq(labels, 1, i)) = z
  <2>1. z = a + (1 + l) /\ l \in Nat /\ a \in Nat
    BY <1>5, <1>9
  <2>2. z <= w
    BY <1>4, <1>8
  <2>3. WireSize(SubSeq(labels, 1, i - 1)) = a /\ WireSize(SubSeq(labels, 1, i)) = z
    BY <1>2
  <2> HIDE DEF a, z, l, w
  <2> QED
    BY <2>1, <2>2, <2>3
<1> HIDE DEF a, z, l, w
<1>11. a \in Nat /\ a + 1 + l <= w /\ z = a + 1 + l
  BY <1>10
<1> QED
  BY <1>10, <1>11 DEF l, w

(* What SelectInSeq finds. *)
LEMMA SmallestOf ==
  ASSUME NEW numbers \in SUBSET Nat, numbers # {}
  PROVE  Min(numbers) \in numbers /\ \A j \in numbers : Min(numbers) <= j
<1>1. \E i \in numbers : \A j \in numbers : i <= j
  BY SmallestNumber
<1> QED
  BY <1>1 DEF Min

PointsAt(n, b, ps, start, end) ==
  /\ n \in 0 .. Len(ps)
  /\ n # 0 => ps[n].name = SubSeq(b, start + 1, end)

LEMMA PointerFound ==
  ASSUME NEW b, NEW ps, Len(ps) \in Nat, NEW c, NEW start, NEW end
  PROVE  PointsAt(LabelPointer(EncoderOf(b, ps, c), start, end), b, ps, start, end)
<1> DEFINE e == EncoderOf(b, ps, c)
           slice == SubSeq(b, start + 1, end)
           found == {i \in 1 .. Len(ps) : ps[i].name = slice}
           n == LabelPointer(e, start, end)
<1>1. e.buffer = b /\ e.name_pointers = ps
  BY EncoderFields
<1> HIDE DEF e
<1>2. SliceOf(e, start, end) = slice
  BY <1>1 DEF SliceOf
<1>3. n = IF found # {} THEN Min(found) ELSE 0
  BY <1>1, <1>2 DEF LabelPointer, SelectInSeq
<1>4. CASE found = {}
  BY <1>3, <1>4 DEF e, PointsAt
<1>5. CASE found # {}
  <2>1. found \in SUBSET Nat
    OBVIOUS
  <2> HIDE DEF found
  <2>2. Min(found) \in found
    BY <1>5, <2>1, SmallestOf
  <2>3. n \in found
    BY <1>3, <1>5, <2>2
  <2> QED
    BY <2>3 DEF found, e, PointsAt
<1> QED
  BY <1>4, <1>5

------------------------------------------------------------------------------
(* What becomes of a name that is written: an error, the name in full or, if *)
(* not canonically, its first labels and a pointer to the others.            *)
WireStart(b, labels, i) == Len(b) + WireSize(SubSeq(labels, 1, i - 1))

(* What is remembered of a name are its first labels, each with all behind. *)
Remembered(b, labels, last) ==
  {p \in PointerSet :
     /\ Len(Cat(b, CharacterStrings(labels))) < MAX_POINTER
     /\ \E i \in 1 .. last :
          p = PointerFrom(Cat(b, CharacterStrings(labels)), WireStart(b, labels, i))}
PointersOf(ps, b, labels, last) == {ps[i] : i \in 1 .. Len(ps)} \cup Remembered(b, labels, last)

InFull(out, b, ps, c, labels) ==
  /\ Emittable(labels)
  /\ \E qs \in Seq(PointersTo(Len(Cat(b, CharacterStrings(labels))))) :
       /\ Extends(qs, ps) /\ AllIn(qs, PointersOf(ps, b, labels, Len(labels)))
       /\ out = EncoderOf(Cat(Cat(b, CharacterStrings(labels)), <<0>>), qs, c)

PointsFrom(out, bytes, start, n, ps, c, S) ==
  /\ ps[n].name = SubSeq(bytes, start + 1, Len(bytes))
  /\ \E rs \in Seq(PointersTo(start)) :
       /\ Extends(rs, ps) /\ AllIn(rs, S)
       /\ out = EncoderOf(Cat(SubSeq(bytes, 1, start),
                              U16(PointerTo(ps[n].start))), rs, c)

Pointed(out, b, ps, c, labels) ==
  \E i \in 1 .. Len(labels), n \in 1 .. Len(ps) :
    /\ WireStart(b, labels, i) \in Len(b) .. Len(Cat(b, CharacterStrings(labels)))
    /\ PointsFrom(out, Cat(b, CharacterStrings(labels)), WireStart(b, labels, i), n, ps, c,
                  PointersOf(ps, b, labels, i - 1))

LEMMA WordNumber ==
  ASSUME NEW n \in Words
  PROVE  n \in Nat /\ n < 65536
BY DEF Words

LEMMA PointerCode ==
  ASSUME NEW k \in Nat
  PROVE  PointerTo(k) \in Words
<1> DEFINE m == MAX_POINTER + 1
<1>1. m \in Nat /\ m > 0 /\ m <= 16384
  BY EncoderAssumption
<1>2. PointerTo(k) = 49152 + (k % m)
  BY DEF PointerTo
<1> HIDE DEF m
<1> DEFINE r == k % m
<1>3. r \in 0 .. m - 1
  BY <1>1
<1> HIDE DEF r
<1>4. PointerTo(k) = 49152 + r
  BY <1>2 DEF r
<1> QED
  BY <1>1, <1>3, <1>4 DEF Words

LEMMA StartsOf ==
  ASSUME NEW b \in Seq(Bytes), NEW labels \in Seq(Labels)
  PROVE  LET bytes == Cat(b, CharacterStrings(labels))
             start == [i \in DOMAIN labels |-> Len(b) + WireSize(SubSeq(labels, 1, i - 1))]
         IN  /\ CharacterStrings(labels) \in Seq(Bytes)
             /\ bytes \in Seq(Bytes) /\ Len(bytes) = Len(b) + Len(CharacterStrings(labels))
             /\ start \in Seq(Nat) /\ Len(start) = Len(labels)
             /\ \A i \in 1 .. Len(labels) :
                  /\ start[i] = WireStart(b, labels, i)
                  /\ start[i] \in Nat /\ start[i] \in Len(b) .. Len(bytes) /\ start[i] < Len(bytes)
<1> DEFINE wire == CharacterStrings(labels)
           bytes == Cat(b, wire)
           start == [i \in DOMAIN labels |-> Len(b) + WireSize(SubSeq(labels, 1, i - 1))]
           n == Len(labels)
<1>1. wire \in Seq(Bytes)
  <2>1. labels \in Seq(Seq(Bytes))
    BY LabelBytes
  <2> QED
    BY <2>1, StringBytes
<1> HIDE DEF wire
<1>2. /\ bytes \in Seq(Bytes) /\ Len(b) \in Nat /\ Len(wire) \in Nat
      /\ Len(bytes) = Len(b) + Len(wire)
  BY <1>1, CatLength
<1>3. n \in Nat /\ DOMAIN labels = 1 .. n
  OBVIOUS
<1>4. ASSUME NEW i \in 1 .. n
      PROVE  /\ start[i] = WireStart(b, labels, i)
             /\ start[i] \in Nat /\ start[i] \in Len(b) .. Len(bytes) /\ start[i] < Len(bytes)
  <2> DEFINE w == WireSize(SubSeq(labels, 1, i - 1))  l == Len(labels[i])  s == Len(b)  z == Len(wire)
  <2>1. w \in Nat /\ w + 1 + l <= z
    BY LabelStarts DEF wire
  <2>2. l \in Nat
    <3>1. labels[i] \in Seq(Bytes)
      BY LabelBytes
    <3> QED
      BY <3>1
  <2>3. start[i] = s + w /\ WireStart(b, labels, i) = s + w
    BY <1>3 DEF WireStart
  <2> HIDE DEF w, l, start
  <2> QED
    BY <1>2, <2>1, <2>2, <2>3
<1>5. start \in Seq(Nat) /\ Len(start) = n
  <2>1. start = [i \in 1 .. n |-> start[i]]
    BY <1>3
  <2> HIDE DEF start, n
  <2> QED
    BY <1>3, <1>4, <2>1
<1> HIDE DEF bytes, start, n
<1>6. /\ wire \in Seq(Bytes) /\ bytes \in Seq(Bytes) /\ Len(bytes) = Len(b) + Len(wire)
      /\ start \in Seq(Nat) /\ Len(start) = n
      /\ \A i \in 1 .. n : /\ start[i] = WireStart(b, labels, i)
                           /\ start[i] \in Nat /\ start[i] \in Len(b) .. Len(bytes)
                           /\ start[i] < Len(bytes)
  BY <1>1, <1>2, <1>4, <1>5
<1> QED
  BY <1>6 DEF wire, bytes, start, n

LEMMA EmittedName ==
  ASSUME NEW b \in Seq(Bytes), NEW ps \in Seq(PointersTo(Len(b))), NEW c,
         NEW labels \in Seq(Labels), NEW canonical
  PROVE  LET out == EmitAsCanonical(EncoderOf(b, ps, c), labels, canonical)
         IN  \/ out = Panicked /\ Len(b) + Len(CharacterStrings(labels)) > MAX_OFFSET
             \/ out = Failed /\ ~Emittable(labels)
             \/ InFull(out, b, ps, c, labels)
             \/ ~canonical /\ Pointed(out, b, ps, c, labels)
<1> DEFINE e == EncoderOf(b, ps, c)
           wire == CharacterStrings(labels)
           bytes == Cat(b, wire)
           full == WriteSlice(e, wire)
           start == [i \in DOMAIN labels |-> e.offset + WireSize(SubSeq(labels, 1, i - 1))]
           known == [i \in DOMAIN labels |-> LabelPointer(full, start[i], full.offset)]
           found == {i \in 1 .. Len(known) : known[i] # 0}
           cut == IF canonical \/ found = {} THEN 0 ELSE Min(found)
           fresh == {i \in DOMAIN labels : known[i] = 0 /\ (cut = 0 \/ i < cut)}
           stored == StorePointers(full, start, fresh)
           ended == WriteSlice(stored, <<0>>)
           out == EmitAsCanonical(e, labels, canonical)
           n == Len(labels)
           last == IF cut = 0 THEN n ELSE cut - 1
           S == PointersOf(ps, b, labels, last)
<1>1. n \in Nat /\ DOMAIN labels = 1 .. n /\ Len(b) \in Nat /\ Len(ps) \in Nat
  OBVIOUS
<1>2. out = IF \E i \in DOMAIN labels : Len(labels[i]) > MAX_LABEL THEN Failed
            ELSE IF fresh # {} /\ full.offset > MAX_OFFSET THEN Panicked
            ELSE IF cut # 0 THEN PointTo(ResetTo(stored, start[cut]), known[cut])
            ELSE IF Len(ended.buffer) - Len(e.buffer) > MAX_NAME THEN Failed ELSE ended
  <2>1. cut = IF canonical THEN 0 ELSE SelectInSeq(known, LAMBDA k : k # 0)
    BY DEF SelectInSeq
  <2> HIDE DEF cut, e
  <2> QED
    BY <2>1 DEF EmitAsCanonical
<1>3. e.offset = Len(b) /\ e.buffer = b
  BY EncoderFields
<1>4. /\ wire \in Seq(Bytes) /\ bytes \in Seq(Bytes) /\ Len(bytes) = Len(b) + Len(wire)
      /\ start \in Seq(Nat) /\ Len(start) = n
      /\ \A i \in 1 .. n : /\ start[i] = WireStart(b, labels, i)
                           /\ start[i] \in Nat /\ start[i] \in Len(b) .. Len(bytes)
                           /\ start[i] < Len(bytes)
  <2> DEFINE starts == [i \in DOMAIN labels |-> Len(b) + WireSize(SubSeq(labels, 1, i - 1))]
  <2>1. /\ wire \in Seq(Bytes) /\ bytes \in Seq(Bytes) /\ Len(bytes) = Len(b) + Len(wire)
        /\ starts \in Seq(Nat) /\ Len(starts) = n
        /\ \A i \in 1 .. n : /\ starts[i] = WireStart(b, labels, i)
                             /\ starts[i] \in Nat /\ starts[i] \in Len(b) .. Len(bytes)
                             /\ starts[i] < Len(bytes)
    BY StartsOf
  <2>2. start = starts
    <3> HIDE DEF e
    <3> QED
      BY <1>3
  <2> HIDE DEF start, starts, wire, bytes, n
  <2> QED
    BY <2>1, <2>2
<1>5. full = EncoderOf(bytes, ps, c) /\ full.offset = Len(bytes)
  <2> HIDE DEF wire
  <2>1. full = EncoderOf(bytes, ps, c)
    BY <1>4, WriteTo
  <2> QED
    BY <2>1, EncoderFields
<1> HIDE DEF out, wire, full, start
<1>6. /\ DOMAIN known = 1 .. n /\ Len(known) = n
      /\ \A i \in 1 .. n :
           /\ known[i] \in 0 .. Len(ps)
           /\ known[i] # 0 => ps[known[i]].name = SubSeq(bytes, start[i] + 1, Len(bytes))
  <2>1. ASSUME NEW i \in 1 .. n
        PROVE  /\ known[i] \in 0 .. Len(ps)
               /\ known[i] # 0 => ps[known[i]].name = SubSeq(bytes, start[i] + 1, Len(bytes))
    <3>1. known[i] = LabelPointer(EncoderOf(bytes, ps, c), start[i], Len(bytes))
      BY <1>1, <1>5
    <3> HIDE DEF known, bytes
    <3> DEFINE k == LabelPointer(EncoderOf(bytes, ps, c), start[i], Len(bytes))
    <3>2. PointsAt(k, bytes, ps, start[i], Len(bytes))
      BY <1>1, PointerFound
    <3> QED
      BY <3>1, <3>2 DEF PointsAt
  <2> QED
    BY <1>1, <2>1
<1> HIDE DEF known
<1>7. cut \in 0 .. n /\ (cut # 0 => known[cut] # 0 /\ ~canonical)
  <2>1. CASE canonical \/ found = {}
    BY <1>1, <2>1
  <2>2. CASE ~(canonical \/ found = {})
    <3>1. found \in SUBSET Nat /\ found # {}
      BY <2>2
    <3> HIDE DEF found
    <3>2. Min(found) \in found
      BY <3>1, SmallestOf
    <3> QED
      BY <1>6, <2>2, <3>2 DEF found
  <2> QED
    BY <2>1, <2>2
<1> HIDE DEF cut
<1>a. AllIn(ps, S) /\ FreshIn(bytes, start, fresh, S)
  <2>1. AllIn(ps, S)
    BY DEF AllIn, PointersOf
  <2>2. ASSUME NEW i \in 1 .. Len(start), i \in fresh, Len(bytes) < MAX_POINTER
        PROVE  PointerFrom(bytes, start[i]) \in S
    <3>1. i \in 1 .. n /\ (cut = 0 \/ i < cut)
      BY <1>1, <1>4, <2>2
    <3>2. i \in 1 .. last
      BY <1>1, <1>7, <3>1
    <3>3. start[i] = WireStart(b, labels, i) /\ start[i] \in Nat /\ start[i] < Len(bytes)
      BY <1>4, <3>1
    <3>4. bytes \in Seq(Bytes)
      BY <1>4
    <3> DEFINE at == start[i]  slice == SubSeq(bytes, at + 1, Len(bytes))
    <3> HIDE DEF at, last
    <3>5. slice \in Seq(Bytes)
      <4>1. at \in Nat /\ Len(bytes) \in Nat
        BY <3>3, <3>4 DEF at
      <4> HIDE DEF bytes
      <4>2. \A j \in at + 1 .. Len(bytes) : j \in 1 .. Len(bytes)
        BY <4>1
      <4>3. \A j \in at + 1 .. Len(bytes) : bytes[j] \in Bytes
        BY <3>4, <4>2, ElementOfSeq
      <4> QED
        BY <4>1, <4>3, SubSeqProperties
    <3>6. PointerFrom(bytes, at) \in PointerSet
      <4> HIDE DEF slice, bytes
      <4>1. at \in Nat
        BY <3>3 DEF at
      <4>2. [start |-> at, name |-> slice] \in PointerSet
        BY <3>5, <4>1 DEF PointerSet
      <4> QED
        BY <4>2 DEF PointerFrom, slice
    <3>7. bytes = Cat(b, CharacterStrings(labels)) /\ at = WireStart(b, labels, i)
      BY <3>3 DEF wire, at
    <3> HIDE DEF bytes, slice
    <3>8. PointerFrom(bytes, at) \in Remembered(b, labels, last)
      BY <2>2, <3>2, <3>6, <3>7 DEF Remembered
    <3> QED
      BY <3>8 DEF PointersOf, at
  <2> QED
    BY <2>1, <2>2 DEF FreshIn
<1> HIDE DEF S, last
<1>8. PICK qs \in Seq(PointersTo(Len(bytes))) :
        Extends(qs, ps) /\ AllIn(qs, S) /\ stored = EncoderOf(bytes, qs, c)
  <2>1. ps \in Seq(PointersTo(Len(bytes)))
    <3>1. Len(bytes) \in Nat /\ Len(bytes) >= Len(b)
      BY <1>1, <1>4
    <3> QED
      BY <1>1, <3>1, MorePointers
  <2>2. AllBelow(start, Len(bytes))
    BY <1>4 DEF AllBelow
  <2> HIDE DEF bytes, fresh
  <2>3. bytes \in Seq(Bytes) /\ start \in Seq(Nat)
    BY <1>4
  <2>4. Remembers(StorePointers(EncoderOf(bytes, ps, c), start, fresh), bytes, ps, c, S)
    BY <1>a, <2>1, <2>2, <2>3, StorePointersIn
  <2> QED
    BY <1>5, <2>4 DEF Remembers
<1>9. ended = EncoderOf(Cat(bytes, <<0>>), qs, c) /\ Len(ended.buffer) = Len(bytes) + 1
  <2> DEFINE zero == <<0>>
  <2>1. zero \in Seq(Bytes) /\ Len(zero) = 1
    BY DEF Bytes
  <2> HIDE DEF zero, stored, bytes
  <2>2. WriteSlice(stored, zero) = EncoderOf(Cat(bytes, zero), qs, c)
    BY <1>4, <1>8, <2>1, WriteTo
  <2>3. Len(Cat(bytes, zero)) = Len(bytes) + 1
    <3>1. bytes \in Seq(Bytes)
      BY <1>4
    <3>2. Len(Cat(bytes, zero)) = Len(bytes) + Len(zero)
      BY <2>1, <3>1, CatLength
    <3> QED
      BY <2>1, <3>2
  <2>4. EncoderOf(Cat(bytes, zero), qs, c).buffer = Cat(bytes, zero)
    BY EncoderFields
  <2> QED
    BY <2>2, <2>3, <2>4 DEF zero
<1>10. ~\E i \in DOMAIN labels : Len(labels[i]) > MAX_LABEL
  <2>1. \A i \in 1 .. n : Len(labels[i]) \in 1 .. MAX_LABEL
    BY LabelBytes
  <2>2. MAX_LABEL \in Nat
    BY NameAssumption
  <2> QED
    BY <1>1, <2>1, <2>2
<1> HIDE DEF ended, stored, fresh, e
<1>11. CASE fresh # {} /\ full.offset > MAX_OFFSET
  <2>1. out = Panicked /\ Len(b) + Len(wire) > MAX_OFFSET
    BY <1>2, <1>4, <1>5, <1>10, <1>11
  <2> QED
    BY <2>1 DEF out, wire, e
<1>12. CASE ~(fresh # {} /\ full.offset > MAX_OFFSET) /\ cut # 0
  <2> DEFINE at == start[cut]
             k == known[cut]
             less == SubSeq(bytes, 1, at)
             rs == PointersBelow(qs, at)
             r == ResetTo(stored, at)
             code == PointerTo(ps[k].start)
  <2>1. out = PointTo(r, k)
    BY <1>2, <1>10, <1>12
  <2>2. /\ cut \in 1 .. n /\ at = WireStart(b, labels, cut) /\ at \in Nat
        /\ at \in Len(b) .. Len(bytes) /\ at \in 0 .. Len(bytes)
        /\ k \in 1 .. Len(ps) /\ ps[k].name = SubSeq(bytes, at + 1, Len(bytes)) /\ ~canonical
    <3>1. cut \in 1 .. n /\ ~canonical /\ known[cut] # 0
      BY <1>7, <1>12
    <3>2. at \in Nat /\ at \in Len(b) .. Len(bytes) /\ at = WireStart(b, labels, cut)
      BY <1>4, <3>1
    <3>3. k \in 0 .. Len(ps) /\ k # 0 /\ ps[k].name = SubSeq(bytes, at + 1, Len(bytes))
      BY <1>6, <3>1
    <3>4. at \in 0 .. Len(bytes)
      BY <1>1, <3>2
    <3> QED
      BY <1>1, <3>1, <3>2, <3>3, <3>4
  <2> HIDE DEF at, k
  <2>3. less \in Seq(Bytes) /\ r = EncoderOf(less, rs, c) /\ Len(less) = at
    <3>0. bytes \in Seq(Bytes) /\ at \in 0 .. Len(bytes) /\ stored = EncoderOf(bytes, qs, c)
      BY <1>4, <1>8, <2>2
    <3> HIDE DEF bytes
    <3>3. less \in Seq(Bytes) /\ ResetTo(EncoderOf(bytes, qs, c), at) = EncoderOf(less, rs, c)
      BY <3>0, ResetOf
    <3>1. less \in Seq(Bytes) /\ r = EncoderOf(less, rs, c)
      BY <3>0, <3>3
    <3>2. Len(less) = at
      BY <3>0, Prefix
    <3> QED
      BY <3>1, <3>2
  <2>4. qs \in Seq(PointerSet) /\ ps \in Seq(PointersTo(at))
    <3>1. Len(bytes) \in Nat /\ at >= Len(b)
      BY <1>1, <1>4, <2>2
    <3> HIDE DEF bytes
    <3> QED
      BY <1>1, <1>8, <2>2, <3>1, MorePointers
  <2>5. rs \in Seq(PointersTo(at)) /\ Extends(rs, ps) /\ AllIn(rs, S)
    <3>1. rs \in Seq(PointersTo(at)) /\ AllIn(rs, S)
      BY <1>8, <2>2, <2>4, KeptPointers
    <3>2. Extends(rs, ps)
      BY <1>8, <2>2, <2>4, KeptFirst
    <3> QED
      BY <3>1, <3>2
  <2>6. code \in Nat
    <3>1. ps[k] \in PointersTo(at)
      BY <2>2, <2>4, ElementOfSeq
    <3> DEFINE first == ps[k].start
    <3>2. first \in Nat
      BY <3>1 DEF PointersTo, PointerSet
    <3> HIDE DEF first
    <3>3. PointerTo(first) \in Words
      BY <3>2, PointerCode
    <3> QED
      BY <3>3, WordNumber DEF first
  <2> HIDE DEF less, rs, r
  <2>7. r.name_pointers[k] = ps[k]
    BY <2>2, <2>3, <2>5, EncoderFields DEF Extends
  <2>8. out = WriteSlice(r, U16(code))
    BY <2>1, <2>7 DEF PointTo
  <2> HIDE DEF code
  <2>9. U16(code) \in Seq(Bytes)
    BY <2>6, U16Bytes
  <2>10. out = EncoderOf(Cat(less, U16(code)), rs, c)
    <3> DEFINE d == U16(code)
    <3> HIDE DEF d
    <3>1. d \in Seq(Bytes) /\ out = WriteSlice(r, d)
      BY <2>8, <2>9 DEF d
    <3>2. out = EncoderOf(Cat(less, d), rs, c)
      BY <2>3, <3>1, WriteTo
    <3> QED
      BY <3>2 DEF d
  <2>11. Pointed(out, b, ps, c, labels)
    <3> HIDE DEF out
    <3>1. at \in Len(b) .. Len(bytes) /\ PointsFrom(out, bytes, at, k, ps, c, S)
      BY <2>2, <2>5, <2>10 DEF less, code, PointsFrom
    <3>2. at = WireStart(b, labels, cut) /\ cut \in 1 .. Len(labels) /\ k \in 1 .. Len(ps)
      BY <2>2
    <3>3. bytes = Cat(b, CharacterStrings(labels))
      BY DEF wire
    <3>4. S = PointersOf(ps, b, labels, cut - 1)
      BY <1>12 DEF S, last
    <3> HIDE DEF bytes
    <3> QED
      BY <3>1, <3>2, <3>3, <3>4 DEF Pointed
  <2> QED
    BY <2>2, <2>11 DEF out, e
<1>13. CASE ~(fresh # {} /\ full.offset > MAX_OFFSET) /\ cut = 0
  <2> DEFINE z == Len(wire)
  <2>1. WireSize(labels) = z /\ z \in Nat
    BY <1>4, SizeOfWire DEF wire
  <2>2. out = IF Len(ended.buffer) - Len(e.buffer) > MAX_NAME THEN Failed ELSE ended
    BY <1>2, <1>10, <1>13
  <2>3. Len(ended.buffer) - Len(e.buffer) = z + 1
    <3>1. Len(ended.buffer) = Len(b) + z + 1 /\ Len(e.buffer) = Len(b)
      BY <1>1, <1>3, <1>4, <1>9
    <3> HIDE DEF z
    <3> QED
      BY <1>1, <2>1, <3>1
  <2>4. Emittable(labels) <=> ~(z + 1 > MAX_NAME)
    <3> HIDE DEF z
    <3> QED
      BY <2>1, NameAssumption DEF Emittable
  <2> HIDE DEF z
  <2>5. CASE Emittable(labels)
    <3>1. out = ended
      BY <2>2, <2>3, <2>4, <2>5
    <3>2. S = PointersOf(ps, b, labels, n)
      BY <1>13 DEF S, last
    <3>3. InFull(out, b, ps, c, labels)
      BY <1>8, <1>9, <2>5, <3>1, <3>2 DEF InFull, bytes, wire
    <3> QED
      BY <3>3 DEF out, e
  <2>6. CASE ~Emittable(labels)
    <3>1. out = Failed
      BY <2>2, <2>3, <2>4, <2>6
    <3> QED
      BY <2>6, <3>1 DEF out, e
  <2> QED
    BY <2>5, <2>6
<1> QED
  BY <1>11, <1>12, <1>13

------------------------------------------------------------------------------
(* Whatever is written, the encoder stays one, or is broken. *)
LEMMA SoundWrite ==
  ASSUME NEW e, Sound(e), NEW d \in Seq(Bytes)
  PROVE  Sound(WriteSlice(e, d))
<1>1. PICK b \in Seq(Bytes), c \in BOOLEAN : \E ps \in Seq(PointersTo(Len(b))) : e = EncoderOf(b, ps, c)
  BY DEF Sound
<1>2. PICK ps \in Seq(PointersTo(Len(b))) : e = EncoderOf(b, ps, c)
  BY <1>1
<1>3. WriteSlice(e, d) = EncoderOf(Cat(b, d), ps, c)
  BY <1>2, WriteTo
<1>4. Cat(b, d) \in Seq(Bytes) /\ ps \in Seq(PointersTo(Len(Cat(b, d))))
  <2> DEFINE size == Len(b)  more == Len(Cat(b, d))
  <2>1. Cat(b, d) \in Seq(Bytes) /\ size \in Nat /\ more \in Nat /\ more >= size
    <3>1. Cat(b, d) \in Seq(Bytes) /\ Len(b) \in Nat /\ Len(d) \in Nat
          /\ Len(Cat(b, d)) = Len(b) + Len(d)
      BY CatLength
    <3> QED
      BY <3>1
  <2>2. ps \in Seq(PointersTo(size))
    BY <1>2
  <2> HIDE DEF size, more
  <2>3. ps \in Seq(PointersTo(more))
    BY <2>1, <2>2, MorePointers
  <2> QED
    BY <2>1, <2>3 DEF more
<1> QED
  BY <1>3, <1>4 DEF Sound

LEMMA SoundForm ==
  ASSUME NEW e, Sound(e), NEW canonical \in BOOLEAN
  PROVE  /\ Sound([e EXCEPT !.canonical_names = canonical])
         /\ [e EXCEPT !.canonical_names = canonical].canonical_names = canonical
         /\ [e EXCEPT !.canonical_names = canonical].offset = e.offset
         /\ e.canonical_names \in BOOLEAN
         /\ e.offset \in Nat
<1>1. PICK b \in Seq(Bytes), c \in BOOLEAN : \E ps \in Seq(PointersTo(Len(b))) : e = EncoderOf(b, ps, c)
  BY DEF Sound
<1>2. PICK ps \in Seq(PointersTo(Len(b))) : e = EncoderOf(b, ps, c)
  BY <1>1
<1>3. [e EXCEPT !.canonical_names = canonical] = EncoderOf(b, ps, canonical)
  BY <1>2, SetCanonical
<1>4. Sound([e EXCEPT !.canonical_names = canonical])
  BY <1>2, <1>3 DEF Sound
<1>5. /\ [e EXCEPT !.canonical_names = canonical].canonical_names = canonical
      /\ [e EXCEPT !.canonical_names = canonical].offset = e.offset
      /\ e.canonical_names = c /\ e.offset = Len(b)
  BY <1>2, <1>3, EncoderFields
<1> QED
  BY <1>4, <1>5

LEMMA SoundName ==
  ASSUME NEW e, Sound(e), NEW labels \in Seq(Labels), NEW canonical
  PROVE  \/ EmitAsCanonical(e, labels, canonical) \in Broken
         \/ Sound(EmitAsCanonical(e, labels, canonical))
<1> DEFINE out == EmitAsCanonical(e, labels, canonical)
           wire == CharacterStrings(labels)
<1>1. PICK b \in Seq(Bytes), c \in BOOLEAN : \E ps \in Seq(PointersTo(Len(b))) : e = EncoderOf(b, ps, c)
  BY DEF Sound
<1>2. PICK ps \in Seq(PointersTo(Len(b))) : e = EncoderOf(b, ps, c)
  BY <1>1
<1> DEFINE bytes == Cat(b, wire)
<1>3. wire \in Seq(Bytes) /\ bytes \in Seq(Bytes)
  BY StartsOf
<1>4. \/ out \in Broken \/ InFull(out, b, ps, c, labels) \/ Pointed(out, b, ps, c, labels)
  <2>1. \/ out = Panicked \/ out = Failed
        \/ InFull(out, b, ps, c, labels) \/ Pointed(out, b, ps, c, labels)
    BY <1>2, EmittedName
  <2> QED
    BY <2>1 DEF Broken
<1> HIDE DEF out
<1>5. ASSUME InFull(out, b, ps, c, labels) PROVE Sound(out)
  <2> DEFINE zero == <<0>>
  <2>1. PICK qs \in Seq(PointersTo(Len(bytes))) : out = EncoderOf(Cat(bytes, zero), qs, c)
    BY <1>5 DEF InFull
  <2>2. zero \in Seq(Bytes)
    BY DEF Bytes
  <2> HIDE DEF zero, bytes
  <2>3. Sound(EncoderOf(bytes, qs, c))
    BY <1>3, <2>1 DEF Sound
  <2>4. WriteSlice(EncoderOf(bytes, qs, c), zero) = EncoderOf(Cat(bytes, zero), qs, c)
    BY <1>3, <2>2, WriteTo
  <2> QED
    BY <2>1, <2>2, <2>3, <2>4, SoundWrite
<1>6. ASSUME Pointed(out, b, ps, c, labels) PROVE Sound(out)
  <2>1. PICK i \in 1 .. Len(labels), n \in 1 .. Len(ps) :
          /\ WireStart(b, labels, i) \in Len(b) .. Len(bytes)
          /\ PointsFrom(out, bytes, WireStart(b, labels, i), n, ps, c,
                        PointersOf(ps, b, labels, i - 1))
    BY <1>6 DEF Pointed
  <2> DEFINE at == WireStart(b, labels, i)
             code == PointerTo(ps[n].start)
             less == SubSeq(bytes, 1, at)
  <2>2. PICK rs \in Seq(PointersTo(at)) : out = EncoderOf(Cat(less, U16(code)), rs, c)
    BY <2>1 DEF PointsFrom
  <2>3. at \in 0 .. Len(bytes)
    <3>1. Len(b) \in Nat
      OBVIOUS
    <3> QED
      BY <2>1, <3>1
  <2>4. code \in Nat
    <3> DEFINE T == PointersTo(Len(b))
    <3> HIDE DEF T
    <3>1. ps[n] \in T
      BY <1>2, ElementOfSeq DEF T
    <3> DEFINE first == ps[n].start
    <3>2. first \in Nat
      BY <3>1 DEF T, PointersTo, PointerSet
    <3> HIDE DEF first
    <3>3. PointerTo(first) \in Words
      BY <3>2, PointerCode
    <3> QED
      BY <3>3, WordNumber DEF first
  <2> HIDE DEF code
  <2> DEFINE d == U16(code)
  <2>5. d \in Seq(Bytes)
    BY <2>4, U16Bytes
  <2> HIDE DEF d, bytes, at
  <2>6. less \in Seq(Bytes) /\ Len(less) = at
    BY <1>3, <2>3, Prefix
  <2> HIDE DEF less
  <2>7. Sound(EncoderOf(less, rs, c))
    BY <2>2, <2>6 DEF Sound
  <2>8. WriteSlice(EncoderOf(less, rs, c), d) = EncoderOf(Cat(less, d), rs, c)
    BY <2>5, <2>6, WriteTo
  <2> QED
    BY <2>2, <2>5, <2>7, <2>8, SoundWrite DEF d
<1> QED
  BY <1>4, <1>5, <1>6 DEF out

LEMMA LowercaseTyped ==
  ASSUME NEW labels \in Seq(Labels)
  PROVE  Lowercase(labels) \in Seq(Labels)
BY NameAssumption DEF Lowercase

LEMMA TypeCode ==
  ASSUME NEW type \in DOMAIN TypeCodes
  PROVE  TypeCodes[type] \in Nat /\ TypeCodes[type] < 65536
BY SMTT(60) DEF TypeCodes

LEMMA AlgorithmCode ==
  ASSUME NEW algorithm \in DOMAIN AlgorithmCodes
  PROVE  AlgorithmCodes[algorithm] \in Bytes
BY DEF AlgorithmCodes, Bytes

LEMMA TermsTyped ==
  ASSUME NEW t \in Terms
  PROVE  /\ t.type_covered \in DOMAIN TypeCodes
         /\ t.algorithm \in DOMAIN AlgorithmCodes
         /\ t.class \in DOMAIN ClassCodes
         /\ t.original_ttl \in Nat /\ t.sig_expiration \in Nat /\ t.sig_inception \in Nat
         /\ t.key_tag \in Nat /\ t.key_tag < 65536
<1>1. t \in TermSet
  BY TermsAssumption
<1> DEFINE types == DOMAIN TypeCodes  algorithms == DOMAIN AlgorithmCodes
           classes == DOMAIN ClassCodes  tags == Words
<1>2. t \in [type_covered : types, algorithm : algorithms, original_ttl : Nat,
             sig_expiration : Nat, sig_inception : Nat, key_tag : tags, class : classes]
  BY <1>1 DEF TermSet
<1>3. \A n \in tags : n \in Nat /\ n < 65536
  BY DEF Words
<1> HIDE DEF types, algorithms, classes, tags
<1>4. /\ t.type_covered \in types /\ t.algorithm \in algorithms /\ t.class \in classes
      /\ t.original_ttl \in Nat /\ t.sig_expiration \in Nat /\ t.sig_inception \in Nat
      /\ t.key_tag \in tags
  BY <1>2
<1> QED
  BY <1>3, <1>4 DEF types, algorithms, classes

LEMMA FourBytes ==
  ASSUME NEW k \in Nat
  PROVE  U32(k) \in Seq(Bytes) /\ Len(U32(k)) = 4
<1> DEFINE h == k \div 65536
           x == U16(h)
           y == U16(k)
<1>1. U32(k) = Cat(x, y) /\ h \in Nat
  BY U32Bytes
<1> HIDE DEF h
<1>2. x \in Seq(Bytes) /\ Len(x) = 2
  BY <1>1, U16Bytes
<1>3. y \in Seq(Bytes) /\ Len(y) = 2
  BY U16Bytes
<1> HIDE DEF x, y
<1>4. Cat(x, y) \in Seq(Bytes) /\ Len(Cat(x, y)) = Len(x) + Len(y)
  BY <1>2, <1>3, CatLength
<1> QED
  BY <1>1, <1>2, <1>3, <1>4

HeaderOf(p, q, r, s, u, v) == Cat(Cat(Cat(Cat(Cat(p, q), r), s), u), v)

LEMMA HeaderLength ==
  ASSUME NEW p \in Seq(Bytes), NEW q \in Seq(Bytes), NEW r \in Seq(Bytes), NEW s \in Seq(Bytes),
         NEW u \in Seq(Bytes), NEW v \in Seq(Bytes),
         Len(p) = 2, Len(q) = 2, Len(r) = 4, Len(s) = 4, Len(u) = 4, Len(v) = 2
  PROVE  HeaderOf(p, q, r, s, u, v) \in Seq(Bytes) /\ Len(HeaderOf(p, q, r, s, u, v)) = 18
<1> DEFINE c == Cat(p, q)  d == Cat(c, r)  e == Cat(d, s)  f == Cat(e, u)  g == Cat(f, v)
<1>1. c \in Seq(Bytes) /\ Len(c) = Len(p) + Len(q)
  BY CatLength
<1> HIDE DEF c
<1>2. d \in Seq(Bytes) /\ Len(d) = Len(c) + Len(r)
  BY <1>1, CatLength
<1> HIDE DEF d
<1>3. e \in Seq(Bytes) /\ Len(e) = Len(d) + Len(s)
  BY <1>2, CatLength
<1> HIDE DEF e
<1>4. f \in Seq(Bytes) /\ Len(f) = Len(e) + Len(u)
  BY <1>3, CatLength
<1> HIDE DEF f
<1>5. g \in Seq(Bytes) /\ Len(g) = Len(f) + Len(v)
  BY <1>4, CatLength
<1> HIDE DEF g
<1>6. g \in Seq(Bytes) /\ Len(g) = 18
  BY <1>1, <1>2, <1>3, <1>4, <1>5
<1> QED
  BY <1>6 DEF c, d, e, f, g, HeaderOf

LEMMA HeaderBytes ==
  ASSUME NEW t \in Terms, NEW n \in Bytes
  PROVE  /\ SigHeader(t, n) =
              HeaderOf(U16(TypeCodes[t.type_covered]), <<AlgorithmCodes[t.algorithm], n>>,
                       U32(t.original_ttl), U32(t.sig_expiration), U32(t.sig_inception),
                       U16(t.key_tag))
         /\ SigHeader(t, n) \in Seq(Bytes) /\ Len(SigHeader(t, n)) = 18
<1> DEFINE a == TypeCodes[t.type_covered]
           b == AlgorithmCodes[t.algorithm]
           p == U16(a)
           q == <<b, n>>
           r == U32(t.original_ttl)
           s == U32(t.sig_expiration)
           u == U32(t.sig_inception)
           v == U16(t.key_tag)
<1>1. a \in Nat /\ b \in Bytes
  BY TermsTyped, TypeCode, AlgorithmCode
<1>2. SigHeader(t, n) = HeaderOf(p, q, r, s, u, v)
  BY DEF SigHeader, Cat, HeaderOf
<1> HIDE DEF a, b
<1>3. p \in Seq(Bytes) /\ Len(p) = 2
  BY <1>1, U16Bytes
<1>4. q \in Seq(Bytes) /\ Len(q) = 2
  BY <1>1, Pair
<1>5. r \in Seq(Bytes) /\ Len(r) = 4
  BY TermsTyped, FourBytes
<1>6. s \in Seq(Bytes) /\ Len(s) = 4
  BY TermsTyped, FourBytes
<1>7. u \in Seq(Bytes) /\ Len(u) = 4
  BY TermsTyped, FourBytes
<1>8. v \in Seq(Bytes) /\ Len(v) = 2
  BY TermsTyped, U16Bytes
<1> HIDE DEF p, q, r, s, u, v
<1>9. HeaderOf(p, q, r, s, u, v) \in Seq(Bytes) /\ Len(HeaderOf(p, q, r, s, u, v)) = 18
  BY <1>3, <1>4, <1>5, <1>6, <1>7, <1>8, HeaderLength
<1>10. /\ SigHeader(t, n) = HeaderOf(p, q, r, s, u, v)
       /\ SigHeader(t, n) \in Seq(Bytes) /\ Len(SigHeader(t, n)) = 18
  BY <1>2, <1>9
<1> QED
  BY <1>10 DEF a, b, p, q, r, s, u, v

LEMMA RdataTyped ==
  ASSUME NEW rdata \in Rdatas
  PROVE  \/ rdata.type = "TXT" /\ rdata.txt_data \in Seq(Seq(Bytes))
         \/ /\ rdata.type = "DNSKEY" /\ rdata.algorithm \in DOMAIN AlgorithmCodes
            /\ rdata.public_key \in Seq(Bytes)
         \/ /\ rdata.type = "SIG" /\ rdata.sig.terms \in Terms /\ rdata.sig.num_labels \in Bytes
            /\ rdata.sig.signer_name \in Seq(Labels) /\ rdata.sig.signature \in Seq(Bytes)
<1> DEFINE strings == Seq(Seq(Bytes))
           bytes == Seq(Bytes)
           names == Seq(Labels)
           algorithms == DOMAIN AlgorithmCodes
           Txt == [type : {"TXT"}, txt_data : strings]
           Key == [type : {"DNSKEY"}, zone_key : BOOLEAN, revoke : BOOLEAN,
                   secure_entry_point : BOOLEAN, algorithm : algorithms, public_key : bytes]
           Sigs == [terms : Terms, num_labels : Bytes, signer_name : names, signature : bytes]
           Signed == [type : {"SIG"}, sig : Sigs]
<1>1. rdata \in Txt \cup Key \cup Signed
  BY WriteAssumption
<1> HIDE DEF strings, bytes, names, algorithms
<1>2. CASE rdata \in Txt
  BY <1>2 DEF strings
<1>3. CASE rdata \in Key
  BY <1>3 DEF bytes, algorithms
<1>4. CASE rdata \in Signed
  <2>1. rdata.type = "SIG" /\ rdata.sig \in Sigs
    BY <1>4
  <2>2. /\ rdata.sig.terms \in Terms /\ rdata.sig.num_labels \in Bytes
        /\ rdata.sig.signer_name \in names /\ rdata.sig.signature \in bytes
    BY <2>1
  <2> QED
    BY <2>1, <2>2 DEF names, bytes
<1> HIDE DEF Txt, Key, Signed
<1> QED
  BY <1>1, <1>2, <1>3, <1>4

LEMMA NewIsSound ==
  ASSUME NEW c \in BOOLEAN
  PROVE  /\ Sound([NewEncoder EXCEPT !.canonical_names = c])
         /\ [NewEncoder EXCEPT !.canonical_names = c] = EncoderOf(<<>>, <<>>, c)
<1> DEFINE none == <<>>
<1>1. none \in Seq(Bytes) /\ none \in Seq(PointersTo(Len(none))) /\ Len(none) = 0
  BY EmptySeq
<1>2. [NewEncoder EXCEPT !.canonical_names = c] = EncoderOf(none, none, c)
  BY <1>1 DEF NewEncoder, EncoderOf
<1> HIDE DEF none
<1>3. Sound(EncoderOf(none, none, c))
  BY <1>1 DEF Sound
<1> QED
  BY <1>2, <1>3 DEF none
==============================================================================
