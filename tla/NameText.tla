------------------------------- MODULE NameText -------------------------------
(***************************************************************************)
(* Names as text, the form in which they are given to the host and in      *)
(* which the host hands them to the program it proves.  A character is its *)
(* code, up to 255; a label is the sequence of its bytes.                  *)
(***************************************************************************)
EXTENDS DnsName

ParseState == {"label", "escape1", "escape2", "escape3"}

ASSUME TextAssumption ==
  /\ Star = <<42>>
  /\ Panicked \notin ParseState \cup {"failed"}
  /\ \A l \in Labels : Len(l) \in 1 .. MAX_LABEL /\ LabelSize[l] = Len(l)

Dot == 46
Dash == 45
Asterisk == 42
Underscore == 95
Backslash == 92

IsAlphanumeric(c) == c \in (48 .. 57) \cup (65 .. 90) \cup (97 .. 122)
IsNumeric(c) == c \in (48 .. 57) \cup {178, 179, 185, 188, 189, 190}
IsOctal(c) == c \in 48 .. 55
IsControlOrSpace(c) == c \in (0 .. 32) \cup (127 .. 160)

IsSafeAscii(c, is_first, for_encoding) ==
  \/ IsAlphanumeric(c)
  \/ c = Underscore
  \/ c = Dash /\ ~is_first
  \/ c = Asterisk /\ is_first
  \/ c = Dot /\ ~for_encoding

(* Label::from_ascii accepts these. *)
IsAsciiLabel(chars) ==
  /\ Len(chars) \in 1 .. MAX_LABEL
  /\ \A i \in DOMAIN chars : IsSafeAscii(chars[i], i = 1, FALSE)

------------------------------------------------------------------------------
(* Writing: what is not safe is escaped, by itself or as an octal number.  *)
Octal(byte) == <<48 + byte \div 64, 48 + ((byte \div 8) % 8), 48 + (byte % 8)>>

WriteUnescaped(byte, is_first) == <<byte>>  \* forgets that a dot ends a label
WriteByte(byte, is_first) ==
  IF IsSafeAscii(byte, is_first, TRUE) THEN <<byte>>
  ELSE IF byte > 32 /\ byte < 127 THEN <<Backslash, byte>>
  ELSE <<Backslash>> \o Octal(byte)

WriteLabel(label) == FlattenSeq([i \in DOMAIN label |-> WriteByte(label[i], i = 1)])

Display(name) ==
  FlattenSeq([i \in DOMAIN name.labels |->
                (IF i = 1 THEN <<>> ELSE <<Dot>>) \o WriteLabel(name.labels[i])])
    \o (IF name.is_fqdn THEN <<Dot>> ELSE <<>>)

------------------------------------------------------------------------------
(***************************************************************************)
(* Reading, one character at a time.  A digit after a backslash begins an  *)
(* octal number of three; a digit that is not octal is unwrapped all the   *)
(* same and panics.                                                        *)
(***************************************************************************)
NewParser == [labels |-> <<>>, label |-> <<>>, state |-> "label", octal |-> 0]

Push(p, c) == [p EXCEPT !.label = Append(@, c), !.state = "label", !.octal = 0]

EndLabel(p) ==
  LET labels == Append(p.labels, p.label)
  IN  IF IsAsciiLabel(p.label) /\ NameLen(labels) <= MAX_NAME
      THEN [p EXCEPT !.labels = labels, !.label = <<>>]
      ELSE [p EXCEPT !.state = "failed"]

ReadPlain(p, c) ==
  CASE c = Dot -> EndLabel(p)
    [] c = Backslash -> [p EXCEPT !.state = "escape1"]
    [] IsControlOrSpace(c) -> [p EXCEPT !.state = "failed"]
    [] OTHER -> Push(p, c)

AfterDigit == [escape1 |-> "escape2", escape2 |-> "escape3", escape3 |-> "label"]

ReadEscape(p, c) ==
  CASE ~IsNumeric(c) ->
         IF p.state = "escape1" THEN Push(p, c) ELSE [p EXCEPT !.state = "failed"]
    [] IsNumeric(c) /\ ~IsOctal(c) -> [p EXCEPT !.state = Panicked]
    [] OTHER ->
         LET value == 8 * p.octal + c - 48
         IN  IF p.state = "escape3" THEN Push(p, value)
             ELSE [p EXCEPT !.state = AfterDigit[@], !.octal = value]

ReadChar(p, c) ==
  CASE p.state \in {"failed", Panicked} -> p
    [] p.state = "label" -> ReadPlain(p, c)
    [] OTHER -> ReadEscape(p, c)

(* The end of the text; an escape begun is dropped. *)
EndText(p, text) ==
  LET last == IF p.label = <<>> THEN p ELSE EndLabel(p)
  IN  CASE text = <<Dot>> -> FromLabels(<<>>)
        [] text # <<Dot>> /\ p.state = Panicked -> Panicked
        [] text # <<Dot>> /\ p.state # Panicked /\ "failed" \in {p.state, last.state} -> Failed
        [] OTHER -> [labels |-> last.labels, is_fqdn |-> text # <<>> /\ Last(text) = Dot]

FromAscii(text) == EndText(FoldLeft(ReadChar, NewParser, text), text)
==============================================================================
