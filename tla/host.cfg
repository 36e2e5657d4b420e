\* Two versions of a zone published while two commands run.
SPECIFICATION HostSpec
CONSTANTS
  star = star  a = a  A = A  b = b  zsk = zsk  twin = twin  rsa = rsa  ed = ed
  Keys = {zsk, twin, rsa, ed}
  Points = {zsk, twin}
  Compact = {zsk, twin, ed}
  Signings <- MCSignings
  NoRun = NoRun  Failed = Failed  Panicked = Panicked
  Labels <- MCLabels
  Star = star
  ToLower <- MCToLower
  LabelSize <- MCLabelSize
  MAX_LABEL = 1
  MAX_NAME = 5
  MaxLabels = 2
  Rdata = {1, 2}
  Terms = {1, 2}
  Signers <- MCSigners
  MaxSigned = 3
  MaxRecords = 2
  Versions <- MCVersions
  Arguments <- MCArguments
  Tag <- MCTag
  MaxCommands = 2
INVARIANTS ProvedWasPublished OneVersionIsProved FilesAgree
CHECK_DEADLOCK FALSE
