\* A genuine signature whose signer's name is in upper case.
SPECIFICATION Spec
CONSTANTS
  star = star  a = a  A = A  long = long  zsk = zsk  ksk = ksk
  Keys = {zsk, ksk}
  Points = {zsk, ksk}
  Compact = {zsk, ksk}
  Signings <- MCSignings
  NoRun = NoRun  Failed = Failed  Panicked = Panicked
  Labels <- MCLabels
  Star = star
  ToLower <- MCToLower
  LabelSize <- MCLabelSize
  MAX_LABEL = 3
  MAX_NAME = 8
  MaxLabels = 3
  Rdata = {1, 2}
  Terms = {0}
  Signers <- MCSigners
  MaxSigned = 1
  MaxRecords = 2
INVARIANT DocSignerIsCanonical
CHECK_DEADLOCK FALSE
