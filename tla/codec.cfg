\* Texts of up to five characters, encoders of up to four writes, pairs of messages.
SPECIFICATION Spec
CONSTANTS
  Failed = Failed  Panicked = Panicked
  Labels <- MCLabels
  Star <- MCStar
  ToLower <- MCToLower
  LabelSize <- MCLabelSize
  MAX_LABEL = 3
  MAX_NAME = 6
  MaxLabels = 3
  Rdata = {1, 2}
  Terms <- MCTerms
  Signers <- MCSigners
  MAX_STRING = 4
  MAX_POINTER = 15
  MAX_OFFSET = 45
  Characters <- MCCharacters
  MaxTyped = 5
  Texts <- MCTexts
  Fields <- MCFields
  Rdatas <- MCRdatas
  MaxWrites = 4
  TxtOf <- MCTxtOf
  MaxRecords = 2
  MaxMessages = 2
INVARIANTS TypeOK TextIsReadBack NamesAreReadable MessagesAreToldApart
CHECK_DEADLOCK FALSE
