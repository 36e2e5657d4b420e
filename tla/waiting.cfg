\* The browser answers every call; nobody has to sign.
SPECIFICATION FairSpec
CONSTANTS
  None = None
  Wallets = {w1}
  Domains = {d1}
  MaxRequests = 1
  MaxChallenges = 2
  MaxCalls = 2
  MaxPolls = 1
  MaxTransactions = 2
  w1 = w1
  d1 = d1
PROPERTY BusyEnds
