\* A late DNSSEC answer after a reset and a new challenge.
SPECIFICATION Spec
CONSTANTS
  None = None
  Wallets = {w1}
  Domains = {d1, d2}
  MaxRequests = 1
  MaxChallenges = 2
  MaxCalls = 2
  MaxPolls = 1
  MaxTransactions = 1
  w1 = w1
  d1 = d1
  d2 = d2
INVARIANT DocMaterialIsOfDomain
