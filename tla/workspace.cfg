\* One wallet, two domains: resets, late answers, reloads and lost polls in every order.
SPECIFICATION Spec
CONSTANTS
  None = None
  Wallets = {w1}
  Domains = {d1, d2}
  MaxRequests = 1
  MaxChallenges = 2
  MaxCalls = 2
  MaxPolls = 1
  MaxTransactions = 2
  w1 = w1
  d1 = d1
  d2 = d2
INVARIANTS TypeOK BusyIsBacked ProofsHaveTheirKeys ShownIsReal
PROPERTIES ImplementsIssuance OnlyLateAnswersStrand
