\* Two wallets and overlapping loads of a credential, one action, one execution and one
\* transaction at a time.
SPECIFICATION Spec
CONSTANTS
  None = None
  Accounts = {a1, a2}
  Nullifiers = {n1}
  MaxLifetime = 1
  MaxTime = 1
  MaxPolls = 1
  MaxTransactions = 1
  MaxLoads = 2
  MaxActions = 1
  MaxExecutions = 1
INVARIANTS ShownIsOnLedger WaitsAreBacked
CHECK_DEADLOCK FALSE
SYMMETRY MCSymmetry
VIEW MCView
CONSTRAINT OneAtATime
