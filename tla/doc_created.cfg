\* A transaction that fails after it was sent.
SPECIFICATION Spec
CONSTANTS
  None = None
  Accounts = {a1, a2}
  Nullifiers = {n1}
  MaxLifetime = 1
  MaxTime = 1
  MaxPolls = 1
  MaxTransactions = 1
  MaxLoads = 2
  MaxActions = 1
  MaxExecutions = 1
INVARIANT DocIntentIsCreated
CHECK_DEADLOCK FALSE
SYMMETRY MCSymmetry
VIEW MCView
