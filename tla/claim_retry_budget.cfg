SPECIFICATION Spec
CONSTANTS
  Requests <- MCRequests
  Setups <- MCSetups
  Words <- MCWords
  Nil = Nil
  RetryFloor = 8
  DefaultMax = 8
  MaxMessages = 1
INVARIANT RetryHasBudget
