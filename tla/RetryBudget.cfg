SPECIFICATION Spec
CONSTANTS
  Job = {j1}
  NULL = NULL
  Server = {s1}
  Slot = {a, b}
  MaxAttempts = 1
  ClaimLimit = 2
  MaxPool = 1
INVARIANT AttemptsWithinBudget
