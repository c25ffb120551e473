SPECIFICATION Spec
CONSTANTS
  Job = {j1, j2}
  NULL = NULL
  Server = {s1}
  Slot = {a, b}
  MaxAttempts = 1
  ClaimLimit = 2
  MaxPool = 2
SYMMETRY Symmetry
INVARIANT AtMostOneExecutor
PROPERTIES LeaseNotStolen RefinesLifecycle
