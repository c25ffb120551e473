SPECIFICATION Spec
CONSTANTS
  Job = {j1}
  NULL = NULL
  Server = {s1, s2}
  Slot = {a}
  MaxAttempts = 2
  ClaimLimit = 3
  MaxPool = 3
SYMMETRY Symmetry
INVARIANTS TypeOK AtMostOneExecutor EvictedHasNoAuthority SnapshotFresh IndInv
PROPERTIES LeaseNotStolen BudgetDecidesDeath TerminalIsFinal RefinesLifecycle
