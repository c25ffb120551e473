SPECIFICATION Spec
CONSTANTS
  Job = {j1,j2}
  Holder = {h1}
  NoHolder = NoHolder
  Client = {c1, c2}
  MaxAttempts = 2
  TryLimit = 1
  NoJob = NoJob
SYMMETRY Symmetry
INVARIANTS TypeOK AnswersAreTrue RefusalsAreJustified OneRemover BudgetWithinPolicy
