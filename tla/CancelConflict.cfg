SPECIFICATION Spec
CONSTANTS
  Job = {j1}
  Holder = {h1}
  NoHolder = NoHolder
  Client = {c1, c2}
  MaxAttempts = 1
  TryLimit = 1
  NoJob = NoJob
SYMMETRY Symmetry
INVARIANT ConflictMeansTerminal
