SPECIFICATION Spec
CONSTANTS
  Job = {j1, j2}
  Worker = {w1, w2}
  NoJob = NoJob
  MaxPriority = 3
  AgingDivisor = 2
  MaxTime = 6
SYMMETRY Symmetry
INVARIANTS TypeOK AgedJobsGoFirst OrderIsSettled
CHECK_DEADLOCK FALSE
