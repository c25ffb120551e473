SPECIFICATION FairSpec
CONSTANTS
  Job = {j1}
  NULL = NULL
  Server = {s1, s2}
  Slot = {a}
  MaxAttempts = 1
  ClaimLimit = 2
  MaxPool = 2
PROPERTIES OrphansRecovered LostLeaseStopsHandler ShutdownCompletes
