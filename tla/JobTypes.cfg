SPECIFICATION FairSpec
CONSTANTS
  Job = {j1}
  Holder = {h1, h2}
  NoHolder = NoHolder
  NoJob = NoJob
  MaxBudget = 2
  Payload <- MCPayload
  MaxSeconds = 2
  MaxRequests = 3
  GrantLimit = 2
INVARIANTS TypeOK SuccessMeansDone PostsPerClaim
PROPERTY HandlersEnd
CHECK_DEADLOCK FALSE
