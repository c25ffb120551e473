SPECIFICATION Spec
CONSTANTS
  Lease = 12
  Interval = 3
  Latency = 3
  ClaimTime = 2
INVARIANTS TypeOK HealthyKeepsLease OrphanBackInTime
CHECK_DEADLOCK FALSE
