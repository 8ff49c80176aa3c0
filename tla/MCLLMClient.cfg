SPECIFICATION FairSpec
CONSTANTS
  c1 = c1
  c2 = c2
  c3 = c3
  p1 = p1
  o1 = o1
  Nobody = Nobody
  Calls <- MCCalls
  Profiles <- MCProfiles
  Keys <- MCKeys
  Origins <- MCOrigins
  ProfileOf <- MCProfileOf
  PoolOf <- MCPoolOf
  OriginOf <- MCOriginOf
  Capacity <- MCCapacity
  MaxRetries = 1
  Threshold = 2
  ParkBudget = 1
  MaxCooldown = 1
  Announces = {FALSE}
INVARIANTS
  PermitsExact
  CallsAccounted
PROPERTIES
  BreakerOpensForCause
  CallsEnd
CHECK_DEADLOCK FALSE
