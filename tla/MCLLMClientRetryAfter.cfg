SPECIFICATION Spec
CONSTANTS
  c1 = c1
  c2 = c2
  c3 = c3
  p1 = p1
  o1 = o1
  Nobody = Nobody
  Calls <- MCPairCalls
  Profiles <- MCProfiles
  Keys <- MCKeys
  Origins <- MCOrigins
  ProfileOf <- MCProfileOf
  PoolOf <- MCPoolOf
  OriginOf <- MCOriginOf
  Capacity <- MCCapacity
  MaxRetries = 1
  Threshold = 2
  ParkBudget = 2
  MaxCooldown = 2
  Announces = {TRUE, FALSE}
PROPERTIES
  RetryAfterHonoured
CHECK_DEADLOCK FALSE
