SPECIFICATION FairSpec
CONSTANTS
  Primary = 2
  Noise = 1
  Window = 2
  MaxAttempts = 2
  Contents = {a, b}
  Sizes = {1}
  MemoryLimit = 2
  NoContent = NoContent
  NoSlot = NoSlot
  Absorbs = FALSE
  a = a
  b = b
PROPERTIES
  DeliveryEnds
CHECK_DEADLOCK FALSE
