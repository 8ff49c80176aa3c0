SPECIFICATION Spec
CONSTANTS
  Primary = 2
  Noise = 0
  Window = 2
  MaxAttempts = 2
  Contents = {a, b}
  Sizes = {1}
  MemoryLimit = 2
  NoContent = NoContent
  NoSlot = NoSlot
  Absorbs = TRUE
  a = a
  b = b
SYMMETRY Symmetry
INVARIANTS
  FatalNamesSlot
CHECK_DEADLOCK FALSE
