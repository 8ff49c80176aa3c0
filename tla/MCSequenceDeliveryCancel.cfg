SPECIFICATION Spec
CONSTANTS
  Primary = 1
  Noise = 1
  Window = 2
  MaxAttempts = 2
  Contents = {a, b}
  Sizes = {1}
  MemoryLimit = 2
  NoContent = NoContent
  NoSlot = NoSlot
  Absorbs = TRUE
  a = a
  b = b
SYMMETRY Symmetry
INVARIANTS
  CancelledNeverCommits
CHECK_DEADLOCK FALSE
