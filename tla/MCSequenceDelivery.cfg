SPECIFICATION Spec
CONSTANTS
  Primary = 3
  Noise = 1
  Window = 2
  MaxAttempts = 2
  Contents = {a, b, c, d}
  Sizes = {1, 2}
  MemoryLimit = 5
  NoContent = NoContent
  NoSlot = NoSlot
  Absorbs = TRUE
  a = a
  b = b
  c = c
  d = d
SYMMETRY Symmetry
INVARIANTS
  NoDuplicateDelivered
  ReservationsOwned
  WindowHolds
  AttemptsReconcile
PROPERTIES
  DeliversInOrder
CHECK_DEADLOCK FALSE
