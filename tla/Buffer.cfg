SPECIFICATION Spec
CONSTANTS
  Initial = 4
  Extra = 3
  MaxBytes = 11
  Usages <- Both
INVARIANTS
  TypeOK
  IndexesInBounds
  FirstBytesIntact
CHECK_DEADLOCK FALSE
