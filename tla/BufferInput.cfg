SPECIFICATION Spec
CONSTANTS
  Initial = 4
  Extra = 3
  MaxBytes = 11
  Usages <- InputOnly
INVARIANT
  UnreadIntact
CHECK_DEADLOCK FALSE
