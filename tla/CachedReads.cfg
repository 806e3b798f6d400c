SPECIFICATION Spec
CONSTANTS
  Nothing = Nothing
  Readers = {d1, d2}
  Writers = {w1}
  MaxNow = 2
  MaxEdits = 1
  MaxFaults = 1
INVARIANTS TypeOK FreshAfterInvalidation
CHECK_DEADLOCK FALSE
