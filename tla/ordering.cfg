SPECIFICATION Spec
CONSTANTS
  CAPACITY = 8
  W = 2
  MaxWords = 4
  MaxAttempts = 2
  MaxWrites = 10
INVARIANTS TypeOK NoTornReadWeak AvailableCannotWrapWeak
