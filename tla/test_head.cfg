SPECIFICATION Spec
CONSTANTS
  MaxEdits = 1
  MaxStops = 0
INVARIANTS TestConfirmsHead
