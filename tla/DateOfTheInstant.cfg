SPECIFICATION Spec
CONSTANTS
  Horizon = 11
  Day = 4
  Fractions = {0, 1}
  Offsets <- WesternOffsets
  MaxTexts = 4
INVARIANTS DateOfTheInstant
CHECK_DEADLOCK FALSE
