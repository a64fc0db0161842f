SPECIFICATION Spec
CONSTANTS
  Horizon = 11
  Day = 4
  Fractions = {0, 1}
  Offsets <- EasternOffsets
  MaxTexts = 4
INVARIANTS EarlierOfTheTwo
CHECK_DEADLOCK FALSE
