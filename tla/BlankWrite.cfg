SPECIFICATION CSpec
CONSTANTS
  Powers <- MCPowers
  Parts = 4
  Significand = 8
  Int64 = 16
  HostInts = {8, 16}
  MaxWhole = 20
  Values = {"a", "b"}
  MaxMembers = 3
  MaxInt = 3
  DefaultCap = 2
  Lengths = {0, 1, 2, 3}
  Horizon = 11
  Day = 4
  Fractions = {0, 1}
  Offsets <- MCOffsets
  MaxTexts = 4
INVARIANTS WriteReturnsARecord
CHECK_DEADLOCK FALSE
