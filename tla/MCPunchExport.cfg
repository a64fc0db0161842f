SPECIFICATION XSpec
CONSTANTS
  Horizon = 8
  Offsets <- MCOffsets
  Punches = {p1, p2, p3}
  Delay = 1
  Margin = 4
  NoTime = NoTime
  PageSize = 1
SYMMETRY Symmetric
INVARIANTS ExportIsLossless
PROPERTIES AgainOnlyAtTheSeam PagesStandStill WindowsSpec
CHECK_DEADLOCK FALSE
