SPECIFICATION LSpec
CONSTANTS
  Names = {"emp_code", "page"}
  Values = {0, 1, 2, 3}
  Start <- MCStart
  Rows = {1, 2, 3, 4, 5}
  PageSize = 2
  NoLink = NoLink
  BadLink = BadLink
  MaxCandidates = 4
  MaxDeleted = 2
INVARIANTS LossIsBounded LookupVerdict ScanIsBounded
CHECK_DEADLOCK FALSE
