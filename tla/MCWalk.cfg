SPECIFICATION FairSpec
CONSTANTS
  Names = {"page"}
  Values = {1, 2}
  Start <- MCStart
  Rows = {a, b}
  PageSize = 2
  NoLink = NoLink
  BadLink = BadLink
INVARIANTS AsksOnce CompleteIsWhole InOrder
PROPERTIES Terminates
CHECK_DEADLOCK FALSE
