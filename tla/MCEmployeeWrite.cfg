SPECIFICATION Spec
CONSTANTS
  Writers = {w1, w2}
  Ids = {i1}
  Order <- MCOrder
  NoId = NoId
  Wants <- MCWants
  MaxEdits = 1
SYMMETRY Symmetric
INVARIANTS WTypeOK OkIsConfirmed VerdictIsRight RecordIsKept WrittenOnce
CHECK_DEADLOCK FALSE
