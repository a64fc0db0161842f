SPECIFICATION SSpec
CONSTANTS
  Procs = {p1, p2, p3}
  Tokens = {t1, t2, t3, t4, t5}
  NoToken = NoToken
  Free = Free
  MaxFresh = 2
  Backoff = 1
  MaxExpired = 2
  MaxLost = 1
  MaxSupplied = 1
SYMMETRY Symmetric
INVARIANTS OneLoginPerExpiry NoFalseSuspension
PROPERTIES ExpiryIsInvisible SuppliedStays
