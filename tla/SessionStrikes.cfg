SPECIFICATION SSpec
CONSTANTS
  Procs = {p1}
  Tokens = {t1, t2, t3, t4}
  NoToken = NoToken
  Free = Free
  MaxFresh = 2
  Backoff = 1
  MaxExpired = 2
  MaxLost = 1
  MaxSupplied = 0
INVARIANTS SuspensionNeedsTwoTokens
