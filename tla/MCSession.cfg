SPECIFICATION FairSpec
CONSTANTS
  Procs = {p1, p2}
  Tokens = {t1, t2, t3}
  NoToken = NoToken
  Free = Free
  MaxFresh = 2
  Backoff = 2
INVARIANTS LoginBudget NoLoginInWindow IInv
PROPERTIES EveryCallReturns ThrottleSpec
