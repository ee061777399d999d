\* Waiters of the lock: failing and cancelled fetches before them.
SPECIFICATION FairSpec
CONSTANTS
  None = None
  Tasks = {t1, t2, t3}
  Kids = {k1, k2}
  Docs <- OneOfEach
  MinRefreshInterval = 1
  MaxClock = 1
  MaxIssued = 1
  Cancellable = TRUE
INVARIANT OneFetchAtATime
PROPERTY EveryCallReturns
