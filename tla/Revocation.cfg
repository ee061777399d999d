\* Concurrent checks, slow and failing fetches, cancelled checks.
SPECIFICATION FairSpec
CONSTANTS
  None = None
  Tasks = {t1, t2, t3}
  Jtis = {j1}
  Docs <- AllLists
  RefreshInterval = 1
  MaxClock = 2
  MaxIssued = 2
  Cancellable = TRUE
INVARIANT TypeOK
INVARIANT OneFetchAtATime
PROPERTY RefinesThrottledCopy
PROPERTY RevocationNoticed
PROPERTY RefusalSticks
PROPERTY EveryCheckReturns
