\* An unusable document is cached and never fetched again.
SPECIFICATION Spec
CONSTANTS
  None = None
  Tasks = {t1, t2}
  Kids = {k1, k2}
  Docs <- FaultyDocs
  MinRefreshInterval = 2
  MaxClock = 4
  MaxIssued = 2
  Cancellable = FALSE
PROPERTY RecoveryBound
