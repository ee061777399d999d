\* Concurrent requests against an issuer that rotates its keys and fails.
SPECIFICATION Spec
CONSTANTS
  None = None
  Tasks = {t1, t2}
  Kids = {k1, k2}
  Docs <- UsableDocs
  MinRefreshInterval = 2
  MaxClock = 4
  MaxIssued = 2
  Cancellable = FALSE
SYMMETRY Symmetry
INVARIANT TypeOK
PROPERTY RefinesLoadedCopy
PROPERTY FetchRate
PROPERTY RotationPickedUp
PROPERTY RecoveryBound
