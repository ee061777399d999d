\* A revocation older than one interval goes unnoticed without any failure.
SPECIFICATION Spec
CONSTANTS
  None = None
  Tasks = {t1, t2}
  Jtis = {j1}
  Docs <- AllLists
  RefreshInterval = 2
  MaxClock = 5
  MaxIssued = 2
  Cancellable = FALSE
PROPERTY NoticedWithinInterval
