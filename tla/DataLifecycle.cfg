\* Two programs, two ids and two sessions, over three days.
SPECIFICATION Spec
CONSTANTS
  Programs = {p1, p2}
  None = None
  Retentions = {0, 1}
  MaxApps = 2
  MaxSessions = 2
  MaxSec = 1
  LastDay = 2
  ResetsFrom = 2
SYMMETRY ProgramSymmetry
INVARIANTS
  RemovedIsForgotten
  DeletedStaysDeleted
  UsageIsTheApps
PROPERTY
  HistoryIsKept
