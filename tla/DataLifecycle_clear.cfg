\* Is what a session counts in its row between two polls, whatever the user deletes?
SPECIFICATION Spec
CONSTANTS
  Programs = {p1, p2}
  None = None
  Retentions = {0, 1}
  MaxApps = 2
  MaxSessions = 2
  MaxSec = 1
  LastDay = 2
  ResetsFrom = 0
SYMMETRY ProgramSymmetry
INVARIANT
  ProgressIsSaved
