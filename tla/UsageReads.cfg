\* One app with two sessions, over two days and a clock that allows a gap
\* longer than Cap, and a reader in its own thread; the disk works, so rows
\* must track sessions.
SPECIFICATION SpecR
CONSTANTS
  Apps = {a1}
  SessionIds = {s1, s2}
  Days = {1, 2}
  Cap = 1
  MaxNow = 2
  DiskFaults = FALSE
  NoApp = NoApp
  NoSession = NoSession
SYMMETRY Symmetry
INVARIANTS
  TypeOK
  RowTracksSession
  NoMomentCreditedTwice
PROPERTIES
  CreditGoesToPollDay
  ReadWithinOneInterval
  KeepsLedger
