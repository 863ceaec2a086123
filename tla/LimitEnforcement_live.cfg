\* An app that can be closed or one that resists, over one midnight.
SPECIFICATION FairSpec
CONSTANTS
  Apps <- OneApp
  Kinds <- PlainOrStubborn
  Grace = 2
  MaxLaunches = 1
  MaxRestarts = 0
  LastDay = 1
  NoDeadline = NoDeadline
  NoApp = NoApp
PROPERTIES
  OverLimitIsClosed
  OverLimitIsAnnounced
