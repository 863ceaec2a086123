\* One app, two days and a restart; totals grow in two steps a day.
SPECIFICATION FairSpec
CONSTANTS
  Apps <- OneApp
  StaleAfter = 1
  Mishaps <- AnyMishap
  MaxUse = 2
  LastDay = 1
  MaxRestarts = 1
  NoDay = NoDay
INVARIANTS
  TypeOK
  RemoteNeverOvercounts
PROPERTIES
  CycleIsExact
  OthersAreCounted
