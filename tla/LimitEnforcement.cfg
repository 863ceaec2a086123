\* One app, launched twice, over one midnight and one restart.
SPECIFICATION Spec
CONSTANTS
  Apps <- OneApp
  Kinds <- Plain
  Grace = 2
  MaxLaunches = 2
  MaxRestarts = 1
  LastDay = 1
  NoDeadline = NoDeadline
  NoApp = NoApp
PROPERTIES
  GraceIsGiven
  DayStartsAfresh
