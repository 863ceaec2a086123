\* Is an app closed without grace really a newcomer?
SPECIFICATION Spec
CONSTANTS
  Apps <- OneApp
  Kinds <- Plain
  Grace = 2
  MaxLaunches = 2
  MaxRestarts = 1
  LastDay = 1
  NoDeadline = NoDeadline
  NoApp = NoApp
INVARIANT
  OnlyNewcomersLackGrace
