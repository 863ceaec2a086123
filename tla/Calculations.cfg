SPECIFICATION Spec
CONSTANTS
  Junk = Junk
  Times <- MCTimes
  Instants <- MCInstants
  Caps <- MCCaps
  Names <- MCNames
  Stores <- MCStores
  Symbols <- MCSymbols
INVARIANTS
  FocusHoursTighten
  SameKeyEverywhere
  FiguresAgree
  SymbolIsRead
