\* Two licences; a move; two requests at once.
SPECIFICATION Spec
CONSTANTS
  Keys = {k1, k2}
  None = None
  Grace = 2
  StaleAfter = 1
  Term = 2
  MaxRequests = 2
  MaxMoves = 1
SYMMETRY KeySymmetry
INVARIANTS
  TypeOK
  PremiumIsBacked
PROPERTY
  OutageNeverRevokes
