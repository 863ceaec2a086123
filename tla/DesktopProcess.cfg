\* The whole process; a shutdown any of whose calls can fail.
SPECIFICATION FairSpec
INVARIANTS
  ProcessTypeOK
  ClosedAfterUse
  IconIsOwned
PROPERTY
  QuitEnds
