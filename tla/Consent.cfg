\* Crashes anywhere, file operations that fail; consent and one more setting.
SPECIFICATION ConsentSpec
CONSTANTS
  Keys <- SomeKeys
  Values <- Flags
  Default <- NothingSet
  Missing = Missing
INVARIANTS
  ConsentTypeOK
  SavedIsStored
  NothingRecordedUnasked
  CutShortIsWithdrawn
PROPERTY
  OldOrNew
