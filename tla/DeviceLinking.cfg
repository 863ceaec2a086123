\* Two registrations, one other device, requests that overtake one another.
SPECIFICATION FairSpec
CONSTANTS
  Devices = {d1}
  NoCode = NoCode
  Display = 1
  Lifetime = 2
  Delay = 1
  MaxDevices = 2
  MaxIds = 2
  MaxAsked = 2
INVARIANTS
  TypeOK
  OneAtATime
  OfferedCodeWorks
  
PROPERTY
  FormUnlocks
