SPECIFICATION Spec
CONSTANTS
  MaxDials = 2
  MaxSent = 1
  MaxQueue = 1
  MaxHandshaking = 1
  MaxPerPeer = 1
CONSTRAINT OneSided
INVARIANTS AdmissionExact GivesUpOnce
PROPERTIES ImplementsLink
CHECK_DEADLOCK FALSE
