SPECIFICATION RotationSpec
CONSTANTS
  MaxGeneration = 3
  MaxRestarts = 1
  MaxOps = 2
  MaxActive = 2
  Commit = {1, 2}
  OldWorker = 0
  MaxRotations = 1
CONSTRAINTS Together
INVARIANTS OneCurrentGeneration OlderHostsAreGivenUp PlaceIsHeldOnce
CHECK_DEADLOCK FALSE
