SPECIFICATION ChannelSpec
CONSTANTS
  NumRoutes = 1
  MaxEvents = 2
  MaxFaults = 1
  MaxPage = 2
  MaxTime = 1
CONSTRAINT OneClock
INVARIANTS NothingOwedIsSkipped InOrder
CHECK_DEADLOCK FALSE
