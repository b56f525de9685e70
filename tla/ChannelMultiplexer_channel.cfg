SPECIFICATION LiveSpec
CONSTANTS
  Requests = {r}
  Chunks = {c}
  Timeout = 1
  OrdinaryMax = 1
  ControlMax = 2
  ControlBurst = 1
  MaxUnacked = 3
  MaxWakes = 1
INVARIANTS
  TypeOK
  SettlesHonestly
  NobodyWaitsOnAClosedChannel
  CancelFollowsItsRequest
  QueuedFramesAreServed
  AbandonedWorkIsStopped
PROPERTIES
  DeadLinkIsDeclared
CHECK_DEADLOCK FALSE
