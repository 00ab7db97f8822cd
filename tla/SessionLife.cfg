\* Two packets may wait, one P2pRdy may be inside the debounce delay.
SPECIFICATION FairSession
CONSTANTS
  MaxInbox = 2
  MaxTicks = 1
INVARIANTS
  TornStaysDown
  ObserverKnows
  EndIsReported
PROPERTIES
  AllTasksEnd
  StartVideoReturns
  FailureIsNoticed
CHECK_DEADLOCK FALSE
