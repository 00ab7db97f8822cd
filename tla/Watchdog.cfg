\* The thresholds of the code, in seconds.
SPECIFICATION WatchdogSpec
CONSTANTS
  RerequestSec = 5
  DeadSec = 10
  RecvSec = 20
  AliveSec = 10
  MaxQueue = 2
  NoStall = NoStall
INVARIANTS
  SilenceIsNoticed
  StallIsNoticed
PROPERTIES
  DeathIsEarned
CHECK_DEADLOCK FALSE
