\* The claim that one session never takes the process down.
SPECIFICATION SessionSpec
CONSTANTS
  MaxInbox = 2
  MaxTicks = 1
INVARIANT ProcessSurvives
CHECK_DEADLOCK FALSE
