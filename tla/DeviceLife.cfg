\* Up to three sessions of a device.
SPECIFICATION DeviceFair
CONSTANTS
  Sessions = {s1, s2, s3}
  None = None
INVARIANTS
  OneLiveSession
  ClosedIsClosed
  VideoIsResumed
PROPERTIES
  CloseReturns
CHECK_DEADLOCK FALSE
