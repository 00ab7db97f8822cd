\* The same instance: the last listener does not always stop the camera.
SPECIFICATION StreamsSpec
CONSTANTS
  Devices = {d1}
  Sessions = {s1, s2}
  Clients = {c1, c2}
  None = None
INVARIANTS
  LastListenerStops
CHECK_DEADLOCK FALSE
