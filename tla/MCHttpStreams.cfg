\* One device, two sessions of it in a row, two clients.
SPECIFICATION StreamsSpec
CONSTANTS
  Devices = {d1}
  Sessions = {s1, s2}
  Clients = {c1, c2}
  None = None
SYMMETRY Interchangeable
INVARIANTS
  NoSessionAstray
  EveryTaskIsWatched
  ClientsKeepStreams
PROPERTIES
  LeavesForAReason
CHECK_DEADLOCK FALSE
