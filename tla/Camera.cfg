\* Two requests of the HTTP client, one fault of the network.
SPECIFICATION CameraSpec
CONSTANTS
  MaxRequests = 2
  MaxFaults = 1
  MaxFlight = 3
  None = None
INVARIANTS
  LoginIsKnown
  LoginOpens
  RefusalIsExplained
  StreamFollowsRequest
CHECK_DEADLOCK FALSE
