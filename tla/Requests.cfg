\* Two clients that ask for the same, and DRWs nobody waits for a response to: four
\* in all, at most two of them with a waiter, and an index that wraps after three.
SPECIFICATION FairRequests
CONSTANTS
  Clients = {c1, c2}
  Cmds = {status}
  MaxSends = 4
  IndexSpace = 3
  MaxWaiters = 2
  None = None
INVARIANTS
  WaitersBounded
  AnswerNotMissed
  WaiterReachable
PROPERTIES
  RequestsEnd
CHECK_DEADLOCK FALSE
