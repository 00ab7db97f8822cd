\* The counter wraps after four chunks; streams of up to seven chunks.
SPECIFICATION VideoSpec
CONSTANTS
  None = None
  Kinds <- MCKinds
  MaxChunks = 7
  Empty = Empty
  NoFrame <- MCNoFrame
  NoWindow <- MCNoWindow
  IndexSpace = 4
  WrapMargin = 2
  MaxEpoch = 2
  MaxQueue = 2
INVARIANTS
  QueueInStep
  StoredInPlace
PROPERTIES
  ViewerSeesFrames
  EpochExact
