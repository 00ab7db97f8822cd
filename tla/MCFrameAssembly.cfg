\* Streams of up to five chunks of every kind.
SPECIFICATION AssemblySpec
CONSTANTS
  None = None
  Kinds <- MCKinds
  MaxChunks = 5
  Empty = Empty
  NoFrame <- MCNoFrame
  NoWindow <- MCNoWindow
INVARIANTS
  WindowNewest
  MissingExact
  CompleteIsPublished
  LatestIsFrame
PROPERTY PublishesFrames
