\* One client over two rounds, with a drop or a new page and a map that loads slowly.
SPECIFICATION Spec
CONSTANTS
  Cells = {1, 3}
  Chunks = {1, 2}
  ChunkOf <- ArenaChunkOf
  Weight <- ArenaWeight
  Scoring = {1}
  DeltaMax = 1
  BufferMax = 1
  LaterMax = 2
  MaxRounds = 2
  MaxPainted = 2
  MaxChanges = 1
  MaxFlight = 3
INVARIANTS
  ScoreIsArea
  QuietMeansEqual
  NobodyWaitsForever
CHECK_DEADLOCK FALSE
