CONSTANTS
  Size = 5
  LineEnds = {4}
  Returns = {1}
  Nulls = {2}
  LineMax = 2
  Ahead = 2
  Chunk = 1
  HexCounts = {2}
  Commands <- Sent
  FrameBytes = 2
  Capacity = 6
  Depth = 3
  MaxCommands = 4
  MaxKeys = 1
  MaxBoots = 1
SPECIFICATION Spec
CONSTRAINT Alone
INVARIANTS TypeOK StreamInOrder
PROPERTY FramesWhole
