CONSTANTS
  Limit <- MCLimit
  GuestDrops = 1
SPECIFICATION Spec
CONSTRAINT NotCrossed
INVARIANTS TypeOK InOrder RequestIsEdge
PROPERTIES UnreadStays InputRead
