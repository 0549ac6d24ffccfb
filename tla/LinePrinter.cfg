CONSTANTS
  Size = 3
  Chunk = 2
  MaxPrints = 3
  MaxSessions = 2
SPECIFICATION Spec
CONSTRAINT CleanOnly
INVARIANTS TypeOK Captured NeverStuck
