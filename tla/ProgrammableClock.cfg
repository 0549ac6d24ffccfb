CONSTANTS
  crystal = crystal
  line = line
  Modulus = 4
  Rate <- MCRate
  Period <- MCPeriod
  MaxOwed = 8
SPECIFICATION Spec
CONSTRAINT CleanOnly
INVARIANT TypeOK
PROPERTY Counts
