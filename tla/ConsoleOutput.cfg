CONSTANTS
  Size = 3
  Byte = {"a"}
  Nul = "a"
  Burst = 2
  Reserve = 2
SPECIFICATION Spec
INVARIANTS TypeOK NothingDropped ResetDiscards
PROPERTIES DoneMeansRoom OutputIsChannel OutputDrains
