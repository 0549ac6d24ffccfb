CONSTANTS
  Size = 4
  Byte = {"nul", "a"}
  Nul = "nul"
SPECIFICATION FifoSpec
INVARIANTS FifoTypeOK ReadStable
PROPERTIES ImplementsChannel
