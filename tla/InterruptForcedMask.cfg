CONSTANTS
  Line = {"KL11", "LP11"}
  CpuLine = {"LP11"}
  ClkLine = {"KL11", "LP11"}
  PolledLine = {}
  ForcedLine = {"LP11"}
  NoLine = "none"
  Level <- MCLevel
  Vec <- MCVec
SPECIFICATION SafeSpec
PROPERTIES Masking
