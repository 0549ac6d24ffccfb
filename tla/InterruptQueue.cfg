CONSTANTS
  Line = {"KL11", "RL02", "KW11L"}
  CpuLine = {"KL11", "RL02"}
  ClkLine = {"KL11", "KW11L"}
  PolledLine = {"KW11L"}
  ForcedLine = {"RL02"}
  NoLine = "none"
  Level <- MCLevel
  Vec <- MCVec
SPECIFICATION Spec
INVARIANTS TypeOK NoLostWakeup StackTrapNotLost HandlerNotIdle
PROPERTIES Masking ImplementsRequests WaitEnds
