CONSTANTS
  Char = {"ESC", "$", "]", ";", "a", "ETX", "NUL", "^A"}
  Prefix <- MCPrefix
  AltFirst = "$"
  End = {"ETX"}
  Abort = {"NUL", "^A", "ESC"}
  NulChar = "NUL"
  CommandMax = 1
  Steps <- MCSteps
  MaxOut = 6
SPECIFICATION GuestSpec
INVARIANTS Transparent AnswersPrompts
