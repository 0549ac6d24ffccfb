CONSTANTS
  Limit <- MCLimit
  GuestDrops = 0
SPECIFICATION SafeSpec
PROPERTIES NeverOverwritten
