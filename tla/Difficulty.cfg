SPECIFICATION Spec
CONSTANTS
  Base = 4
  Size = 8
  PowBits <- MCPowBits
  Day = 4
  Spacing = 2
  Times = {0, 3, 11, 40}
  MaxLength = 10
CHECK_DEADLOCK FALSE
INVARIANTS BitsSound WorkSteered
