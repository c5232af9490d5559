CONSTANTS
  Tty = 4
  Mouse = 6
  Periods <- MCPeriods
  N = 3
  Chars = {"a", "nl"}
  Newline = "nl"
  Counts = {1, 3}
  MaxKeys = 4
SPECIFICATION Spec
INVARIANTS NoneForgotten InOrder LinesCounted
CHECK_DEADLOCK FALSE
PROPERTY LinesArrive
