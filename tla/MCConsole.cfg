CONSTANTS
  W = 3
  H = 2
  CZ = 2
  R = 7
  Ttys = {0, 1}
  Blank = 0
  Newline = 10
  Keys <- MCKeys
  Table <- Tables
  Written = {10, 98}
  MaxChars = 4
  Small <- MCSmall
SPECIFICATION Spec
INVARIANTS Shown TableIsTail NoneInvented
PROPERTY ResetMeant
