CONSTANTS
  Files = {"f"}
  Dirs = {"d"}
  Bytes <- MCBytes
  AnswerLen <- MCAnswerLen
  RFS_MAX_READ = 2
  Faults = {"none", "noise", "late", "share", "reboot"}
  MaxDescs <- MCMaxDescs
  MaxOpens = 2
  MaxCount = 3
  MaxLate = 0
SPECIFICATION Spec
INVARIANTS HandleHeld NoHandleLeft ReadRight
PROPERTY CallsReturn
CHECK_DEADLOCK FALSE
