CONSTANTS
  K_PROC_COUNT = 5
  TaskPids = {1}
  VFS = 1
  Signalled = {0}
  Faults = TRUE
  Prompt = FALSE
  Msg <- Message
  NoMsg <- NoRequest
SPECIFICATION SystemSpec
INVARIANTS KillsOnce NoMissedRendezvous TypeOK ReadyRing FreeRing OnCpu
