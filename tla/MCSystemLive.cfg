CONSTANTS
  K_PROC_COUNT = 5
  TaskPids = {1}
  VFS = 1
  Signalled = {}
  Faults = FALSE
  Prompt = TRUE
  Msg <- Message
  NoMsg <- NoRequest
SPECIFICATION FairSpec
PROPERTIES CallsReturn ZombiesGo ReadyRuns Spec
