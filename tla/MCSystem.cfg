CONSTANTS
  K_PROC_COUNT = 6
  TaskPids = {1}
  VFS = 1
  Signalled = {}
  Faults = FALSE
  Prompt = TRUE
  Msg <- Message
  NoMsg <- NoRequest
SPECIFICATION SystemSpec
INVARIANTS AnswersMatch ServersServe WaitedFor
