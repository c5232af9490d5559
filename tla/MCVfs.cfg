CONSTANTS
  Users = {1, 2}
  INIT_PID = 1
  K_PROC_FD_COUNT = 1
  K_VNODE_COUNT = 5
  K_VFS_COUNT = 2
  Files = {"f"}
  Dirs = {"/", "/dev"}
  ROOT = "/"
  DEV = "/dev"
  Chars = {"tty"}
  Disks = {}
  TTY = "tty"
  DEVFS = "devfs"
  Allowed = {}
  MaxPath = 2
  MaxCount = 99
SPECIFICATION Spec
INVARIANTS TypeOK CountsExact
PROPERTY KeepsPromise
CHECK_DEADLOCK FALSE
