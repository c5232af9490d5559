CONSTANTS
  Users = {1}
  INIT_PID = 1
  K_PROC_FD_COUNT = 1
  K_VNODE_COUNT = 5
  K_VFS_COUNT = 3
  Files = {}
  Dirs = {"/", "/dev"}
  ROOT = "/"
  DEV = "/dev"
  Chars = {"tty"}
  Disks = {"sd"}
  TTY = "tty"
  DEVFS = "devfs"
  Allowed = {"leave", "mount", "running"}
  MaxPath = 1
  MaxCount = 8
SPECIFICATION Spec
INVARIANTS NoneFreed OneVnode
CHECK_DEADLOCK FALSE
