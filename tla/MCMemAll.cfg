CONSTANTS
  K_MEM_BLOCK_COUNT = 4
  K_MEM_RSVD_BLOCKS = 1
  BLOCK = 1
  WORD = 8
  Users = {1, 2}
  Sizes = {1, 2, 9}
  Allowed = {"exec", "shrink", "full", "debug"}
SPECIFICATION Spec
INVARIANTS KernelKept
CHECK_DEADLOCK FALSE
