CONSTANTS
  K_MEM_BLOCK_COUNT = 8
  K_MEM_RSVD_BLOCKS = 2
  BLOCK = 2
  WORD = 65536
  Users = {1, 2, 3}
  Sizes = {2, 3, 5}
  Allowed = {"exec"}
SPECIFICATION Spec
INVARIANTS Owned OwnData NoLeak
CHECK_DEADLOCK FALSE
