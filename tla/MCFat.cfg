SPECIFICATION Spec
CONSTANTS
    Names = {"sub", "big", "empty"}
    ROOT = "root"
    SkipEntry = "skip"
    EndEntry = "end"
    Entry <- MCEntry
    Stream <- MCStream
    B = 2
    SPC = 2
    EPS = 2
    MaxRootEntries = 4
    MaxRootSectors = 3
    VnodeCount = 3
    MaxReferences = 3
    Sizes = {1, 4}
INVARIANTS ReadRight ListedOnce
CHECK_DEADLOCK FALSE
