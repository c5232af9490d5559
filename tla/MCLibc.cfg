SPECIFICATION Spec
CONSTANTS
    HEAPSTART = 4
    HEAPEND = 84
    ARGV0 = 88
    BRK_INCREMENT_MIN = 40
    TOP = 132
    Sizes = {1, 16}
    Names = {"a", "ab"}
    Values = {"v", "w"}
    Length <- MCLength
    Before <- MCBefore
    EnvAt = 92
    EnvLen = 16
    Vars <- MCVars
    MaxVars = 2
    MaxHeld = 2
    Content <- MCContent
    BUF = 4
    LineSizes = {1, 2, 4}
    Alphabet = {"%", "d", "x", "0", "8", "z"}
    MaxFormat = 6
INVARIANTS NothingLost BlocksOwned NothingSkipped SameText
CHECK_DEADLOCK FALSE
