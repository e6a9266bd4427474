SPECIFICATION Spec
CONSTANTS
    Topics = {"atomic"}
    \* user copies
    SZREG = 4
    Addresses = {0, 1, 2, 3, 4, 5, 6, 7, 8}
    Lengths = {0, 1, 2, 3, 4, 5, 6, 7, 8, 9, 10, 11}
    AddrLimit = 15
    XlenSize = 64
    \* memcpy and memset
    WordSize = 2
    UNROLL = 4
    BLOCK = 2
    SetMin = 4
    CopyMin = 4
    Places = {8, 9}
    Counts = {0, 1, 2, 3, 4, 5, 6, 7, 8, 9, 10, 11, 12, 13, 14, 15, 16, 17, 18, 19, 20, 21}
    \* the time counter
    Xlen = 4
    MaxTime = 14
    Cycles = {0, 1, 3}
    \* stack traces
    THREAD_SIZE = 8
    FramePointer = {TRUE, FALSE}
    MaxEntries = 2
    MaxSkip = 1
    \* atomics
    Harts = {1, 2}
    HalfBits = 2
    Starts = {0, 1, 4, 8, 15}
    Operands = {1, 15}
    MaxCalls = 2
    \* the frame buffer
    VIDEOMEM_SIZE = 32
    UintBits = 8
    MaxX = 4
    MaxY = 4
    XPanStep = 2
    Xs = {0, 6, 129}
    Ys = {0, 2, 16}
    Offsets = {0, 12}
    Depths = {0, 4, 8, 32}
    \* the reader/writer lock
    Cpus = {h1, h2}
    \* the configuration string
    Fragments <- MCFragments
    MaxFragments = 5
    Numerals <- MCNumerals
    Sign <- MCSign
    Radix <- MCRadix
    Digits <- MCDigits
    U64 = 256
INVARIANT
    AtomicAsCommented
CHECK_DEADLOCK FALSE
