SPECIFICATION Spec
CONSTANTS
    a = a
    b = b
    NumHarts = 4
    NrCpus = 3
    MaxIrqs = 2
    Cpus <- MCCpus
    Mms <- MCMms
    Shared <- MCShared
    NoMm = nomm
    Frames <- MCFrames
    MaxOps = 3
INVARIANTS OnlineIsReady PortLockSafe NoStaleTranslation FramesAccounted DirtyKept
PROPERTY BootFinishes
CHECK_DEADLOCK FALSE
