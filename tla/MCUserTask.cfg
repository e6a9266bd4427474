SPECIFICATION Spec
CONSTANTS
    \* traps
    Tasks = {idle, init, new}
    Idle = idle
    Init1 = init
    Raised = {"SIGPENDING", "NEED_RESCHED"}
    \* registers
    h1 = h1
    h2 = h2
    t1 = t1
    t2 = t2
    zero = zero
    one = one
    Harts <- MCHarts
    Threads <- MCThreads
    First = t1
    Swapper = swapper
    Values <- MCValues
    Reset = zero
    Unset = unset
    MaxFrames = 1
    \* signals
    Signals = {s1, s2}
    SaRestart = {s1}
    Calls = {"read", "futex", "pause", "sigsuspend", "nanosleep"}
    SuspendMask = {s1}
    MaxSends = 4
SYMMETRY Symmetric
INVARIANTS
    SscratchRight CurrentOwnsStack StacksWhole NoWorkLeftBehind NestingBounded
    OwnRegisters SavedRight
    NoCodeLeaks EintrMeansHandled MaskRestored NoReentry PendingIsFlagged
PROPERTY FramesUntouched
