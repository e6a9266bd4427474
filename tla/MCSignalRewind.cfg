CONSTANTS
    Signals = {s1, s2}
    SaRestart = {s1}
    Calls = {"read", "futex", "pause", "sigsuspend", "nanosleep"}
    SuspendMask = {s1}
    MaxSends = 4
SPECIFICATION SignalSpec
INVARIANT NeverBeforeTheCall
CHECK_DEADLOCK FALSE
