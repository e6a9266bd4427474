CONSTANTS
    Threads = {t1, t2}
    Accesses <- MCAccesses
    Mappings <- MCMappings
    MayKill = TRUE
    MaxEvents = 2
SPECIFICATION FairSpec
INVARIANTS SemMatchesHolders NoSleepInAtomic
PROPERTIES HandlesWhatItChecked FaultEnds
CHECK_DEADLOCK FALSE
