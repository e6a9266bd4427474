CONSTANTS
    Threads = {t1, t2}
    Accesses <- UserAndVmalloc
    Mappings <- MCMappings
    MayKill = FALSE
    MaxEvents = 2
SPECIFICATION Spec
PROPERTY VmallocTakesNoLock
CHECK_DEADLOCK FALSE
