CONSTANTS
    Threads = {t1, t2}
    Accesses <- Copies
    Mappings <- MCMappings
    MayKill = TRUE
    MaxEvents = 2
SPECIFICATION SpecIoMayHang
PROPERTY NotEndlesslyRedone
CHECK_DEADLOCK FALSE
