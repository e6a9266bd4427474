CONSTANTS
    Harts <- MCHarts
    MayAsk <- MCMayAsk
    MaxRequests = 2
SPECIFICATION FairSpec
INVARIANTS NoStrandedBit NoForgottenCall NoMissedReschedule CsdNotReused
PROPERTIES RequestsServed CallsAsPromised
CHECK_DEADLOCK FALSE
