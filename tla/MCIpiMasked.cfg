CONSTANTS
    Harts <- MCHarts
    MayAsk <- MCMayAskSingle
    MaxRequests = 2
SPECIFICATION FairSpec
PROPERTIES IpiHandled
CHECK_DEADLOCK FALSE
