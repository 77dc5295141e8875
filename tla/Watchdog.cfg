CONSTANTS
    Innies <- MCInnies
    Results = {minusOne}
    DeadlockResult = minusOne
    Pending = Pending
    NoOne = NoOne
    AndCalls <- MCAndCalls
    OrCalls <- MCOrCalls
    MaxCalls = 1
    Listed <- MCListed
SPECIFICATION FairWatchSpec
INVARIANTS
    WatchTypeOK
    ReturnsSettled
    PendingHaveThreads
    AlarmIsLate
PROPERTIES
    NoEarlyResolution
    RunEnds
    OutiesGoOn
