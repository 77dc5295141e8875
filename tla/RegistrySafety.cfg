CONSTANTS
    Innies <- MCInnies
    Results = {product, minusOne}
    DeadlockResult = minusOne
    Pending = Pending
    NoOne = NoOne
    AndCalls <- EveryAndCall
    OrCalls <- EveryOrCall
    MaxCalls = 2
SPECIFICATION Spec
INVARIANTS
    TypeOK
    ReadsAreSettled
    NoDoubleSettle
    CancelledNeverComputes
    CancelledFindsTarget
    GraphIsWaiters
    SleepersMustWait
    SomeoneIsAwake
    ExitedHasSettled
PROPERTIES
    ResolvedOnlyWhenQuiet
