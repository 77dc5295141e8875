CONSTANTS
    Innies <- TwoInnies
    Results = {product, minusOne}
    DeadlockResult = minusOne
    Pending = Pending
    NoOne = NoOne
    AndCalls <- PairCalls
    OrCalls <- NoCalls
    MaxCalls = 1
    Listed <- TwoListed
SPECIFICATION FairWatchSpec
INVARIANTS
    AlarmHasPending
