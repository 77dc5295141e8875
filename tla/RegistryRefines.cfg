CONSTANTS
    Innies <- MCInnies
    Results = {product, minusOne}
    DeadlockResult = minusOne
    Pending = Pending
    NoOne = NoOne
    AndCalls <- SomeAndCalls
    OrCalls <- SomeOrCalls
    MaxCalls = 1
SPECIFICATION FairSpec
PROPERTIES
    EverythingSettles
    ImplementsWorkday
