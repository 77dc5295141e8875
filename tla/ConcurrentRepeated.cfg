CONSTANTS
    Innies <- Three
    Results <- MCResults
    DeadlockResult <- MinusOne
    Pending = Pending
    NoOne = NoOne
    AndCalls <- AllSets
    OrCalls <- AllLists
    MaxCalls = 8
    RunToAsk <- RunBlock
    Schedules <- Repeated
SPECIFICATION BothSpec
INVARIANTS
    EarliestFault
