CONSTANTS
    Innies <- Four
    Results <- MCResults
    DeadlockResult <- MinusOne
    Pending = Pending
    NoOne = NoOne
    AndCalls <- AllSets
    OrCalls <- AllLists
    MaxCalls = 8
    RunToAsk <- RunBlock
    Schedules <- DagsAndFour
SPECIFICATION FairBothSpec
INVARIANTS
    Deterministic
    ReportBlamesCulprits
PROPERTIES
    EverythingSettles
