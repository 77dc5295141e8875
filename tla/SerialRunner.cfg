CONSTANTS
    Innies <- Three
    DeadlockResult <- MinusOne
    Pending = Pending
    Results <- MCResults
    Schedules <- ThreeInnies
    Orders <- SomeOrdersOfThree
    RunToAsk <- RunBlock
    Room = 2
SPECIFICATION FairRerunSpec
INVARIANTS
    NoReentry
    BarriersAreProbes
    ResultsStand
PROPERTIES
    OnlyLoopsSettle
    SerialCompletes
