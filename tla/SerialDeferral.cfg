CONSTANTS
    Innies <- Three
    DeadlockResult <- MinusOne
    Pending = Pending
    Results <- MCResults
    Schedules <- Deferred
    Orders <- OrdersOfThree
    RunToAsk <- RunBlock
    Room = 4
SPECIFICATION OracleSpec
INVARIANTS
    AgreesUnlessDeadlocked
