CONSTANTS
    Innies <- Four
    DeadlockResult <- MinusOne
    Pending = Pending
    Results <- MCResults
    Schedules <- DagsAndFour
    Orders <- OrdersOfFour
    RunToAsk <- RunBlock
    Room = 4
SPECIFICATION OracleSpec
INVARIANTS
    AgreesUntilStrayed
