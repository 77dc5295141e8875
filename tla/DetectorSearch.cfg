CONSTANTS
    Innies <- MCInnies
    SearchGraphs <- MCGraphs
SPECIFICATION SearchSpec
INVARIANTS
    SearchTypeOK
    StuckIsGreatest
    AnswerIsComponent
    StuckMeansCycle
    ReducesToScc
PROPERTIES
    SearchEnds
