CONSTANTS
    Works <- MCWorks
    Outcomes <- MCOutcomes
    RunToAsk <- RunBlock
SPECIFICATION WorkSpec
INVARIANTS
    LoadTypeOK
    AnswersFirstDefect
    KeepsText
    AsksOnlyKnown
