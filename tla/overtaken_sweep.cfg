CONSTANTS
    a1 = a1
    a2 = a2
    w1 = w1
    o1 = o1
    Agents <- OneAgent
    Sweepers <- OneSweeper
    Operators <- NoOperator
    Transcripts <- TheFixture
    Serialized = FALSE
    CommandTypes = {}
    MaxRuns = 1
    MaxSweeps = 1
    MaxCommands = 0
    MaxSubmits = 0
    MaxCrashes = 0
SPECIFICATION Spec
INVARIANT InvestigationJournalValid
CHECK_DEADLOCK FALSE
