CONSTANTS
    a1 = a1
    a2 = a2
    w1 = w1
    o1 = o1
    Agents <- OneAgent
    Sweepers <- OneSweeper
    Operators <- OneOperator
    Transcripts <- AllTranscripts
    Serialized = TRUE
    CommandTypes <- AllCommands
    MaxRuns = 2
    MaxSweeps = 0
    MaxCommands = 2
    MaxSubmits = 2
    MaxCrashes = 1
SPECIFICATION FairSpec
INVARIANT InvestigationJournalValid
PROPERTIES CancelledIsNeverJudged
    VerifiedBecomesReadyUnlessStuck CommandTakesEffectUnlessStuck
