CONSTANTS
    a1 = a1
    a2 = a2
    w1 = w1
    o1 = o1
    Agents <- TwoAgents
    Sweepers <- NoSweeper
    Operators <- OneOperator
    Transcripts <- TwoTranscripts
    Serialized = FALSE
    CommandTypes = {"cancel"}
    MaxRuns = 3
    MaxSweeps = 0
    MaxCommands = 1
    MaxSubmits = 1
    MaxCrashes = 1
SPECIFICATION Spec
SYMMETRY AgentSymmetry
INVARIANTS FactsInOrder VerdictAsDeserved ReadyOnlyVerified
CHECK_DEADLOCK FALSE
