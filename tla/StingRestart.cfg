CONSTANTS
    None = None
    Empty = Empty
    Unnamed = Unnamed
    TargetDelay = 1
    Window = 2
    Bounty = 2
    GasCosts = {1}
    SGX = TRUE
    Subverts = TRUE
    WritesFail = FALSE
    Impatient = FALSE
    CrashPoints = {"stinger_wait", "evidence_wait"}
    MaxRuns = 2
    MaxSetup = 3
    Slack = 1
    MaxReorgs = 1
    ReorgDepth = 1
SPECIFICATION Spec
INVARIANTS
    PollFindsOwnSting
    EvidenceOfThisRun
    ClaimStandsOnItsBlock
CHECK_DEADLOCK FALSE
