CONSTANTS
    None = None
    Empty = Empty
    Unnamed = Unnamed
    TargetDelay = 2
    Window = 2
    Bounty = 2
    GasCosts = {1}
    SGX = TRUE
    Subverts = TRUE
    WritesFail = FALSE
    Impatient = FALSE
    CrashPoints = {}
    MaxRuns = 1
    MaxSetup = 3
    Slack = 3
    MaxReorgs = 1
    ReorgDepth = 2
SPECIFICATION Spec
INVARIANT SignedBlockIsVerified
CHECK_DEADLOCK FALSE
