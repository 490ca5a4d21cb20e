CONSTANTS
    None = None
    Empty = Empty
    Unnamed = Unnamed
    TargetDelay = 5
    Window = 2
    Bounty = 2
    GasCosts = {1, 3}
    SGX = TRUE
    Subverts = TRUE
    WritesFail = TRUE
    Impatient = TRUE
    CrashPoints = {"submit_enclave", "approve_enclave", "collect_bounty"}
    MaxRuns = 1
    MaxSetup = 4
    Slack = 4
    MaxReorgs = 0
    ReorgDepth = 1
SPECIFICATION FairSpec
INVARIANTS
    BountyImpliesEvidence
    DoneMeansPaid
    EvidenceBundleExecutable
PROPERTIES
    RunEnds
    ImplementsSting
CHECK_DEADLOCK FALSE
