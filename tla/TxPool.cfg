\* Replacement, gaps, limits, local and private transactions, resets to other branches.
SPECIFICATION Spec
CONSTANTS
    a = a
    b = b
    Envs <- AllEnvs
INVARIANTS
    LookupExact
    PendingExecutable
    PrivateUntilOvertaken
PROPERTIES
    FutureKeepsPending
    RunsRestoreLimits
    LocalsNotDropped
CHECK_DEADLOCK FALSE
