SPECIFICATION FairSpec
CONSTANTS
    None = None
    a1 = a1
    a2 = a2
    k1 = k1
    sting = sting
    other = other
    u1 = u1
    Adder = {a1, a2}
    Call = {k1}
    Batches <- MixedBatches
    Number = {1, 2}
    Time = {1, 4}
    SubvAddress = sting
    Key = {u1}
    Fetcher = TRUE
    WritesFail = TRUE
    ChanCap = 1
    MaxVersion = 2
    MaxEntries = 3
INVARIANTS TypeOK PoolExact LeakedBeforeOffered CancellableCurrent
PROPERTIES
    CallsResolve
    FetchersEnd
CHECK_DEADLOCK FALSE
