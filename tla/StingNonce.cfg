SPECIFICATION Spec
CONSTANTS
    q = 43
    order = 31
    G <- MCG
    H <- MCH
    Radix = 7
    Width = 2
    Raised = Raised
    None = None
    Hmac <- MCHmac
    Body <- MCBody
    ChainIds = {1}
    Keccak <- MCKeccak
    Keys = {5, 26}
    Nonces = {0, 1, 5, 30, 31, 49}
    ChainId = 1
    SigHash <- MCSigHash
INVARIANTS CurveConsistent HonestAccepted AcceptedIsCommitted
CHECK_DEADLOCK FALSE
