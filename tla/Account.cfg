SPECIFICATION Spec
CONSTANTS
    q = 43
    order = 31
    G <- MCG
    H <- MCH
    Radix = 8
    Width = 2
    Raised = Raised
    None = None
    Hmac <- MCHmac
    Body <- MCBody
    ChainIds = {0, 1, 5}
    Keccak <- MCKeccak
    Entropy = {0, 1, 12, 30, 31, 40}
    Nonces = {0, 1, 4, 15, 16, 27, 30, 31, 33, 64}
    MaxAccounts = 2
INVARIANTS RecoversSigner ChosenNonceUsed
