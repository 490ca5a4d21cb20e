SPECIFICATION Spec
CONSTANTS
    Blocks <- MCBlocks
    Reorgable <- Forks
    Type <- MCType
    NoTx = NoTx
    Sizes = {1, 2, 3, 16, 17, 18, 128, 129, 130, 146}
INVARIANTS VerifiedIsInBlock OwnProofsVerify
CHECK_DEADLOCK FALSE
