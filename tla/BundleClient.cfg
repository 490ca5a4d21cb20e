SPECIFICATION Spec
CONSTANTS
    a = a
    b = b
    c = c
    Accounts = {a, b, c}
    Senders <- MCSenders
    Num = 3
    Tails <- MCTails
    Ahead = 2
    MinBlock = 1
    MaxBlock = 6
INVARIANT ReceiptsMissingOnlyIf
PROPERTY BundleSettles
CHECK_DEADLOCK FALSE
