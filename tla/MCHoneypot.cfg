SPECIFICATION Spec
CONSTANTS
    admin = admin
    informant = informant
    e1 = e1
    e2 = e2
    Empty = Empty
    Unnamed = Unnamed
    Address <- MCAddress
    Enclave <- MCEnclave
    Admin = admin
    Bounty = 2
    Window = 2
    SGX = TRUE
    MaxHead = 4
    MaxSigned = 2
INVARIANTS
    TypeOK
    BountyPaidOnce
    ApprovedIsReviewed
    ClaimIsAttested
PROPERTY ApprovalFinal
