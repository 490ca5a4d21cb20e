\* A private transaction that loses its nonce while its event is waiting.
SPECIFICATION Spec
CONSTANTS
    a = a
    b = b
    Envs <- PrivateEnvs
INVARIANT
    PrivateNotAnnounced
CHECK_DEADLOCK FALSE
