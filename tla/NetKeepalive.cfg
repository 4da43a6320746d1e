CONSTANTS
    ERETRY = ERETRY
    EOTHERDISCONNECT = EOTHERDISCONNECT
    FD = FD
    Lens <- MCLens
    MaxBytes = 2
    SndBuf = 1
    IdleSecs <- MCOverflowIdleSecs

SPECIFICATION Spec

INVARIANT KeepaliveAsRequested
