CONSTANTS
    ERETRY = ERETRY
    EOTHERDISCONNECT = EOTHERDISCONNECT
    FD = FD
    Lens <- MCLens
    MaxBytes = 2
    SndBuf = 1
    IdleSecs <- MCIdleSecs

SPECIFICATION Spec

INVARIANT DisconnectMeansPeerClosed
