CONSTANTS
    e1 = e1
    e2 = e2
    Idents <- MCIdents
    IdentKey <- MCIdentKey
    Timeouts <- MCTimeouts
    NEvents = 1
    Cores = 2
    MaxInterrupts = 1
    Slack = 1

SPECIFICATION Spec

INVARIANT TypeOK
INVARIANT NoLostEvents
PROPERTY KeventRefinement
PROPERTY CallReturns
INVARIANT LayoutAgrees
