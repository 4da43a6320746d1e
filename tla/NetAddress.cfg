SPECIFICATION Spec
CONSTANTS
    b1 = b1
    b2 = b2
    b3 = b3
    Blocks <- MCBlocks
    Ports <- MCPorts
    SpecCaller = FALSE
SYMMETRY MCSymmetry
INVARIANT TypeOK
INVARIANT NoUndefinedBehaviour
INVARIANT CallerOwnsHeap
INVARIANT PortAsRequested
