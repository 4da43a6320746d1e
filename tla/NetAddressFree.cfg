SPECIFICATION Spec
CONSTANTS
    b1 = b1
    b2 = b2
    b3 = b3
    Blocks <- MCBlocks
    Ports <- MCPorts
    SpecCaller = TRUE
SYMMETRY MCSymmetry
INVARIANT NoUndefinedBehaviour
