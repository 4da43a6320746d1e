---------------------------- MODULE MC_NetAddress ----------------------------
EXTENDS NetAddress, TLC

CONSTANTS b1, b2, b3

\* Three heap blocks: enough for a literal and a resolved record to be live
\* together while a freed block is reused.
MCBlocks == {b1, b2, b3}

\* Two ports, neither of which reads the same with its bytes swapped
\* (80 is 20480 in the other order, 9009 is 12579).
MCPorts == {80, 9009}

\* Blocks are interchangeable.
MCSymmetry == Permutations(MCBlocks)
=============================================================================
