\* The neighbour links of the slot page, slot 0 included.
CONSTANTS
    b0 = b0  b1 = b1  b2 = b2  b2o = b2o
    UnknownRoot = UnknownRoot  NoBlock = NoBlock  EmptyRoot = EmptyRoot
    BlockRoots <- MCBlockRoots
    Canonical <- MCCanonical
    BlockSlot <- MCBlockSlot
    SlotLimit = 4
    SlotModulus = 8
SPECIFICATION Spec
INVARIANT NeighboursAdjacent
\* A request ends with its page rendered.
CHECK_DEADLOCK FALSE
