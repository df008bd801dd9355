\* Every request class against the slot page instance: checks the page
\* shows the requested block and reports missed slots correctly.
CONSTANTS
    b0 = b0  b1 = b1  b2 = b2  b2o = b2o
    UnknownRoot = UnknownRoot  NoBlock = NoBlock  EmptyRoot = EmptyRoot
    BlockRoots <- MCBlockRoots
    Canonical <- MCCanonical
    BlockSlot <- MCBlockSlot
    SlotLimit = 4
    SlotModulus = 8
SPECIFICATION Spec
INVARIANT SlotPageTypeOK PageShowsRequestedBlock
PROPERTY ImplementsSlotQuery
\* A request ends with its page rendered.
CHECK_DEADLOCK FALSE
