CONSTANTS
    c1 = c1
    c2 = c2
    Callers <- MCCallers
    Blocks <- MCBlocks
    SlotsPerEpoch = 2
    MaxEpoch = 2
    StartEpochs = {1, 2}
    MaxStarts = 1
    MaxPanics = 0
    Worker = Worker
    NoOwner = NoOwner
    NoRoot = NoRoot
    NoData = NoData

SPECIFICATION Spec
INVARIANT IsEpochAheadAsSpecified
