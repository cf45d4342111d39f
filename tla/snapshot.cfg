CONSTANTS
    b1 = b1
    b2 = b2
    x = x
    Block = {b1, b2}
    MetaValue = {x}
    None = None
    maxBlockFileSize = 1
    MaxFile = 3
    MaxBlocks = 2
    MaxTx = 3
    MaxFaults = 1
    MaxCrashes = 1
SPECIFICATION Spec
INVARIANT SnapshotIsAPoint
