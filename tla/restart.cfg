\* A crash or a stop and a restart, with database or assertion errors at any
\* two steps.
SPECIFICATION FairSpec
CONSTANTS
    g = g  a = a  b = b  c = c  d = d  e = e
    Block = {g, a, b, c, d}
    Genesis = g
    Parents <- MergeParents
    NoBlock = NoBlock
    MaxOrphans = 2
    CompleteOrder = TRUE
    MaxRestarts = 1
    MaxFaults = 2
INVARIANTS
    PublishedStateAgrees ConnectedBlocksValid Recoverable DiskDescribesView
    WriteAhead
PROPERTIES
    ImplementsLedger CallReturns ConnectedForever
