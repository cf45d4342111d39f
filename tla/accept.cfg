\* No restarts and no database errors: what acceptance itself guarantees.
SPECIFICATION FairSpec
CONSTANTS
    g = g  a = a  b = b  c = c  d = d  e = e
    Block = {g, a, b, c, d, e}
    Genesis = g
    Parents <- DiamondParents
    NoBlock = NoBlock
    MaxOrphans = 2
    CompleteOrder = FALSE
    MaxRestarts = 0
    MaxFaults = 0
INVARIANTS
    TypeOK NoConnectableOrphan OrphansAreUnknown GraphIsView OrphanBound
PROPERTIES
    ValidBlockConnects
