\* A rejected block, a clean restart, and a valid block after it.
SPECIFICATION Spec
CONSTANTS
    g = g  a = a  b = b  c = c  d = d  e = e
    Block = {g, a, b, c, d}
    Genesis = g
    Parents <- ForkParents
    NoBlock = NoBlock
    MaxOrphans = 2
    CompleteOrder = TRUE
    MaxRestarts = 1
    MaxFaults = 0
PROPERTY
    ValidBlockConnects
