\* Two peers at different heights, late answers, hung and lost peers.
SPECIFICATION FairSpec
CONSTANTS
    b0 = b0  b1 = b1  b2 = b2  b3 = b3  p1 = p1  p2 = p2
    Peer = {p1, p2}
    Block = {b1, b2, b3}
    Genesis = b0
    parents <- MCParents
    height <- MCHeight
    Recent = {b1, b2, b3}
    Owned <- MCOwned
    Growth <- MCGrowth
    MaxBlocksPerMsg = 2
    MaxRequested = 3
    RequestLife = 1
    StallTicks = 2
    NoPeer = NoPeer
    NoBlock = NoBlock
    MaxConnects = 2
    MaxEvents = 2
INVARIANTS TypeOK RequestsBacked NeededAnswerAccepted
PROPERTIES SyncLeftCaughtUp SyncMovesOn
