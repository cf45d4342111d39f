CONSTANTS
    t1 = t1  t2 = t2  c1 = c1  c2 = c2  d = d
    x = x  y = y
    b1 = b1  b2 = b2  b3 = b3  b4 = b4
    Tx = {t1, t2, c1, c2, d}
    Coin = {x, y}
    Block = {b1, b2, b3, b4}
    inputs <- Inputs
    txns <- Txns
    Tag = {p1, p2}
    NoTx = NoTx
    NoTag = NoTag
    MaxOrphanTxs = 2
SPECIFICATION Spec
INVARIANTS PoolIndexed OrphansIndexed OrphansCompatible OrphanTxLimit ReplaySound RowsFollowOrder
