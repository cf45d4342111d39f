\* One --addpeer peer, two outbound connections, and one RPC command or inbound
\* connection.
SPECIFICATION Spec
CONSTANTS
    x = x  y = y
    Addr = {x, y}
    NoAddr = NoAddr
    NoReq = NoReq
    NoConn = NoConn
    AddPeers <- MCAddPeers
    Nodes <- MCNodes
    TargetOutbound = 2
    MaxPeers = 2
    MaxReqs = 3
    MaxConns = 2
    MaxEvents = 1
INVARIANTS PermanentKept EndsReportedOnce SlotsKept GroupCounts
CHECK_DEADLOCK FALSE
