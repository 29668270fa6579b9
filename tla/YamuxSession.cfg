\* Both peers follow the code and a hostile remote may inject one frame.
CONSTANTS
    c = c
    s = s
    Peers <- MCPeers
    Server <- MCServer
    Backlog = 2
    MaxId = 4
    MaxForged = 1
    MaxNet = 2
    MaxCalls = 4
SPECIFICATION Spec
CONSTRAINT NetBound
INVARIANTS
    TypeOK
    LiveIdsUnique
    SynParity
\* a session that is closed with nothing in flight and no id left stops
CHECK_DEADLOCK FALSE
