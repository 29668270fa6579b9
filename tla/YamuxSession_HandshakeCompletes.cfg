\* Both peers follow the code; no frame is injected.
CONSTANTS
    c = c
    s = s
    Peers <- MCPeers
    Server <- MCServer
    Backlog = 2
    MaxId = 4
    MaxForged = 0
    MaxNet = 2
    MaxCalls = 4
SPECIFICATION Spec
CONSTRAINT NetBound
INVARIANT HandshakeCompletes
CHECK_DEADLOCK FALSE
