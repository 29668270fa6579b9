\* A peer with two addresses, joined at most twice, with an identify handler.
CONSTANTS
    NAddrs = 2
    MaxJoins = 2
    MaxConns = 3
    HasIdentify = TRUE
SPECIFICATION Spec
INVARIANT OneSessionPerPeer
\* the caller stops after a join succeeds or after MaxJoins joins
CHECK_DEADLOCK FALSE
