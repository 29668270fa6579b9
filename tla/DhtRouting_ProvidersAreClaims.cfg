\* One Client, a prompt responder r1 and a slow responder r2 that has heard
\* only of the Client.
CONSTANTS
    c = c
    r1 = r1
    r2 = r2
    far = far
    k1 = k1
    k2 = k2
    k3 = k3
    Client <- c
    Responders <- MCResponders
    Far <- far
    Keys <- MCKeys
    Holds <- MCHolds
    LocalProv <- MCLocalProv
    Known <- MCKnown
    Slow <- MCSlow
    MaxOps = 3
SPECIFICATION Spec
INVARIANT ProvidersAreClaims
\* the Client stops after MaxOps routing calls
CHECK_DEADLOCK FALSE
