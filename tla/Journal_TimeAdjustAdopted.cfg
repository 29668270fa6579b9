\* Both nodes replicate to each other with skewed clocks; a record may
\* start with timestamp 0.
CONSTANTS
    a = a
    b = b
    h1 = h1
    h2 = h2
    Nodes <- MCNodes
    Hashes <- MCHashes
    HashOrder <- MCHashOrder
    Skew <- MCSkew
    Tolerance = 1
    LastN = 1
    MaxTime = 2
    InitTimes = {0, 1, 2}
SPECIFICATION Spec
INVARIANT TimeAdjustAdopted
\* a node stops once its process has aborted
CHECK_DEADLOCK FALSE
