\* Clients come and go, allocations fail, and the API is stopped.
CONSTANTS
    MaxConns = 2
    MaxAccepts = 3
    MaxFailures = 1
    Stop = TRUE
SPECIFICATION Spec
INVARIANT
    CountNeverOver
\* the server stops: after api_stop, a crash, or once every client is served
CHECK_DEADLOCK FALSE
