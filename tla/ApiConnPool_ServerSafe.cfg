\* A failed pthread_create or malloc lets the accept loop run past conns[];
\* api_stop with a free entry, or cancelling a thread on its quit path,
\* crashes the process or leaves conns_lock held.
CONSTANTS
    MaxConns = 2
    MaxAccepts = 3
    MaxFailures = 1
    Stop = TRUE
SPECIFICATION Spec
INVARIANT ServerSafe
\* the server stops: after api_stop, a crash, or once every client is served
CHECK_DEADLOCK FALSE
