\* A chunked one-chunk body and three multipart bodies, from a client that
\* writes promptly, never half-closes, and whose connection may be reset.
CONSTANTS
    Cap = 8
    Bodies <- MCBodies
    Raws <- MCRaws
    SlowClient = FALSE
    HalfClose = FALSE
    Resets = TRUE
    RespBodies <- MCRespBodies
    MaxChunk = 2
SPECIFICATION Spec
PROPERTY RequestAnswered
\* the thread stops at quit, or after a crash
CHECK_DEADLOCK FALSE
