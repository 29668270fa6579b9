----------------------------- MODULE ChunkedBody -----------------------------
(***************************************************************************)
(* read_chunked (src/libipfs/core/api.c): an HTTP API connection thread   *)
(* reading a request body sent with Transfer-Encoding: chunked.  The      *)
(* bytes of the body that came with the headers are copied into the      *)
(* stack buffer buf; each loop iteration parses a chunk-size line with    *)
(* find_chunk (strtol on buf), copies the chunk's bytes into the request, *)
(* memmoves the rest of buf to its start, waits up to 5 seconds in select *)
(* and reads more bytes after the ones kept.                              *)
(*                                                                         *)
(* Bytes are modelled one by one, because the properties are about the    *)
(* parsing.  buf is the whole array, not only its first buf_size bytes:   *)
(* find_chunk and the CRLF test read past buf_size, and what they find     *)
(* there is what earlier iterations left.                                  *)
(***************************************************************************)
EXTENDS Naturals, Integers, Sequences, SequencesExt

CONSTANTS
    Cap,         \* MAX_READ, the size of buf
    Bodies,      \* the chunk lists a client may send, each a sequence of payloads
    SlowClient,  \* whether the client may pause longer than the 5 s select
    HalfClose,   \* whether the client may shut down its side after the body
    Resets       \* whether the connection may be reset (read returns -1)

CR == "CR"
LF == "LF"
NUL == "NUL"      \* a byte that is neither a hex digit nor white space
HexVal == [d \in {"0", "1", "2", "a"} |-> CASE d = "0" -> 0 [] d = "1" -> 1
                                             [] d = "2" -> 2 [] d = "a" -> 10]
Hex(n) == CHOOSE d \in DOMAIN HexVal : HexVal[d] = n
White == {CR, LF}

\* the chunked encoding of a list of payloads, with the last-chunk line
Encode(chunks) ==
    FlattenSeq([i \in 1 .. Len(chunks) |-> <<Hex(Len(chunks[i])), CR, LF>> \o chunks[i] \o <<CR, LF>>])
        \o <<"0", CR, LF, CR, LF>>

ASSUME \A b \in Bodies : \A i \in 1 .. Len(b) : Len(b[i]) \in 1 .. 2

VARIABLES
    sent,      \* the chunk list the client sends
    unsent,    \* bytes the client has not written yet
    net,       \* bytes written by the client and not yet read
    eof,       \* the client has shut down its side
    rst,       \* the connection was reset
    buf,       \* buf[0 .. Cap-1]
    bsize,     \* buf_size (an Integer here: size_t wraps below 0)
    pos,       \* pos
    nsize,     \* nsize, the bytes of the current chunk not yet copied
    body,      \* req->buf + req->body: the body bytes copied so far
    pc,        \* "find" (top of the while), "copy" (CPCHUNK), "done"
    ret        \* read_chunked returns 1 ("ok") or 0 ("fail"), or the process crashes

vars == <<sent, unsent, net, eof, rst, buf, bsize, pos, nsize, body, pc, ret>>

At(b, i) == IF i < Cap THEN b[i] ELSE NUL

\* strtol(buf, &p, 16): skip white space, then the longest run of hex
\* digits; with no digit, p is buf itself and the value 0
RECURSIVE HexRun(_, _, _)
HexRun(b, i, acc) ==
    IF At(b, i) \in DOMAIN HexVal THEN HexRun(b, i + 1, 16 * acc + HexVal[At(b, i)])
    ELSE [val |-> acc, end |-> i]
RECURSIVE SkipWhite(_, _)
SkipWhite(b, i) == IF At(b, i) \in White THEN SkipWhite(b, i + 1) ELSE i
Strtol(b) ==
    LET r == HexRun(b, SkipWhite(b, 0), 0) IN
    IF r.end = SkipWhite(b, 0) THEN [val |-> 0, end |-> 0] ELSE r

\* find_chunk: the size line must end in CRLF right after the digits
FindChunk(b) ==
    LET r == Strtol(b) IN
    [ok |-> r.end <= 10 /\ At(b, r.end) = CR /\ At(b, r.end + 1) = LF,
     size |-> r.val, pos |-> r.end + 2]

Return(v) == pc' = "done" /\ ret' = v

-----------------------------------------------------------------------------
(* The client                                                              *)

\* a write of the next bytes of the body; TCP may split them anywhere
Send ==
    /\ unsent # <<>>
    /\ \E n \in 1 .. Len(unsent) :
         /\ net' = net \o SubSeq(unsent, 1, n)
         /\ unsent' = SubSeq(unsent, n + 1, Len(unsent))
    /\ UNCHANGED <<sent, eof, rst, buf, bsize, pos, nsize, body, pc, ret>>

\* shutdown(SHUT_WR) once the whole body is written
Close ==
    /\ HalfClose /\ unsent = <<>> /\ ~eof
    /\ eof' = TRUE
    /\ UNCHANGED <<sent, unsent, net, rst, buf, bsize, pos, nsize, body, pc, ret>>

\* the peer resets the connection
Reset ==
    /\ Resets /\ ~rst
    /\ rst' = TRUE
    /\ UNCHANGED <<sent, unsent, net, eof, buf, bsize, pos, nsize, body, pc, ret>>

-----------------------------------------------------------------------------
(* read_chunked                                                            *)

\* while (buf_size): find_chunk, the zero chunk, realloc of req->buf
Find ==
    /\ pc = "find"
    /\ LET c == FindChunk(buf) IN
       IF bsize = 0 THEN Return("ok") /\ UNCHANGED <<pos, nsize>>
       ELSE IF ~c.ok THEN Return("fail") /\ UNCHANGED <<pos, nsize>>
       ELSE IF c.size = 0 THEN Return("ok") /\ UNCHANGED <<pos, nsize>>
       ELSE \/ /\ pos' = c.pos /\ nsize' = c.size
               /\ pc' = "copy" /\ UNCHANGED ret
            \/ Return("fail") /\ UNCHANGED <<pos, nsize>>    \* realloc fails
    /\ UNCHANGED <<sent, unsent, net, eof, rst, buf, bsize, body>>

\* select gives up after 5 s with nothing to read: at any time for a
\* client that may pause, otherwise only once the body is all written
TimeoutOk == SlowClient \/ unsent = <<>>

\* the end of an iteration of CPCHUNK: goto CPCHUNK while the chunk has
\* bytes left, else memcmp(buf, "\r\n", 2) and back to the while test
Continue(b, s, n) ==
    /\ buf' = b /\ bsize' = s /\ nsize' = n /\ pos' = 0
    /\ IF n > 0 THEN pc' = "copy" /\ UNCHANGED ret
       ELSE IF b[0] = CR /\ b[1] = LF THEN pc' = "find" /\ UNCHANGED ret
       ELSE Return("fail")

\* CPCHUNK: copy what buf holds of the chunk, memmove the rest to the
\* start of buf, then select and read after the bytes kept.  The refill
\* from already never runs: already_size is below MAX_READ, so it was all
\* copied.  With pos past buf_size, buf_size - pos wraps and the memmove
\* runs off the stack.
CpChunk ==
    /\ pc = "copy"
    /\ IF pos > bsize
       THEN Return("crash") /\ UNCHANGED <<net, buf, bsize, pos, nsize, body>>
       ELSE
       LET r == Min({nsize, bsize - pos})
           left == bsize - pos - r
           moved == IF left > 0
                    THEN [i \in 0 .. Cap - 1 |-> IF i < left THEN buf[pos + r + i] ELSE buf[i]]
                    ELSE buf
           n1 == nsize - r
           room == Cap - left
       IN
       /\ body' = body \o [i \in 1 .. r |-> buf[pos + i - 1]]
       /\ \/ /\ rst
             /\ Continue(moved, left - 1, n1)      \* read returns -1 into a size_t
             /\ UNCHANGED net
          \/ /\ ~rst /\ (net # <<>> \/ eof)
             /\ \E k \in IF room = 0 \/ net = <<>> THEN {0}
                         ELSE 1 .. Min({room, Len(net)}) :
                  /\ net' = SubSeq(net, k + 1, Len(net))
                  /\ IF k = 0
                     THEN /\ Return(IF n1 = 0 THEN "ok" ELSE "fail")
                          /\ buf' = moved /\ bsize' = left /\ nsize' = n1 /\ pos' = 0
                     ELSE Continue([i \in 0 .. Cap - 1 |->
                                      IF left <= i /\ i < left + k THEN net[i - left + 1] ELSE moved[i]],
                                   left + k, n1)
          \/ /\ ~rst /\ net = <<>> /\ ~eof /\ TimeoutOk
             /\ Continue(moved, left, n1)
             /\ UNCHANGED net
    /\ UNCHANGED <<sent, unsent, eof, rst>>

-----------------------------------------------------------------------------

\* the body bytes that arrived in api_connection_thread's one read of
\* MAX_READ bytes, after the headers: fewer than MAX_READ, so all of them
\* are copied into buf; the bytes of buf after them are whatever the stack
\* held (NUL here)
Init ==
    /\ sent \in Bodies
    /\ \E k \in 0 .. Cap - 1 :
         LET w == Encode(sent) IN
         /\ k <= Len(w)
         /\ buf = [i \in 0 .. Cap - 1 |-> IF i < k THEN w[i + 1] ELSE NUL]
         /\ bsize = k
         /\ unsent = SubSeq(w, k + 1, Len(w))
    /\ net = <<>> /\ eof = FALSE /\ rst = FALSE
    /\ pos = 0 /\ nsize = 0 /\ body = <<>>
    /\ pc = "find" /\ ret = "none"

Next == Send \/ Close \/ Reset \/ Find \/ CpChunk

Spec == Init /\ [][Next]_vars

-----------------------------------------------------------------------------
(* Properties                                                              *)

Bytes == DOMAIN HexVal \cup {CR, LF, NUL, "y"}

TypeOK ==
    /\ buf \in [0 .. Cap - 1 -> Bytes]
    /\ pc \in {"find", "copy", "done"}
    /\ ret \in {"none", "ok", "fail", "crash"}

====
