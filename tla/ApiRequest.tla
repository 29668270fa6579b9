------------------------------ MODULE ApiRequest ------------------------------
(***************************************************************************)
(* api_connection_thread (src/libipfs/core/api.c) from the moment it has  *)
(* found the end of the headers until it reaches quit: it reads the body  *)
(* with read_all, or with read_chunked when the request says              *)
(* Transfer-Encoding: chunked, and for a multipart/form-data POST it then *)
(* looks for the boundary with boundary_find and boundary_size.  The      *)
(* chunked reader is the ChunkedBody module, sharing its variables.       *)
(*                                                                         *)
(* The headers are abstracted to two flags (chunked, multipart); the      *)
(* boundary string is the single byte "q".  The request is one for the    *)
(* API (its path starts /api/v0/), so the thread then builds an           *)
(* HttpRequest and writes the response.  What follows a body that was     *)
(* read in full is whatever the heap holds after req.buf, which is not    *)
(* NUL-terminated: it is taken as NUL, one of the outcomes.               *)
(***************************************************************************)
EXTENDS Naturals, Integers, Sequences, SequencesExt

CONSTANTS
    Cap,         \* MAX_READ
    Bodies,      \* chunk lists a chunked client may send
    Raws,        \* bodies a client may send without chunked encoding
    SlowClient,  \* whether the client may pause longer than the 5 s select
    HalfClose,   \* whether the client may shut down its side after the body
    Resets,      \* whether the connection may be reset (read returns -1)
    RespBodies,  \* the bytes ipfs_core_http_request_process may answer with
    MaxChunk     \* MAX_CHUNK

ASSUME MaxChunk \in 1 .. 2

VARIABLES
    sent, unsent, net, eof, rst, buf, bsize, pos, nsize, body, pc, ret,
    chunked,     \* read_func is read_chunked
    multipart,   \* a POST whose Content-Type is multipart/form-data; boundary=q
    phase,       \* "read", "bfind", "bsize", "respond", "quit", or "crashed"
    bp,          \* boundary_find's p, an index into the body; -1 is NULL
    out,         \* what the thread wrote back: a status, then the chunked bytes
    resp         \* http_response->bytes, once the request was processed

vars == <<sent, unsent, net, eof, rst, buf, bsize, pos, nsize, body, pc, ret,
          chunked, multipart, phase, bp, out, resp>>

CB == INSTANCE ChunkedBody

NUL == CB!NUL
CR == CB!CR
LF == CB!LF
Boundary == "q"

NULL == -1

\* strstr(s + from, pat) or memmem over what follows: the 0-based index of
\* the first occurrence at or after from, or NULL
Search(s, from, pat) ==
    LET t == SubSeq(s, from + 1, Len(s)) IN
    IF pat \in SubSeqs(t) THEN from + IndexFirstSubSeq(pat, t) - 1 ELSE NULL

\* the byte at index i of the body, and NUL after its end
BodyAt(i) == IF i < Len(body) THEN body[i + 1] ELSE NUL

\* str_tok(str, "--"): the index just after the first "--"; no space follows
StrTok(s) ==
    LET i == Search(s, 0, <<"-", "-">>) IN IF i = NULL THEN NULL ELSE i + 2

Goto(ph) == phase' = ph

Extra == <<chunked, multipart, phase, bp, out, resp>>

\* api_send_resp_chunks: chunks of at most MAX_CHUNK bytes, each with its
\* "%x\r\n" size line and a CRLF; the last chunk's CRLF is followed by the
\* zero-size line.  An empty response gives no chunk at all.
RECURSIVE SendRespChunks(_)
SendRespChunks(b) ==
    IF b = <<>> THEN <<>>
    ELSE LET s == IF Len(b) > MaxChunk THEN MaxChunk ELSE Len(b)
             rest == SubSeq(b, s + 1, Len(b))
             tail == IF rest = <<>> THEN <<CR, LF, "0", CR, LF, CR, LF>> ELSE <<CR, LF>>
         IN <<CB!Hex(s), CR, LF>> \o SubSeq(b, 1, s) \o tail \o SendRespChunks(rest)

-----------------------------------------------------------------------------
(* The client                                                              *)

Client == (CB!Send \/ CB!Close \/ CB!Reset) /\ UNCHANGED Extra

-----------------------------------------------------------------------------
(* The connection thread                                                   *)

\* read_chunked, one iteration at a time
ReadChunked ==
    /\ phase = "read" /\ chunked
    /\ CB!Find \/ CB!CpChunk
    /\ UNCHANGED Extra

\* read_all: read until select times out or read returns 0, appending each
\* read to the body.  read's -1 on a reset connection goes into the size_t
\* size, so size <= 0 is false, realloc(req->size + size) shrinks req->buf
\* and memcpy copies SIZE_MAX bytes.
ReadAll ==
    /\ phase = "read" /\ ~chunked /\ pc # "done"
    /\ LET ready == net # <<>> \/ eof \/ rst IN
       \/ /\ ~ready /\ CB!TimeoutOk
          /\ CB!Return("ok") /\ UNCHANGED <<net, body>>
       \/ /\ ready /\ rst
          /\ CB!Return("crash") /\ UNCHANGED <<net, body>>
       \/ /\ ready /\ ~rst /\ net = <<>>
          /\ CB!Return("ok") /\ UNCHANGED <<net, body>>
       \/ /\ ready /\ ~rst /\ net # <<>>
          /\ \E k \in 1 .. Min({Cap, Len(net)}) :
               /\ net' = SubSeq(net, k + 1, Len(net))
               /\ \/ body' = body \o SubSeq(net, 1, k) /\ UNCHANGED <<pc, ret>>
                  \/ CB!Return("fail") /\ UNCHANGED body      \* realloc fails
    /\ UNCHANGED <<sent, unsent, eof, rst, buf, bsize, pos, nsize, chunked, multipart, phase, bp, out, resp>>

\* after read_func: HTTP 500 when it failed, the multipart boundary search
\* for a multipart POST, and otherwise the request is processed
ReadDone ==
    /\ phase = "read" /\ pc = "done"
    /\ CASE ret = "crash" -> Goto("crashed") /\ UNCHANGED <<bp, out>>
         [] ret = "ok" /\ multipart -> Goto("bfind") /\ bp' = StrTok(body) /\ UNCHANGED out
         [] ret = "ok" -> Goto("respond") /\ UNCHANGED <<bp, out>>
         [] OTHER -> Goto("quit") /\ out' = <<"500">> /\ UNCHANGED bp
    /\ UNCHANGED <<sent, unsent, net, eof, rst, buf, bsize, pos, nsize, body, pc, ret, chunked, multipart, resp>>

\* one iteration of boundary_find's while (p): when p is not followed by the
\* boundary, p = str_tok(str, "--") searches again from str and finds the
\* same "--"
BoundaryFind ==
    /\ phase = "bfind"
    /\ IF bp = NULL THEN Goto("respond") /\ UNCHANGED bp
       ELSE IF BodyAt(bp) = Boundary
            THEN LET q == Search(body, bp, <<CR, LF, CR, LF>>) IN
                 IF q = NULL THEN Goto("respond") /\ UNCHANGED bp
                 ELSE Goto("bsize") /\ bp' = q + 4
            ELSE bp' = StrTok(body) /\ UNCHANGED phase
    /\ UNCHANGED <<sent, unsent, net, eof, rst, buf, bsize, pos, nsize, body, pc, ret, chunked, multipart, out, resp>>

\* boundary_size(p, boundary, req.size - (p - buf)): buf is the thread's
\* stack array, not req.buf, so the limit is the distance between heap and
\* stack, far past the body.  memmem finds the closing "\r\n--q--\r\n" in the
\* body, or runs on past its end into whatever follows, up to an unmapped
\* page.
BoundarySize ==
    /\ phase = "bsize"
    /\ IF Search(body, bp, <<CR, LF, "-", "-", Boundary, "-", "-", CR, LF>>) # NULL
       THEN Goto("respond")
       ELSE Goto("respond") \/ Goto("crashed")
    /\ UNCHANGED <<sent, unsent, net, eof, rst, buf, bsize, pos, nsize, body, pc, ret, chunked, multipart, bp, out, resp>>

\* the request is for the API: api_build_http_request gives NULL only when
\* ipfs_core_http_request_new fails, and then nothing is written;
\* ipfs_core_http_request_process failing gives HTTP 404; otherwise the
\* 200 header is written and the response through api_send_resp_chunks
Respond ==
    /\ phase = "respond"
    /\ Goto("quit")
    /\ \/ UNCHANGED <<out, resp>>
       \/ out' = <<"404">> /\ UNCHANGED resp
       \/ \E rb \in RespBodies : resp' = rb /\ out' = <<"200">> \o SendRespChunks(rb)
    /\ UNCHANGED <<sent, unsent, net, eof, rst, buf, bsize, pos, nsize, body, pc, ret, chunked, multipart, bp>>

-----------------------------------------------------------------------------

\* the headers were found in the first read; the body bytes that came with
\* them (fewer than MAX_READ) are the already of read_func
Init ==
    /\ \/ chunked = TRUE /\ CB!Init
       \/ /\ chunked = FALSE
          /\ \E r \in Raws, k \in 0 .. Cap - 1 :
               /\ k <= Len(r)
               /\ sent = <<r>>
               /\ body = SubSeq(r, 1, k)
               /\ unsent = SubSeq(r, k + 1, Len(r))
          /\ buf = [i \in 0 .. Cap - 1 |-> NUL] /\ bsize = 0 /\ pos = 0 /\ nsize = 0
          /\ net = <<>> /\ eof = FALSE /\ rst = FALSE
          /\ pc = "find" /\ ret = "none"
    /\ multipart \in BOOLEAN
    /\ phase = "read"
    /\ bp = NULL
    /\ out = <<>>
    /\ resp = <<>>

Thread == ReadChunked \/ ReadAll \/ ReadDone \/ BoundaryFind \/ BoundarySize \/ Respond

Next == Client \/ Thread

\* The thread runs whenever it can, and select never blocks more than 5 s;
\* the client writes its whole request, then waits for the answer.
Spec == Init /\ [][Next]_vars /\ WF_vars(Thread) /\ WF_vars(CB!Send /\ UNCHANGED Extra)

-----------------------------------------------------------------------------
(* Properties                                                              *)

\* RFC 7230's chunked-body, the reference a client decodes with: chunks
\* of a hex size line, that many bytes and CRLF, then the zero-size line
\* and an empty trailer.  [ok, body] where body is what the chunks carry.
RECURSIVE Dechunk(_)
Dechunk(s) ==
    LET Digits == DOMAIN CB!HexVal
        k == CHOOSE j \in 0 .. Len(s) :
                /\ \A i \in 1 .. j : s[i] \in Digits
                /\ j < Len(s) => s[j + 1] \notin Digits
        n == FoldLeft(LAMBDA acc, d : 16 * acc + CB!HexVal[d], 0, SubSeq(s, 1, k))
        r == SubSeq(s, k + 1, Len(s))
        bad == [ok |-> FALSE, body |-> <<>>]
    IN  IF k = 0 \/ Len(r) < 2 \/ SubSeq(r, 1, 2) # <<CR, LF>> THEN bad
        ELSE IF n = 0 THEN IF SubSeq(r, 3, Len(r)) = <<CR, LF>> THEN [ok |-> TRUE, body |-> <<>>] ELSE bad
        ELSE IF Len(r) < n + 4 \/ SubSeq(r, n + 3, n + 4) # <<CR, LF>> THEN bad
        ELSE LET rest == Dechunk(SubSeq(r, n + 5, Len(r))) IN
             IF rest.ok THEN [ok |-> TRUE, body |-> SubSeq(r, 3, n + 2) \o rest.body] ELSE bad

\* the client got a complete HTTP answer: an error status, or the 200
\* header and a chunked body that decodes to the response
Answered ==
    \/ out \in {<<"500">>, <<"404">>}
    \/ out # <<>> /\ Head(out) = "200" /\ Dechunk(Tail(out)) = [ok |-> TRUE, body |-> resp]

\* Every request whose headers the connection thread has read is answered:
\* the thread reaches quit, where it closes the connection, rather than
\* crashing or spinning, having written a complete response; and when
\* read_func reported success, the body it handed on is the one the
\* client sent.
RequestAnswered ==
    <>(phase = "quit" /\ Answered /\ (ret = "ok" => body = FlattenSeq(sent)))

====
