---------------------------- MODULE YamuxSession ----------------------------
(***************************************************************************)
(* The yamux multiplexer of libp2p (src/libp2p/yamux/session.c and        *)
(* stream.c), for two peers joined by one reliable, ordered byte stream   *)
(* (TCP under secio).  Each peer runs one yamux session:                  *)
(*                                                                         *)
(*  - the session's stream table (struct yamux_session: streams[],        *)
(*    cap_streams, nextid, closed), whose entries carry the table state    *)
(*    of struct yamux_stream;                                              *)
(*  - the channel context of every stream (struct YamuxChannelContext),    *)
(*    which carries a second, separate stream state;                       *)
(*  - the frames in flight towards each peer.                              *)
(*                                                                         *)
(* Local operations are the public calls of stream.c and session.c; the    *)
(* receive side is yamux_decode, one action per branch.  Optionally the   *)
(* remote may inject an arbitrary frame (a faulty or hostile peer).        *)
(***************************************************************************)
EXTENDS Integers, Sequences, FiniteSets, FiniteSetsExt

CONSTANTS
    Peers,      \* the two peers of the connection
    Server,     \* the peer whose session has type yamux_session_server
    Backlog,    \* config->accept_backlog: the size of streams[]
    MaxId,      \* largest stream id used in the model (bounds nextid)
    MaxForged,  \* how many arbitrary frames a hostile remote may inject
    MaxNet,     \* bound on frames in flight per direction (state constraint)
    MaxCalls    \* bound on the local API calls the two peers make in all

ASSUME Cardinality(Peers) = 2 /\ Server \in Peers
ASSUME Backlog \in Nat \ {0} /\ MaxId \in Nat /\ MaxForged \in Nat /\ MaxNet \in Nat
ASSUME MaxCalls \in Nat

VARIABLES
    slot,     \* slot[p][i]: streams[i] of p's session: alive, id, table state;
              \* `local' is a history field: opened by p itself
    cap,      \* cap[p]: session->cap_streams
    chan,     \* chan[p][i]: state of the channel context of streams[i]
    nextid,   \* nextid[p]: session->nextid
    closed,   \* closed[p]: session->closed
    net,      \* net[p]: frames on the wire towards p, in order
    up,       \* up[p]: p's process is alive (FALSE after a crash)
    err,      \* err[p]: history, the kinds of decode errors p has returned
    forged,   \* number of frames injected so far
    calls     \* number of local API calls made so far

vars == <<slot, cap, chan, nextid, closed, net, up, err, forged, calls>>

Slots == 0 .. Backlog - 1
Ids == 0 .. MaxId
States == {"inited", "syn_sent", "syn_recv", "est", "closing", "closed"}
FrameTypes == {"data", "wu", "ping", "goaway"}
Flags == {"none", "syn", "ack", "fin", "rst"}
Frame == [type : FrameTypes, flag : Flags, id : Ids, len : 0 .. 1]
ErrorKinds == {"pong", "session_type", "ack_unexpected", "flags",
               "bad_type", "no_stream", "backlog"}

Other(p) == CHOOSE q \in Peers : q # p
IsServer(p) == p = Server
Mk(t, fl, id, len) == [type |-> t, flag |-> fl, id |-> id, len |-> len]
GoAwayFrame(code) == Mk("goaway", "none", 0, code)
DeadSlot == [alive |-> FALSE, id |-> 0, st |-> "inited", local |-> FALSE]

-----------------------------------------------------------------------------
(* Stream table helpers                                                    *)

\* a session that gets its role backwards and starts every counter at 1
FirstIdSame(p) == 1

\* yamux_session_new: nextid = 1 + (type == yamux_session_server)
FirstId(p) == 1 + (IF IsServer(p) THEN 1 ELSE 0)

\* the dead slots below cap_streams that yamux_channel_new would reuse
DeadBelowCap(p) == {i \in 0 .. cap[p] - 1 : ~slot[p][i].alive}

\* a capacity test one entry late, so streams[accept_backlog] is taken
TableFullLate(p) == DeadBelowCap(p) = {} /\ cap[p] = Backlog + 1

\* yamux_channel_new returns NULL: no dead slot to reuse and the table full
TableFull(p) == DeadBelowCap(p) = {} /\ cap[p] = Backlog

\* the slot yamux_channel_new fills: the first dead one, else streams[cap]
AllocIdx(p) == IF DeadBelowCap(p) # {} THEN Min(DeadBelowCap(p)) ELSE cap[p]

\* yamux_channel_new(ctx, id, msg) when it succeeds: the table entry is
\* inited with the id; the channel context gets channel state cst
Alloc(p, id, local, cst) ==
    LET i == AllocIdx(p) IN
    /\ slot' = [slot EXCEPT ![p][i] = [alive |-> TRUE, id |-> id,
                                       st |-> "inited", local |-> local]]
    /\ chan' = [chan EXCEPT ![p][i] = cst]
    /\ cap' = [cap EXCEPT ![p] = IF DeadBelowCap(p) # {} THEN @ ELSE @ + 1]

\* the yamux_decode loop: the first alive, non-closed entry with this id
Lookup(p, id) == {i \in 0 .. cap[p] - 1 : /\ slot[p][i].alive
                                          /\ slot[p][i].st # "closed"
                                          /\ slot[p][i].id = id}

\* a decoder that accepts a SYN for any id, with no parity check
AcceptsRemoteIdAny(p, id) == TRUE

\* the parity rule for streams the remote opens (odd from client, even from
\* server)
AcceptsRemoteId(p, id) == \/ id % 2 = 0 /\ ~IsServer(p)
                          \/ id % 2 = 1 /\ IsServer(p)

\* get_flags on a channel context: the flag to send and the next state
FlagFor(cst) == CASE cst = "inited"   -> "syn"
                  [] cst = "syn_recv" -> "ack"
                  [] OTHER            -> "none"
AfterFlag(cst) == CASE cst = "inited"   -> "syn_sent"
                    [] cst = "syn_recv" -> "est"
                    [] OTHER            -> cst

\* yamux_stream_process returns -EPROTO for types other than data and
\* window update
ProcessFails(f) == f.type \notin {"data", "wu"}

-----------------------------------------------------------------------------
(* Delivering frames                                                       *)

\* p's inbox becomes inbox and frames `out' are appended towards the other
Emit(p, inbox, out) ==
    net' = [net EXCEPT ![p] = inbox, ![Other(p)] = @ \o out]

\* The end of a decode step: out is what the branch wrote; if it returned
\* an error of kind e (e = "" for none) the session is torn down with
\* GO-AWAY(protocol-error) as yamux_session_close does, once.
Finish(p, inbox, out, e, cl) ==
    LET fail == e # "" IN
    /\ Emit(p, inbox, out \o (IF fail /\ ~cl THEN <<GoAwayFrame(1)>> ELSE <<>>))
    /\ err' = [err EXCEPT ![p] = IF fail THEN @ \cup {e} ELSE @]
    /\ closed' = [closed EXCEPT ![p] = cl \/ fail]

-----------------------------------------------------------------------------
(* Local operations                                                        *)

\* every local call counts against the MaxCalls bound
Call == calls < MaxCalls /\ calls' = calls + 1

\* yamux_channel_new(ctx, 0, NULL): the next own id, then a table entry
ChannelNew(p) ==
    /\ up[p] /\ nextid[p] <= MaxId
    /\ nextid' = [nextid EXCEPT ![p] = @ + 2]
    /\ \/ /\ ~TableFull(p)
          /\ Alloc(p, nextid[p], TRUE, "inited")
       \/ /\ TableFull(p)
          /\ UNCHANGED <<slot, chan, cap>>
    /\ UNCHANGED <<closed, net, up, err, forged>>
    /\ Call

\* a channel of p exists in streams[i]
Open(p, i) == up[p] /\ i < cap[p] /\ slot[p][i].alive

\* yamux_stream_init: window update with SYN, channel state syn_sent
StreamInit(p, i) ==
    /\ Open(p, i) /\ chan[p][i] = "inited"
    /\ chan' = [chan EXCEPT ![p][i] = "syn_sent"]
    /\ Emit(p, net[p], <<Mk("wu", "syn", slot[p][i].id, 0)>>)
    /\ UNCHANGED <<slot, cap, nextid, closed, up, err, forged>>
    /\ Call

\* yamux_stream_write, one data frame; no state or session check
StreamWrite(p, i) ==
    /\ Open(p, i)
    /\ chan' = [chan EXCEPT ![p][i] = AfterFlag(@)]
    /\ Emit(p, net[p], <<Mk("data", FlagFor(chan[p][i]), slot[p][i].id, 1)>>)
    /\ UNCHANGED <<slot, cap, nextid, closed, up, err, forged>>
    /\ Call

\* yamux_stream_close on a channel context: only from established
StreamClose(p, i) ==
    /\ Open(p, i) /\ chan[p][i] = "est"
    /\ chan' = [chan EXCEPT ![p][i] = "closing"]
    /\ Emit(p, net[p], <<Mk("wu", "fin", slot[p][i].id, 0)>>)
    /\ UNCHANGED <<slot, cap, nextid, closed, up, err, forged>>
    /\ Call

\* yamux_stream_reset: RST in any state
StreamReset(p, i) ==
    /\ Open(p, i)
    /\ chan' = [chan EXCEPT ![p][i] = "closed"]
    /\ Emit(p, net[p], <<Mk("wu", "rst", slot[p][i].id, 0)>>)
    /\ UNCHANGED <<slot, cap, nextid, closed, up, err, forged>>
    /\ Call

\* yamux_stream_window_update: not on closing or closed channels
WindowUpdate(p, i) ==
    /\ Open(p, i) /\ chan[p][i] \notin {"closing", "closed"}
    /\ chan' = [chan EXCEPT ![p][i] = AfterFlag(@)]
    /\ Emit(p, net[p], <<Mk("wu", FlagFor(chan[p][i]), slot[p][i].id, 1)>>)
    /\ UNCHANGED <<slot, cap, nextid, closed, up, err, forged>>
    /\ Call

\* yamux_session_ping(session, value, 0): a ping SYN
Ping(p) ==
    /\ up[p] /\ ~closed[p]
    /\ Emit(p, net[p], <<Mk("ping", "syn", 0, 0)>>)
    /\ UNCHANGED <<slot, cap, chan, nextid, closed, up, err, forged>>
    /\ Call

\* yamux_session_close(session, yamux_error_normal)
SessionClose(p) ==
    /\ up[p] /\ ~closed[p]
    /\ closed' = [closed EXCEPT ![p] = TRUE]
    /\ Emit(p, net[p], <<GoAwayFrame(0)>>)
    /\ UNCHANGED <<slot, cap, chan, nextid, up, err, forged>>
    /\ Call

-----------------------------------------------------------------------------
(* yamux_decode: one action per branch.  f is the frame read, inbox what   *)
(* remains of p's input afterwards.                                        *)

\* stream id 0, ping with SYN: answer with the same value and ACK, unless
\* the session is closed (yamux_session_ping then returns -EINVAL)
RecvPing(p, f, inbox) ==
    /\ f.id = 0 /\ f.type = "ping" /\ f.flag = "syn"
    /\ Finish(p, inbox, IF closed[p] THEN <<>> ELSE <<Mk("ping", "ack", 0, f.len)>>,
              "", closed[p])
    /\ UNCHANGED <<slot, cap, chan, nextid, up>>

\* stream id 0, any other ping: no pong_fn is ever installed, so -EPROTO
RecvPong(p, f, inbox) ==
    /\ f.id = 0 /\ f.type = "ping" /\ f.flag # "syn"
    /\ Finish(p, inbox, <<>>, "pong", closed[p])
    /\ UNCHANGED <<slot, cap, chan, nextid, up>>

\* stream id 0, GO-AWAY: the session is marked closed, nothing else
RecvGoAway(p, f, inbox) ==
    /\ f.id = 0 /\ f.type = "goaway"
    /\ Finish(p, inbox, <<>>, "", TRUE)
    /\ UNCHANGED <<slot, cap, chan, nextid, up>>

\* stream id 0, data or window update: -EPROTO
RecvSessionData(p, f, inbox) ==
    /\ f.id = 0 /\ f.type \in {"data", "wu"}
    /\ Finish(p, inbox, <<>>, "session_type", closed[p])
    /\ UNCHANGED <<slot, cap, chan, nextid, up>>

\* the error yamux_stream_process returns for f, as an error kind
ProcessErr(f) == IF ProcessFails(f) THEN "bad_type" ELSE ""

\* a frame for a live stream; i is the entry the lookup loop stops at
Found(p, f, i) == f.id # 0 /\ Lookup(p, f.id) # {} /\ i = Min(Lookup(p, f.id))

\* RST: the table entry is closed, then the payload is processed
RecvRst(p, f, inbox) ==
    \E i \in Slots :
    /\ Found(p, f, i) /\ f.flag = "rst"
    /\ slot' = [slot EXCEPT ![p][i].st = "closed"]
    /\ Finish(p, inbox, <<>>, ProcessErr(f), closed[p])
    /\ UNCHANGED <<cap, chan, nextid, up>>

\* FIN: unless the table entry is closing, yamux_stream_close is called on
\* the channel (a FIN goes out only if the channel is established); then
\* the table entry is closed
RecvFin(p, f, inbox) ==
    \E i \in Slots :
    LET answer == slot[p][i].st # "closing" /\ chan[p][i] = "est" IN
    /\ Found(p, f, i) /\ f.flag = "fin"
    /\ slot' = [slot EXCEPT ![p][i].st = "closed"]
    /\ chan' = [chan EXCEPT ![p][i] = IF answer THEN "closing" ELSE @]
    /\ Finish(p, inbox, IF answer THEN <<Mk("wu", "fin", f.id, 0)>> ELSE <<>>,
              ProcessErr(f), closed[p])
    /\ UNCHANGED <<cap, nextid, up>>

\* ACK: -EPROTO unless the table entry is in syn_sent; then established
\* and processed.  Nothing in the code ever sets a table entry to syn_sent
\* (yamux_stream_init and get_flags set the channel context only).
RecvAck(p, f, inbox) ==
    \E i \in Slots :
    LET expected == slot[p][i].st = "syn_sent" IN
    /\ Found(p, f, i) /\ f.flag = "ack"
    /\ slot' = [slot EXCEPT ![p][i].st = IF expected THEN "est" ELSE @]
    /\ Finish(p, inbox, <<>>, IF expected THEN ProcessErr(f) ELSE "ack_unexpected",
              closed[p])
    /\ UNCHANGED <<cap, chan, nextid, up>>

\* SYN on a live stream: "flags" error
RecvStreamSyn(p, f, inbox) ==
    \E i \in Slots :
    /\ Found(p, f, i) /\ f.flag = "syn"
    /\ Finish(p, inbox, <<>>, "flags", closed[p])
    /\ UNCHANGED <<slot, cap, chan, nextid, up>>

\* no flag: the payload goes to the channel's buffer
RecvStreamFrame(p, f, inbox) ==
    \E i \in Slots :
    /\ Found(p, f, i) /\ f.flag = "none"
    /\ Finish(p, inbox, <<>>, ProcessErr(f), closed[p])
    /\ UNCHANGED <<slot, cap, chan, nextid, up>>

\* no live stream has the id
Unknown(p, f) == f.id # 0 /\ Lookup(p, f.id) = {}

\* SYN for a new stream the remote may open, with room in the table.  The
\* channel context is set to syn_recv; a window-update SYN is answered by a
\* window update (get_flags: ACK, established); then the multistream
\* header is written on the new channel (get_flags again).  The payload is
\* processed on a detached yamux_stream whose `stream' is NULL.
NewStreamOut(f) ==
    LET c1 == IF f.type = "wu" THEN AfterFlag("syn_recv") ELSE "syn_recv"
        wu == IF f.type = "wu" THEN <<Mk("wu", FlagFor("syn_recv"), f.id, f.len)>>
                               ELSE <<>>
    IN [out |-> wu \o <<Mk("data", FlagFor(c1), f.id, 1)>>, cst |-> AfterFlag(c1)]

\* processing a payload on the detached stream dereferences NULL
CrashesOnSyn(f) == f.type = "data" /\ f.len > 0

RecvNewStream(p, f, inbox) ==
    /\ Unknown(p, f) /\ f.flag = "syn" /\ AcceptsRemoteId(p, f.id)
    /\ ~TableFull(p) /\ ~CrashesOnSyn(f)
    /\ Alloc(p, f.id, FALSE, NewStreamOut(f).cst)
    /\ Finish(p, inbox, NewStreamOut(f).out, "", closed[p])
    /\ UNCHANGED <<nextid, up>>

RecvNewStreamCrash(p, f, inbox) ==
    /\ Unknown(p, f) /\ f.flag = "syn" /\ AcceptsRemoteId(p, f.id)
    /\ ~TableFull(p) /\ CrashesOnSyn(f)
    /\ up' = [up EXCEPT ![p] = FALSE]
    /\ UNCHANGED <<slot, cap, chan, nextid, closed, net, err>>

\* yamux_channel_new returns NULL: -EPROTO
RecvNewStreamFull(p, f, inbox) ==
    /\ Unknown(p, f) /\ f.flag = "syn" /\ AcceptsRemoteId(p, f.id)
    /\ TableFull(p)
    /\ Finish(p, inbox, <<>>, "backlog", closed[p])
    /\ UNCHANGED <<slot, cap, chan, nextid, up>>

\* SYN with the wrong parity: logged and ignored
RecvWrongParity(p, f, inbox) ==
    /\ Unknown(p, f) /\ f.flag = "syn" /\ ~AcceptsRemoteId(p, f.id)
    /\ Finish(p, inbox, <<>>, "", closed[p])
    /\ UNCHANGED <<slot, cap, chan, nextid, up>>

\* any other frame for an unknown stream: -EPROTO
RecvNoStream(p, f, inbox) ==
    /\ Unknown(p, f) /\ f.flag # "syn"
    /\ Finish(p, inbox, <<>>, "no_stream", closed[p])
    /\ UNCHANGED <<slot, cap, chan, nextid, up>>

Receive(p, f, inbox) ==
    \/ RecvPing(p, f, inbox)        \/ RecvPong(p, f, inbox)
    \/ RecvGoAway(p, f, inbox)      \/ RecvSessionData(p, f, inbox)
    \/ RecvRst(p, f, inbox)         \/ RecvFin(p, f, inbox)
    \/ RecvAck(p, f, inbox)
    \/ RecvStreamSyn(p, f, inbox)   \/ RecvStreamFrame(p, f, inbox)
    \/ RecvNewStream(p, f, inbox)   \/ RecvNewStreamCrash(p, f, inbox)
    \/ RecvNewStreamFull(p, f, inbox)
    \/ RecvWrongParity(p, f, inbox) \/ RecvNoStream(p, f, inbox)

\* the session's reader takes the next frame off the wire
Decode(p) ==
    /\ up[p] /\ net[p] # <<>>
    /\ Receive(p, Head(net[p]), Tail(net[p]))
    /\ UNCHANGED <<forged, calls>>

\* a hostile remote makes p decode an arbitrary frame
Forge(p) ==
    /\ up[p] /\ forged < MaxForged
    /\ \E f \in Frame : Receive(p, f, net[p])
    /\ forged' = forged + 1
    /\ UNCHANGED calls

-----------------------------------------------------------------------------

Init ==
    /\ slot = [p \in Peers |-> [i \in Slots |-> DeadSlot]]
    /\ cap = [p \in Peers |-> 0]
    /\ chan = [p \in Peers |-> [i \in Slots |-> "inited"]]
    /\ nextid = [p \in Peers |-> FirstId(p)]
    /\ closed = [p \in Peers |-> FALSE]
    /\ net = [p \in Peers |-> <<>>]
    /\ up = [p \in Peers |-> TRUE]
    /\ err = [p \in Peers |-> {}]
    /\ forged = 0
    /\ calls = 0

Next ==
    \E p \in Peers :
        \/ ChannelNew(p) \/ Ping(p) \/ SessionClose(p)
        \/ \E i \in Slots : \/ StreamInit(p, i)  \/ StreamWrite(p, i)
                            \/ StreamClose(p, i) \/ StreamReset(p, i)
                            \/ WindowUpdate(p, i)
        \/ Decode(p)
        \/ Forge(p)

Spec == Init /\ [][Next]_vars

\* bounds the frames in flight (TCP would block the writer)
NetBound == \A p \in Peers : Len(net[p]) <= MaxNet

-----------------------------------------------------------------------------
(* Properties                                                              *)

TypeOK ==
    /\ slot \in [Peers -> [Slots -> [alive : BOOLEAN, id : Ids,
                                     st : States, local : BOOLEAN]]]
    /\ cap \in [Peers -> 0 .. Backlog]
    /\ chan \in [Peers -> [Slots -> States]]
    /\ nextid \in [Peers -> 1 .. MaxId + 2]
    /\ closed \in [Peers -> BOOLEAN] /\ up \in [Peers -> BOOLEAN]
    /\ net \in [Peers -> Seq(Frame)]
    /\ err \in [Peers -> SUBSET ErrorKinds]
    /\ forged \in 0 .. MaxForged
    /\ calls \in 0 .. MaxCalls

\* Stream ids are unique: no two live, non-closed entries of a session's
\* table carry the same id, so the lookup loop of yamux_decode can never
\* deliver a frame to the wrong stream.  It rests on the parity check of
\* the SYN branch together with the nextid counter of yamux_channel_new.
LiveIdsUnique ==
    \A p \in Peers : \A i, j \in Slots :
        (/\ i # j
         /\ slot[p][i].alive /\ slot[p][i].st # "closed"
         /\ slot[p][j].alive /\ slot[p][j].st # "closed")
        => slot[p][i].id # slot[p][j].id

\* The id parity invariant of the spec: every stream SYN a peer puts on the
\* wire carries an id of that peer's own parity (odd for the client, even
\* for the server), whether the SYN comes from yamux_stream_init, a first
\* write or a window update (get_flags on an inited channel).
SynParity ==
    \A p \in Peers : \A k \in 1 .. Len(net[p]) :
        LET f == net[p][k] IN
        (f.flag = "syn" /\ f.id # 0) => f.id % 2 = IF IsServer(Other(p)) THEN 0 ELSE 1


\* Opening a stream completes on both sides: the peer that accepts it
\* processes the opening frame without crashing, whether it is a window
\* update or a first write carrying data, and the peer that opened it
\* never has the answering ACK rejected by yamux_decode.
HandshakeCompletes == \A p \in Peers : up[p] /\ "ack_unexpected" \notin err[p]

====
