------------------------------ MODULE DialerJoin ------------------------------
(***************************************************************************)
(* libp2p_conn_dialer_join_swarm (src/libp2p/conn/dialer.c): one local    *)
(* node joining the swarm of one remote peer.  It dials the peer's        *)
(* addresses in turn until one answers, hands the peer to the swarm, and  *)
(* then negotiates each layer of the connection pipeline, waiting for the *)
(* remote at each: multistream, secio, multistream over secio, yamux, and *)
(* a first yamux channel for identify.  Every wait may time out: the      *)
(* remote is slow, or negotiates something else.                          *)
(*                                                                         *)
(* The caller, libp2p_peer_connect, is not under src/: it joins again     *)
(* after a failed join, up to MaxJoins times (the spec lets "the caller   *)
(* reset later"); a joined peer is not joined again.  The swarm is not    *)
(* under src/ either: libp2p_swarm_add_peer starts a reader of the peer's *)
(* session, modelled as a count of readers.                               *)
(***************************************************************************)
EXTENDS Naturals, FiniteSets

CONSTANTS
    NAddrs,      \* length of peer->addr_head
    MaxJoins,    \* joins the caller makes
    MaxConns,    \* connections that can be dialed in all
    HasIdentify  \* the swarm has a handler for /ipfs/id/1.0.0

ASSUME NAddrs \in Nat \ {0} /\ MaxJoins \in Nat /\ MaxConns \in Nat /\ HasIdentify \in BOOLEAN

VARIABLES
    pc,       \* where join_swarm is: "idle", or the wait it is in
    ai,       \* the index of current_entry in the address list
    ctx,      \* peer->sessionContext: "none", or [stream, layer]
    open,     \* connections dialed and never closed
    nconn,    \* connections dialed so far; the next one's id
    readers,  \* readers the swarm runs on the peer
    joins,    \* joins started
    result    \* what the last join returned: "none", "ok" or "fail"

vars == <<pc, ai, ctx, open, nconn, readers, joins, result>>

Conns == 1 .. MaxConns
Layers == {"raw", "multistream", "secio", "secio/multistream", "yamux"}

\* a wait of the pipeline: the remote answers in time, or it does not
Outcomes == {"ready", "timeout"}

\* join_swarm returns
Return(r) == pc' = "idle" /\ result' = r

-----------------------------------------------------------------------------

\* libp2p_peer_connect: join when the last join failed or none was made
Join ==
    /\ pc = "idle" /\ result # "ok" /\ joins < MaxJoins
    /\ pc' = "dial" /\ ai' = 1 /\ joins' = joins + 1
    /\ UNCHANGED <<ctx, open, nconn, readers, result>>

\* the address loop: libp2p_conn_dialer_get_connection on current_entry
\* (a transport dialer that can handle it, else the fallback dialer).  The
\* first connection is kept in a new session context; a session context
\* left by an earlier join is reused, its streams replaced.  The peer is
\* then handed to the swarm.  With no address answering, join fails.
Dial ==
    /\ pc = "dial"
    /\ \/ /\ ai > NAddrs
          /\ Return("fail")
          /\ UNCHANGED <<ai, ctx, open, nconn, readers>>
       \/ /\ ai <= NAddrs
          /\ ai' = ai + 1
          /\ UNCHANGED <<pc, ctx, open, nconn, readers, result>>
       \/ /\ ai <= NAddrs /\ nconn < MaxConns
          /\ nconn' = nconn + 1
          /\ open' = open \cup {nconn + 1}
          /\ ctx' = [stream |-> nconn + 1, layer |-> "raw"]
          /\ readers' = readers + 1
          /\ pc' = "multistream"
          /\ UNCHANGED <<ai, result>>
    /\ UNCHANGED joins

\* one layer's negotiation: the stream constructor and its _ready wait.
\* On time it is the session's default stream; otherwise join_swarm
\* returns 0 and leaves the connection open and in the swarm.
Negotiate(wait, layer, next) ==
    /\ pc = wait
    /\ \E o \in Outcomes :
         IF o = "ready"
         THEN ctx' = [ctx EXCEPT !.layer = layer] /\ pc' = next /\ UNCHANGED result
         ELSE Return("fail") /\ UNCHANGED ctx
    /\ UNCHANGED <<ai, open, nconn, readers, joins>>

Multistream == Negotiate("multistream", "multistream", "secio")
Secio == Negotiate("secio", "secio", "secio/multistream")
SecioMultistream == Negotiate("secio/multistream", "secio/multistream", "yamux")
Yamux == Negotiate("yamux", "yamux", "identify")

\* identify over a first yamux channel: without a handler, or when
\* yamux_channel_new gives no channel, join succeeds at once; otherwise
\* multistream on the channel must be ready within 10 s or join fails
\* with the yamux session up
Identify ==
    /\ pc = "identify"
    /\ \/ ~HasIdentify /\ Return("ok")
       \/ HasIdentify /\ \E o \in {"no_channel"} \cup Outcomes :
             Return(IF o = "timeout" THEN "fail" ELSE "ok")
    /\ UNCHANGED <<ai, ctx, open, nconn, readers, joins>>

Init ==
    /\ pc = "idle" /\ ai = 1 /\ ctx = "none"
    /\ open = {} /\ nconn = 0 /\ readers = 0 /\ joins = 0 /\ result = "none"

Next ==
    \/ Join \/ Dial \/ Multistream \/ Secio \/ SecioMultistream \/ Yamux \/ Identify

Spec == Init /\ [][Next]_vars

-----------------------------------------------------------------------------
(* Properties                                                              *)

TypeOK ==
    /\ pc \in {"idle", "dial", "multistream", "secio", "secio/multistream", "yamux", "identify"}
    /\ ai \in 1 .. NAddrs + 1
    /\ ctx \in {"none"} \cup [stream : Conns, layer : Layers]
    /\ open \subseteq Conns /\ nconn \in 0 .. MaxConns
    /\ readers \in Nat /\ joins \in 0 .. MaxJoins
    /\ result \in {"none", "ok", "fail"}

\* Every peer has one connection and one session, read by one swarm
\* reader (spec.md: "Every connected peer has exactly one secio channel
\* and one yamux session"; "a failed phase closes the underlying
\* stream").  It fails if a join that gave up leaves its connection open
\* and in the swarm, and the caller's next join dials another.
OneSessionPerPeer == Cardinality(open) <= 1 /\ readers <= 1

====
