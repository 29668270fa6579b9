------------------------------- MODULE DhtRouting -------------------------------
(***************************************************************************)
(* The online routing facade (src/libipfs/routing/online.c) of one node,  *)
(* the Client, asking its peers, the Responders, over the Kademlia        *)
(* protocol (src/libp2p/routing/dht_protocol.c).                          *)
(*                                                                         *)
(* Every request the facade makes goes over the peer's one default stream *)
(* (ipfs_routing_online_send_receive_message): write the protocol line,   *)
(* read it back (libp2p_routing_dht_upgrade_stream), write the request,   *)
(* read the reply (libp2p_routing_dht_receive_message).  Each read waits   *)
(* at most 5 seconds.  On the responder a reader thread sees the protocol *)
(* line, echoes it (libp2p_routing_dht_handshake), reads the request with *)
(* the same timeout and writes a reply only when it has one.              *)
(*                                                                         *)
(* req[r] and rep[r] are the two directions of the stream to r, reliable  *)
(* and in order.  A read may time out when its buffer is empty: on the    *)
(* stream to a responder in Slow at any time, on the others only when     *)
(* nothing is on its way.                                                  *)
(***************************************************************************)
EXTENDS Naturals, Sequences, SequencesExt, FiniteSets

CONSTANTS
    Client,       \* the node whose routing facade is modelled
    Responders,   \* its peers, each running the DHT protocol handler
    Far,          \* a peer the Client has never heard of
    Keys,         \* content keys (hashes)
    Holds,        \* Holds[n]: keys in n's datastore and filestore
    LocalProv,    \* LocalProv[k]: the Client's providerstore entry for k
    Known,        \* Known[r]: peers in r's peerstore at start
    Slow,         \* the responders whose answers may come after the reader gave up
    MaxOps        \* number of routing calls the Client makes

Nodes == {Client} \cup Responders
PeerIds == Nodes \cup {Far}

ASSUME Holds \in [Nodes -> SUBSET Keys] /\ LocalProv \in [Keys -> SUBSET PeerIds]
ASSUME Known \in [Responders -> SUBSET PeerIds] /\ Slow \subseteq Responders /\ MaxOps \in Nat

VARIABLES
    req, rep,     \* the stream to each responder: Client -> r and r -> Client
    spc,          \* spc[r]: r's reader thread, "idle" or "await" (in handle_message)
    speers,       \* speers[r]: r's peerstore
    sprov,        \* sprov[r][k]: r's providerstore entry for k
    cpeers,       \* the Client's peerstore, in insertion order
    conn,         \* conn[p]: peer p's connection_type is CONNECTION_TYPE_CONNECTED
    cpc,          \* where the Client's routing call is
    cop,          \* [name, arg] of the routing call in progress
    ci,           \* the index of the loop over the peerstore or the providers
    cres,         \* the providers or peer found so far
    rpc,          \* [to, msg, back]: the request in progress and where it returns
    outcome,      \* [name, arg, ok, res, got]: the last routing call's result
    ops           \* routing calls made so far

srvVars == <<req, rep, spc, speers, sprov>>
cliVars == <<cpeers, conn, cpc, cop, ci, cres, rpc, outcome, ops>>
vars == <<srvVars, cliVars>>

Types == {"GET_VALUE", "ADD_PROVIDER", "GET_PROVIDERS", "FIND_NODE", "PING"}
\* a KademliaMessage: its type, key, provider peers and whether a record
\* with a value is attached
Kad == [type : Types, key : Keys \cup PeerIds \cup {"none"}, prov : SUBSET PeerIds, val : BOOLEAN]
Mk(t, k, p) == [type |-> t, key |-> k, prov |-> p, val |-> FALSE]
Proto == Mk("proto", "none", {})  \* the line "/ipfs/kad/1.0.0\n"
NA == Mk("na", "none", {})        \* the multistream answer to an unknown protocol
Null == Mk("null", "none", {})    \* a NULL KademliaMessage*
Wire == Kad \cup {Proto, NA}

-----------------------------------------------------------------------------
(* The responder: libp2p_routing_dht_handle_msg                           *)

\* libp2p_routing_dht_handle_get_providers: itself when its datastore
\* has the key, else one peer of the providerstore that its peerstore
\* knows, else no reply
GetProvidersReply(r, m) ==
    IF m.key \in Holds[r] THEN {[m EXCEPT !.prov = {r}]}
    ELSE IF sprov[r][m.key] # {}
         THEN {IF p \in speers[r] THEN [m EXCEPT !.prov = {p}] ELSE Null :
                  p \in sprov[r][m.key]}
         ELSE {Null}

\* libp2p_routing_dht_handle_get_value: the record from the filestore, or
\* no reply
GetValueReply(r, m) == IF m.key \in Holds[r] THEN [m EXCEPT !.val = TRUE] ELSE Null

\* libp2p_routing_dht_handle_find_node: the peer itself, or no reply
FindNodeReply(r, m) == IF m.key \in speers[r] THEN [m EXCEPT !.prov = {m.key}] ELSE Null

\* libp2p_routing_dht_handle_add_provider: a message without a provider
\* is refused; otherwise the first provider joins the peerstore and the
\* providerstore and the message is echoed
AddProviderOk(m) == m.prov # {}

\* the protocol line reaches the dispatcher: can_handle matches, the
\* handshake echoes the line and handle_message starts its read
SrvUpgrade(r) ==
    /\ spc[r] = "idle" /\ req[r] # <<>> /\ Head(req[r]) = Proto
    /\ req' = [req EXCEPT ![r] = Tail(@)]
    /\ rep' = [rep EXCEPT ![r] = Append(@, Proto)]
    /\ spc' = [spc EXCEPT ![r] = "await"]
    /\ UNCHANGED <<speers, sprov, cliVars>>

\* a request that arrives after handle_message gave up matches no handler
SrvUnknown(r) ==
    /\ spc[r] = "idle" /\ req[r] # <<>> /\ Head(req[r]) # Proto
    /\ req' = [req EXCEPT ![r] = Tail(@)]
    /\ rep' = [rep EXCEPT ![r] = Append(@, NA)]
    /\ UNCHANGED <<spc, speers, sprov, cliVars>>

\* the Client is between reading the echo and writing its request
ClientSending(r) == cpc = "up" /\ rpc.to = r

\* stream->read(..., 5) in handle_message returns nothing
SrvTimeout(r) ==
    /\ spc[r] = "await" /\ req[r] = <<>>
    /\ r \in Slow \/ ~ClientSending(r)
    /\ spc' = [spc EXCEPT ![r] = "idle"]
    /\ UNCHANGED <<req, rep, speers, sprov, cliVars>>

\* libp2p_routing_dht_handle_add_provider on responder r: the first
\* provider is added to the peerstore and, for the key, to the
\* providerstore, and the message is echoed; a refused one gets no reply
AddProvider(r, m) ==
    IF AddProviderOk(m)
    THEN LET p == CHOOSE q \in m.prov : TRUE IN
         /\ speers' = [speers EXCEPT ![r] = @ \cup {p}]
         /\ sprov' = [sprov EXCEPT ![r][m.key] = @ \cup {p}]
         /\ rep' = [rep EXCEPT ![r] = Append(@, m)]
    ELSE UNCHANGED <<rep, speers, sprov>>

\* libp2p_routing_dht_handle_ping: the message itself is the reply
PingReply(m) == m

\* libp2p_routing_dht_handle_message: decode, dispatch on the type, and
\* write the result if there is one.  A second protocol line does not
\* decode and ends the call.
SrvHandle(r) ==
    /\ spc[r] = "await" /\ req[r] # <<>>
    /\ spc' = [spc EXCEPT ![r] = "idle"]
    /\ req' = [req EXCEPT ![r] = Tail(@)]
    /\ LET m == Head(req[r]) IN
       \/ /\ m = Proto
          /\ UNCHANGED <<rep, speers, sprov>>
       \/ /\ m # Proto /\ m.type = "ADD_PROVIDER" /\ AddProvider(r, m)
       \/ /\ m # Proto /\ m.type # "ADD_PROVIDER"
          /\ \E out \in CASE m.type = "GET_PROVIDERS" -> GetProvidersReply(r, m)
                          [] m.type = "GET_VALUE"     -> {GetValueReply(r, m)}
                          [] m.type = "FIND_NODE"     -> {FindNodeReply(r, m)}
                          [] m.type = "PING"          -> {PingReply(m)} :
               rep' = IF out = Null THEN rep ELSE [rep EXCEPT ![r] = Append(@, out)]
          /\ UNCHANGED <<speers, sprov>>
    /\ UNCHANGED cliVars

-----------------------------------------------------------------------------
(* The Client's side of a request                                         *)

\* a write of the protocol line; the request waits for its echo
Call(p, m, back) ==
    /\ req' = [req EXCEPT ![p] = Append(@, Proto)]
    /\ rpc' = [to |-> p, msg |-> m, back |-> back]
    /\ cpc' = "up"

\* a read may give up when the buffer is empty: on a slow stream at any
\* time, on a prompt one only when nothing is on its way
TimeoutOk(p) == p \in Slow \/ (spc[p] = "idle" /\ req[p] = <<>>)

\* the routing call continues at pc with loop index i
Goto(pc, i) == cpc' = pc /\ ci' = i /\ UNCHANGED <<cres, outcome>>

\* the routing call returns
Done(name, arg, ok, res, got) ==
    /\ cpc' = "idle" /\ cres' = res
    /\ outcome' = [name |-> name, arg |-> arg, ok |-> ok, res |-> ToSet(res), got |-> got]
    /\ UNCHANGED ci

\* the end of find_providers: its own result, or the providers get_value
\* goes on to ask
AfterFindProviders(name, arg, found, res) ==
    IF name = "get_value"
    THEN IF found THEN cpc' = "gv1" /\ ci' = 1 /\ cres' = res /\ UNCHANGED outcome
         ELSE Done(name, arg, FALSE, <<>>, FALSE)
    ELSE Done(name, arg, found, res, FALSE)

\* ipfs_routing_online_find_providers: the local providerstore entry and
\* the peerstore's peer for it, else the peers are asked
FindProvidersStart(name, k) ==
    IF LocalProv[k] # {}
    THEN \E p \in LocalProv[k] :
            AfterFindProviders(name, k, p \in ToSet(cpeers), IF p \in ToSet(cpeers) THEN <<p>> ELSE <<>>)
    ELSE Goto("fp", 1)

\* the facade's next step once the request to rpc.to returned reply (a
\* KademliaMessage or Null)
Resume(reply) ==
    LET p == rpc.to
        k == cop.arg
        has(field) == reply # Null /\ field
    IN
    CASE rpc.back = "fp" ->
            IF has(reply.prov # {})
            THEN /\ cpeers' = cpeers \o SetToSeq(reply.prov \ ToSet(cpeers))
                 /\ AfterFindProviders(cop.name, k, TRUE, SetToSeq(reply.prov))
                 /\ UNCHANGED conn
            ELSE Goto("fp", ci + 1) /\ UNCHANGED <<cpeers, conn>>
      [] rpc.back = "fpeer" ->
            /\ IF has(reply.prov # {})
               THEN Done(cop.name, k, TRUE, <<CHOOSE q \in reply.prov : TRUE>>, FALSE)
               ELSE Goto("fpeer", ci + 1)
            /\ conn' = IF reply = Null THEN [conn EXCEPT ![p] = FALSE] ELSE conn
            /\ UNCHANGED cpeers
      [] rpc.back = "prov" -> Goto("prov", ci + 1) /\ UNCHANGED <<cpeers, conn>>
      [] rpc.back = "ping" ->
            Done(cop.name, k, has(reply.type = "PING"), <<>>, FALSE) /\ UNCHANGED <<cpeers, conn>>
      [] rpc.back \in {"gv1", "gv2"} ->
            /\ IF has(reply.val) THEN Done(cop.name, k, TRUE, cres, TRUE)
               ELSE Goto(rpc.back, ci + 1)
            /\ UNCHANGED <<cpeers, conn>>

\* libp2p_routing_dht_upgrade_stream reads the echo: the line itself lets
\* the request be written, anything else fails the request
UpgradeRead ==
    LET p == rpc.to IN
    /\ cpc = "up" /\ rep[p] # <<>>
    /\ IF Head(rep[p]) = Proto
       THEN /\ req' = [req EXCEPT ![p] = Append(@, rpc.msg)]
            /\ cpc' = "recv"
            /\ UNCHANGED <<cpeers, conn, ci, cres, outcome>>
       ELSE Resume(Null) /\ UNCHANGED req
    /\ rep' = [rep EXCEPT ![p] = Tail(@)]
    /\ UNCHANGED <<spc, speers, sprov, cop, rpc, ops>>

UpgradeTimeout ==
    /\ cpc = "up" /\ rep[rpc.to] = <<>> /\ TimeoutOk(rpc.to)
    /\ Resume(Null)
    /\ UNCHANGED <<srvVars, cop, rpc, ops>>

\* mutant: the reply is decoded but left in the stream's buffer
RecvKeep ==
    LET p == rpc.to IN
    /\ cpc = "recv" /\ rep[p] # <<>>
    /\ Resume(IF Head(rep[p]).type \in Types THEN Head(rep[p]) ELSE Null)
    /\ UNCHANGED <<rep, req, spc, speers, sprov, cop, rpc, ops>>

\* libp2p_routing_dht_receive_message: whatever comes next is decoded as
\* the reply
Recv ==
    LET p == rpc.to IN
    /\ cpc = "recv" /\ rep[p] # <<>>
    /\ Resume(IF Head(rep[p]).type \in Types THEN Head(rep[p]) ELSE Null)
    /\ rep' = [rep EXCEPT ![p] = Tail(@)]
    /\ UNCHANGED <<req, spc, speers, sprov, cop, rpc, ops>>

RecvTimeout ==
    /\ cpc = "recv" /\ rep[rpc.to] = <<>> /\ TimeoutOk(rpc.to)
    /\ Resume(Null)
    /\ UNCHANGED <<srvVars, cop, rpc, ops>>

-----------------------------------------------------------------------------
(* The routing calls of the facade                                         *)

\* a routing call starts when the previous one has returned
Begin(name, arg) ==
    /\ cpc = "idle" /\ ops < MaxOps
    /\ ops' = ops + 1
    /\ cop' = [name |-> name, arg |-> arg]

\* libp2p_peer_connect: only the responders can be reached
Connects(p) == p \in Responders

FindProviders(k) ==
    /\ Begin("find_providers", k)
    /\ FindProvidersStart("find_providers", k)
    /\ UNCHANGED <<srvVars, cpeers, conn, rpc>>

\* ipfs_routing_online_find_remote_providers: ask each connected peer in
\* turn for GET_PROVIDERS, stop at the first that names a provider
FindProvidersStep ==
    /\ cpc = "fp"
    /\ IF ci > Len(cpeers)
       THEN AfterFindProviders(cop.name, cop.arg, FALSE, <<>>) /\ UNCHANGED <<req, rpc>>
       ELSE IF conn[cpeers[ci]]
            THEN Call(cpeers[ci], Mk("GET_PROVIDERS", cop.arg, {}), "fp")
                 /\ UNCHANGED <<ci, cres, outcome>>
            ELSE Goto("fp", ci + 1) /\ UNCHANGED <<req, rpc>>
    /\ UNCHANGED <<rep, spc, speers, sprov, cpeers, conn, cop, ops>>

\* ipfs_routing_online_find_peer: the local peerstore, else every peer
\* is asked for FIND_NODE (ipfs_routing_online_ask_peer_for_peer)
FindPeer(id) ==
    /\ Begin("find_peer", id)
    /\ IF id \in ToSet(cpeers) THEN Done("find_peer", id, TRUE, <<id>>, FALSE)
       ELSE Goto("fpeer", 1)
    /\ UNCHANGED <<srvVars, cpeers, conn, rpc>>

\* mutant: a peer that is not connected is skipped without advancing
FindPeerStepStuck ==
    /\ cpc = "fpeer"
    /\ IF ci > Len(cpeers)
       THEN Done(cop.name, cop.arg, FALSE, <<>>, FALSE) /\ UNCHANGED <<req, rpc>>
       ELSE IF conn[cpeers[ci]]
            THEN Call(cpeers[ci], Mk("FIND_NODE", cop.arg, {}), "fpeer")
                 /\ UNCHANGED <<ci, cres, outcome>>
            ELSE Goto("fpeer", ci) /\ UNCHANGED <<req, rpc>>
    /\ UNCHANGED <<rep, spc, speers, sprov, cpeers, conn, cop, ops>>

FindPeerStep ==
    /\ cpc = "fpeer"
    /\ IF ci > Len(cpeers)
       THEN Done(cop.name, cop.arg, FALSE, <<>>, FALSE) /\ UNCHANGED <<req, rpc>>
       ELSE IF conn[cpeers[ci]]
            THEN Call(cpeers[ci], Mk("FIND_NODE", cop.arg, {}), "fpeer")
                 /\ UNCHANGED <<ci, cres, outcome>>
            ELSE Goto("fpeer", ci + 1) /\ UNCHANGED <<req, rpc>>
    /\ UNCHANGED <<rep, spc, speers, sprov, cpeers, conn, cop, ops>>

\* ipfs_routing_online_provide: ADD_PROVIDER naming the Client, sent to
\* every connected peer but itself; the replies are ignored
Provide(k) ==
    /\ Begin("provide", k)
    /\ Goto("prov", 1)
    /\ UNCHANGED <<srvVars, cpeers, conn, rpc>>

ProvideStep ==
    /\ cpc = "prov"
    /\ IF ci > Len(cpeers)
       THEN Done(cop.name, cop.arg, TRUE, <<>>, FALSE) /\ UNCHANGED <<req, rpc>>
       ELSE IF cpeers[ci] # Client /\ conn[cpeers[ci]]
            THEN Call(cpeers[ci], Mk("ADD_PROVIDER", cop.arg, {Client}), "prov")
                 /\ UNCHANGED <<ci, cres, outcome>>
            ELSE Goto("prov", ci + 1) /\ UNCHANGED <<req, rpc>>
    /\ UNCHANGED <<rep, spc, speers, sprov, cpeers, conn, cop, ops>>

\* ipfs_routing_online_ping: connect if needed, send PING, expect PING
Ping(p) ==
    /\ Begin("ping", p)
    /\ \/ /\ conn[p] \/ Connects(p)
          /\ conn' = [conn EXCEPT ![p] = TRUE]
          /\ Call(p, Mk("PING", "none", {}), "ping")
          /\ UNCHANGED <<ci, cres, outcome>>
       \/ /\ ~conn[p]
          /\ Done("ping", p, FALSE, <<>>, FALSE)
          /\ UNCHANGED <<req, rpc, conn>>
    /\ UNCHANGED <<rep, spc, speers, sprov, cpeers>>

\* ipfs_routing_online_get_value: find_providers, then the providers
GetValue(k) ==
    /\ Begin("get_value", k)
    /\ FindProvidersStart("get_value", k)
    /\ UNCHANGED <<srvVars, cpeers, conn, rpc>>

\* the first loop: a local provider is read locally
\* (ipfs_routing_generic_get_value), a connected one asked for GET_VALUE
\* (ipfs_routing_online_get_peer_value), the others skipped
GetValueStep1 ==
    /\ cpc = "gv1"
    /\ IF ci > Len(cres) THEN Goto("gv2", 1) /\ UNCHANGED <<req, rpc>>
       ELSE IF cres[ci] = Client
            THEN /\ IF cop.arg \in Holds[Client] THEN Done(cop.name, cop.arg, TRUE, cres, TRUE)
                    ELSE Goto("gv1", ci + 1)
                 /\ UNCHANGED <<req, rpc>>
            ELSE IF conn[cres[ci]]
                 THEN Call(cres[ci], Mk("GET_VALUE", cop.arg, {}), "gv1")
                      /\ UNCHANGED <<ci, cres, outcome>>
                 ELSE Goto("gv1", ci + 1) /\ UNCHANGED <<req, rpc>>
    /\ UNCHANGED <<rep, spc, speers, sprov, cpeers, conn, cop, ops>>

\* the second loop: connect to each provider not yet connected and ask
\* it.  After the loop `if (buffer_size == 0)` tests the pointer, never
\* the size, so the call reports success.
GetValueStep2 ==
    /\ cpc = "gv2"
    /\ IF ci > Len(cres)
       THEN Done(cop.name, cop.arg, TRUE, cres, FALSE) /\ UNCHANGED <<req, rpc, conn>>
       ELSE LET p == cres[ci] IN
            IF p = Client \/ conn[p] THEN Goto("gv2", ci + 1) /\ UNCHANGED <<req, rpc, conn>>
            ELSE \/ /\ Connects(p)
                    /\ conn' = [conn EXCEPT ![p] = TRUE]
                    /\ Call(p, Mk("GET_VALUE", cop.arg, {}), "gv2")
                    /\ UNCHANGED <<ci, cres, outcome>>
                 \/ Goto("gv2", ci + 1) /\ UNCHANGED <<req, rpc, conn>>
    /\ UNCHANGED <<rep, spc, speers, sprov, cpeers, cop, ops>>

-----------------------------------------------------------------------------

\* the Client's peerstore holds itself and the bootstrap peers, connected
\* (ipfs_routing_online_bootstrap); the responders know the peers Known
\* names and have no provider records yet
Init ==
    /\ req = [r \in Responders |-> <<>>]
    /\ rep = [r \in Responders |-> <<>>]
    /\ spc = [r \in Responders |-> "idle"]
    /\ speers = Known
    /\ sprov = [r \in Responders |-> [k \in Keys |-> {}]]
    /\ cpeers = <<Client>> \o SetToSeq(Responders)
    /\ conn \in {c \in [PeerIds -> BOOLEAN] : c[Client] = FALSE /\ c[Far] = FALSE}
    /\ cpc = "idle"
    /\ cop = [name |-> "none", arg |-> "none"]
    /\ ci = 1
    /\ cres = <<>>
    /\ rpc = [to |-> Client, msg |-> Mk("PING", "none", {}), back |-> "none"]
    /\ outcome = [name |-> "none", arg |-> "none", ok |-> FALSE, res |-> {}, got |-> FALSE]
    /\ ops = 0

Next ==
    \/ \E k \in Keys : FindProviders(k) \/ Provide(k) \/ GetValue(k)
    \/ \E id \in PeerIds : FindPeer(id)
    \/ \E r \in Responders : Ping(r)
    \/ FindProvidersStep \/ FindPeerStep \/ ProvideStep \/ GetValueStep1 \/ GetValueStep2
    \/ UpgradeRead \/ UpgradeTimeout \/ Recv \/ RecvTimeout
    \/ \E r \in Responders : SrvUpgrade(r) \/ SrvUnknown(r) \/ SrvTimeout(r) \/ SrvHandle(r)

\* the Client's thread and each responder's reader thread run whenever
\* they can; a read with nothing to come times out after 5 seconds
Fairness ==
    /\ WF_vars(FindProvidersStep \/ FindPeerStep \/ ProvideStep \/ GetValueStep1 \/ GetValueStep2)
    /\ WF_vars(UpgradeRead \/ UpgradeTimeout \/ Recv \/ RecvTimeout)
    /\ \A r \in Responders : WF_vars(SrvUpgrade(r) \/ SrvUnknown(r) \/ SrvTimeout(r) \/ SrvHandle(r))

Spec == Init /\ [][Next]_vars /\ Fairness

-----------------------------------------------------------------------------
(* Properties                                                              *)

Steps == {"idle", "fp", "fpeer", "prov", "gv1", "gv2", "up", "recv"}

TypeOK ==
    /\ req \in [Responders -> Seq(Wire)] /\ rep \in [Responders -> Seq(Wire)]
    /\ spc \in [Responders -> {"idle", "await"}]
    /\ speers \in [Responders -> SUBSET PeerIds]
    /\ sprov \in [Responders -> [Keys -> SUBSET PeerIds]]
    /\ cpeers \in Seq(PeerIds) /\ conn \in [PeerIds -> BOOLEAN]
    /\ cpc \in Steps /\ ci \in Nat /\ cres \in Seq(PeerIds) /\ ops \in 0 .. MaxOps

\* the peers that hold k or were recorded as its providers somewhere
Claims(k) ==
    {n \in Nodes : k \in Holds[n]} \cup LocalProv[k] \cup UNION {sprov[r][k] : r \in Responders}

\* The framing of every stream whose answers come in time stays aligned,
\* whatever happens on the others: once a routing call has returned,
\* nothing is left unread in either direction, so the next call's
\* protocol echo and reply are its own.
StreamInSync ==
    cpc = "idle" => \A r \in Responders \ Slow : req[r] = <<>> /\ rep[r] = <<>> /\ spc[r] = "idle"

\* What the facade reports about providers is true: every provider
\* find_providers returns for a key, and every provider get_value goes on
\* to ask, holds the key or was announced as holding it.  It fails if a
\* reply to one request is taken as the reply to another.
ProvidersAreClaims ==
    /\ outcome.name = "find_providers" /\ outcome.ok => outcome.res \subseteq Claims(outcome.arg)
    /\ cpc \in {"gv1", "gv2"} => ToSet(cres) \subseteq Claims(cop.arg)

\* A responder that answers every request within the 5-second read is
\* never marked NOT_CONNECTED, though ask_peer_for_peer takes a missing
\* reply for a broken connection.  It fails if a peer that is up leaves a
\* request unanswered.
PromptStaysConnected == [][\A r \in Responders \ Slow : conn[r] => conn'[r]]_vars

\* Every routing call returns: no loop of the facade and no read of the
\* Client or of a responder waits forever.
CallsReturn == cpc # "idle" ~> cpc = "idle"

====
