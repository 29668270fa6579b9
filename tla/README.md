# TLA+ models of libipfs

This directory holds TLA+ models of the concurrent and protocol-level parts of
libipfs (`src/`). TLC checks them. Each module is translated from the C source
it names. `PROJECT.json` maps every definition that models code to the source
lines it stands for. It also lists the runs, the mutants that show each checked
property can fail, the findings, and the hazards of the code.

## The system

libipfs is a C implementation of an IPFS node. The parts that matter here are:

- **Yamux multiplexer** (`src/libp2p/yamux/session.c`, `stream.c`).
  - One session runs over an encrypted connection and carries many streams.
  - A peer opens a stream with a frame carrying SYN; the other side answers with ACK.
  - A stream is half-closed with FIN and torn down with RST. PING and GO_AWAY are session frames.
  - A session has a table `streams[accept_backlog]` and, per open stream, a *channel context* with its own state.
  - These are two encodings of the stream state:
    - `yamux_stream_init` sets the channel context to syn_sent;
    - `yamux_decode` checks the table entry.
  - Client ids are odd and server ids even (`nextid`, session.c:55).
- **Channel reader** (`stream.c:377-419`). The session's decoder thread appends each data payload to the channel's buffer. It then *notifies* the channel, which starts a reader thread unless `read_running` is set. The reader passes each message to the protocol handlers (`libp2p_protocol_marshal`).
- **HTTP API server** (`src/libipfs/core/api.c`). A listener thread accepts clients into a fixed table `conns[max_conns]` under `conns_lock` and starts a thread per client. `api_stop` cancels the listener and calls `api_connections_cleanup`, which cancels every connection thread and frees the table.
  - A connection thread reads the request with one read of `MAX_READ` bytes. A body sent with `Transfer-Encoding: chunked` is then read by `read_chunked` (api.c:63-149). It copies the body bytes that came with the headers into a stack buffer `buf`. Each loop iteration parses a chunk-size line with `find_chunk` (`strtol`), copies the chunk into the request, memmoves the rest of `buf` to its start, waits up to 5 s in `select`, and reads more bytes after the ones kept.
- **Journal replication** (`src/libipfs/journal/journal.c`).
  - Each node periodically sends its newest journal records to its replication peers (`ipfs_journal_sync`).
  - The receiver drops a message whose clock is more than 300 s away from its own.
  - Otherwise it builds a todo list: ENTRY_NEEDED for hashes it lacks, TIME_ADJUST for records whose timestamp is 0 or later than the remote's. Then it applies the list.
- **DHT routing** (`src/libp2p/routing/dht_protocol.c`, `src/libipfs/routing/online.c`).
  - The online routing facade answers find_providers, find_peer, provide, ping and get_value by asking the connected peers of its peerstore, one at a time.
  - Each request goes over the peer's single *default stream*:
    - the client writes the protocol line and reads its echo;
    - it then writes the Kademlia message and reads whatever comes next as the reply.
    - Both reads give up after 5 seconds.
  - The responder echoes the line, reads the request (again with 5 seconds), runs the handler, and writes a reply only when the handler produced one. GET_VALUE, FIND_NODE and GET_PROVIDERS misses get no reply at all.
- **Dialer** (`src/libp2p/conn/dialer.c`). `libp2p_conn_dialer_join_swarm` dials the peer's addresses in turn until one answers, keeps the connection in the peer's session context, and hands the peer to the swarm, which starts reading its session. It then negotiates multistream, secio, multistream over secio and yamux, waiting for each with a timeout, and opens a first yamux channel for identify. It returns 0 on any failure. The caller (`libp2p_peer_connect`) and the swarm are outside `src/`.
- **Other parts.** Offline routing, secio message codecs, the blockstore, and daemon and command-line code.

How they interact:

- Yamux carries the DHT, identify and journal protocols.
- The channel reader hands yamux payloads to those protocol handlers.
- The journal uses the datastore and asks the exchange for missing blocks.
- The online routing facade is the client of the DHT handlers of the other peers. Nothing tags a request, so the stream's order alone pairs a reply with its request.

## Modules

### YamuxSession (`YamuxSession.tla`, `MCYamuxSession.tla`)

Two peers, a client and a server, each with one session.

**State per peer:**

| Variable | Models |
|---|---|
| `slot` | `streams[]`: alive, id, table state, locally opened |
| `cap` | `num_streams` |
| `chan` | the channel-context state |
| `nextid` | `nextid` |
| `closed` | `closed` |
| `up` | whether the process is alive |
| `err` | the errors `yamux_decode` returned |

`net[p]` is the ordered byte stream into p. It is reliable and in order, because yamux runs over TCP and secio.

**Actions.**
- Every local call is one action: `yamux_channel_new`, `yamux_stream_init`, `yamux_stream_write`, `yamux_stream_close`, `yamux_stream_reset`, `yamux_stream_window_update`, `yamux_session_ping`, `yamux_session_close`.
- `Decode(p)` consumes the next frame, and `Receive` selects one action per branch of `yamux_decode`: ping, pong, go_away, session data, RST, FIN, ACK, SYN on a known stream, other frames, new stream, the crash on a detached stream, backlog full, wrong parity, no stream.
- Each branch includes the `yamux_stream_process` call it makes and the frames it writes.
- When decode returns an error, the caller sends GO_AWAY and closes the session (`Finish`). The caller (yamux.c) is not under `src/`, so this part follows the spec.
- `Forge(p)` injects one arbitrary frame, up to `MaxForged`. It models a hostile or buggy remote.
- Data is abstracted: a frame is its type, flag, id and a length of 0 or 1. Window sizes are not modelled.

### YamuxChannelReader (`YamuxChannelReader.tla`, `MCYamuxChannelReader.tla`)

One channel.

- **State:**
  - `buf`, the buffer, holding payloads numbered in arrival order;
  - `running`, the `read_running` int;
  - `pc` and `msg` for each reader thread;
  - `dpc`, the decoder thread's position;
  - `handled`, the history of marshalled messages.
- **Actions.** One action per shared-memory access: the buffer write and the notify test on the decoder side; the flag set, loop test, read, marshal and flag clear on the reader side.
- **Reads.** The child read takes the head of the buffer. When another reader emptied the buffer in the meantime, it times out.

### ChannelDelivery (`ChannelDelivery.tla`)

This is the abstract specification of what a yamux channel promises the protocol that reads it, taken from the spec's FIFO delivery within a stream:
- payloads arrive (`Arrive`);
- the oldest one not yet handed over is delivered (`Deliver`), under weak fairness.

`YamuxChannelReader` is checked against it through `Delivery == INSTANCE ChannelDelivery WITH ...`.

### ApiConnPool (`ApiConnPool.tla`)

**State:**
- `conns[i]`: null or allocated;
- each connection thread's position and pending cancel;
- whether the table array is still allocated;
- `conns_count`;
- the positions of the listener and of the thread calling `api_stop`;
- a flag for the lock being held by a dead thread;
- flags for an out-of-bounds write and a crash.

**Actions.**
- Each region between lock and unlock is one action.
- Each unlocked access is one action: the limit test, and a connection thread's read of its own entry.
- `pthread_cancel` is deferred. A thread dies at its next cancellation point: accept, select, read or close.
- `Register` holds every outcome of the locked body of the accept loop:
  - the table already freed;
  - no free entry;
  - the entry's `malloc` fails;
  - the `connection_param` allocation fails;
  - `pthread_create` fails;
  - success.
- `api_connections_cleanup` calls `pthread_cancel` on an uninitialised handle, which is undefined behaviour. It is modelled as a crash, like the NULL dereference next to it.

### ChunkedBody (`ChunkedBody.tla`)

`read_chunked` and `find_chunk`. It has no run of its own; ApiRequest instantiates it.

**State:**
- the whole of `buf[0 .. MAX_READ-1]`, not only its first `buf_size` bytes, because `find_chunk` and the CRLF test read past `buf_size`;
- `buf_size`, `pos` and `nsize`;
- the body bytes copied so far;
- the position in the loop (top of the `while`, `CPCHUNK`, returned) and the return value, or a crash;
- the client's side: the chunk list it sends, the bytes not yet written, the bytes written and not yet read, and EOF and reset flags.

Bytes are modelled one by one from a small alphabet: the hex digits 0, 1, 2 and a, CR, LF, a non-digit payload byte y, and NUL for bytes the stack held. `a` is both a payload byte and a hex digit. `MAX_READ` is not defined in `src/`, so `Cap = 8` stands for it.

**Actions:**
- `Send`: the client writes its next bytes, which TCP may split anywhere.
- `Close`: the client half-closes once everything is written (`HalfClose`).
- `Reset`: the connection is reset (`Resets`).
- `Find`: the top of `while(buf_size)`. It covers `find_chunk` (strtol skips CR and LF, reads the longest hex run, and wants CRLF right after it), the zero chunk, and a `realloc` failure.
- `CpChunk`: the whole of `CPCHUNK`, in the code's order:
  - copy, memmove, then `select` and `read`;
  - `goto CPCHUNK` or the CRLF `memcmp`.
  - `select` times out with nothing to read only if the client may pause (`SlowClient`) or has written everything.
  - A read of -1 is added to the `size_t` `buf_size`, so it decrements it; the code's `r <= 0` test never sees it.
  - When `pos` exceeds `buf_size`, `buf_size -= pos` wraps and the memmove runs off the stack: the process crashes.

**Init.** The caller (api.c:459) passes the bytes after the headers of one read of `MAX_READ` bytes, so `already_size` is below `MAX_READ`. All of it is copied into `buf`, and the branches that refill from `already` (api.c:73-78, 112-124) never run. The rest of `buf` holds stack bytes. They are taken as NUL, which ends every parse; the overrun below needs no help from them.

### ApiRequest (`ApiRequest.tla`, `MCApiRequest.tla`)

`api_connection_thread` from the end of the headers to `quit`. It composes ChunkedBody: `CB == INSTANCE ChunkedBody` shares its variables, so the chunked path is ChunkedBody's own `Find` and `CpChunk`.

- **Extra state:** `chunked` (the request said `Transfer-Encoding: chunked`), `multipart` (a POST with `multipart/form-data; boundary=q`), `phase` (`read`, `bfind`, `bsize`, `quit`, `crashed`), and `bp`, boundary_find's `p` as an index into the body.
- **Headers.** The request line and header parsing are abstracted to the two flags. The boundary is the single byte `q`.
- **Actions:**
  - `Client`: ChunkedBody's `Send`, `Close` and `Reset`.
  - `ReadChunked`: one iteration of `read_chunked`.
  - `ReadAll`: one iteration of `read_all`'s loop. A `select` timeout or a read of 0 ends it; bytes read are appended, or `realloc` fails. A read of -1 on a reset goes into the `size_t size`, passes `size <= 0`, and the `realloc`/`memcpy` that follow crash the process.
  - `ReadDone`: HTTP 500 on failure; for a multipart POST, the first `str_tok(body, "--")`; otherwise the response.
  - `Respond` (api.c:539-566): nothing is written when `api_build_http_request` fails; HTTP 404 when `ipfs_core_http_request_process` fails; otherwise the 200 header with `Transfer-Encoding: chunked` and the response body through `api_send_resp_chunks`. `out` holds what was written, `resp` the response body.
  - `SendRespChunks` is `api_send_resp_chunks` as a RECURSIVE operator: chunks of at most `MaxChunk` bytes, each `%x CRLF data CRLF`, with the zero-size line after the last chunk's CRLF. For an empty body the loop never runs and nothing is written.
  - `Dechunk` is an independent RFC 7230 decoder, the reference the response is checked against (`Answered`). For every non-empty body of up to 5 bytes and `MaxChunk` 1 and 2, `Dechunk(SendRespChunks(b))` gives back `b`; for the empty body it fails.
  - `BoundaryFind`: one iteration of `boundary_find`'s `while (p)`. When `p` is not followed by the boundary, the code searches again from `str`, so the step changes nothing and repeats forever.
  - `BoundarySize`: `boundary_size`. Its limit subtracts the stack array `buf` from a heap pointer (api.c:510), so when the closing delimiter is missing `memmem` may run past the body into an unmapped page.
- **Init.** Chunked mode starts from ChunkedBody's `Init`. In raw mode, the first `k < MAX_READ` body bytes came with the headers (read_all's `already`) and the rest are still to be sent.
- `req.buf` is not NUL-terminated, and `strstr` reads past it. The bytes that follow are taken as NUL, one of the possible outcomes.

### Journal (`Journal.tla`, `MCJournal.tla`)

Two nodes with skewed clocks.

- **State:**
  - each node's datastore (hash → timestamp);
  - each node's journal, derived from the datastore;
  - the messages in flight, a set: they may be lost, delayed or reordered;
  - `lastConnect` and `lastJournalTime` per replication peer;
  - the last todo list each node built;
  - whether each process is alive.
- **Actions.**
  - `Sync`: `ipfs_journal_sync` with `get_last`, building the message and a send that may fail.
  - `HandleMessage`: the whole of `ipfs_journal_handle_message`. The header may arrive in the same read as the body or in a read of its own, and the two cases run different code. It continues with the decode (which may fail), the clock guard, `build_todo`, and the todo loop with `adjust_time`.
  - `Tick`: true time advances.

### DhtRouting (`DhtRouting.tla`, `MCDhtRouting.tla`)

One Client node that runs the online facade, and responders that run the DHT handlers.

- **Server state:**
  - `req[r]` and `rep[r]`, the two directions of r's default stream, as FIFO sequences of messages;
  - `spc[r]`, whether r's handler is waiting for a request after echoing the protocol line;
  - `speers[r]` and `sprov[r]`, r's peerstore and providerstore.
- **Client state:**
  - `cpeers` and `conn`, the peerstore (in order) and each peer's connection_type;
  - `cop`, `cpc` and `ci`, the routing call, its position and its loop index;
  - `cres`, the providers found;
  - `rpc`, the request in flight;
  - `outcome`, the result of the last call;
  - `ops`, the number of calls so far.
- **Messages.** A Kademlia message is a record: its type, key, provider peers and whether it carries a value. `Proto` is the protocol line. `NA` is the dispatcher's refusal of a line that is not the protocol line.
- **Server actions.**
  - `SrvUpgrade` is `can_handle` and the handshake.
  - `SrvUnknown` is the refusal. The dispatcher is not under `src/`, so it follows the spec.
  - `SrvTimeout` is the 5-second read of the request giving up.
  - `SrvHandle` is the whole of `handle_message`: each handler, with its reply or its silence.
- **Client actions.**
  - Each facade function is a first action and a loop-step action: `FindProviders`/`FindProvidersStep`, `FindPeer`/`FindPeerStep`, `Provide`/`ProvideStep`, `Ping`, and `GetValue` with `GetValueStep1`/`GetValueStep2`.
  - `Call` is `send_message`'s first write.
  - `UpgradeRead` and `UpgradeTimeout` are the echo read of `upgrade_stream`.
  - `Recv` and `RecvTimeout` are `receive_message`.
  - `Resume` is what the calling function does with the reply, or with NULL.
- **Timing.**
  - Responders in `Slow` may take longer than 5 seconds, so a read of their stream may give up at any time.
  - On any other stream, a read gives up only when nothing is on its way.
  - The responder's own read may give up on a slow stream, or when the Client is not sending.
- **Connections.** `libp2p_peer_connect` is not under `src/`. `Connects` says only the responders can be reached.
- **Not modelled here:** PUT_VALUE (nothing in `src/` sends it), message encoding, and the multiaddress formatting of `build_local_peer`.

### DialerJoin (`DialerJoin.tla`)

`libp2p_conn_dialer_join_swarm` for one remote peer, with the caller joining again after a failed join.

- **State:** `pc` (idle, dial, or the wait join_swarm is in), `ai` (the address entry), `ctx` (the peer's session context: its connection and the layer negotiated), `open` (connections dialed and never closed), `nconn`, `readers` (swarm readers started on the peer), `joins`, and `result`.
- **Actions:**
  - `Join`: `libp2p_peer_connect`, outside `src/`, joins when no join succeeded yet, up to `MaxJoins` times (spec_modelled).
  - `Dial`: one address of the loop with `libp2p_conn_dialer_get_connection`. It gives no connection and the loop moves on, or it gives one: the session context is created or reused, and `libp2p_swarm_add_peer` starts a reader. With no address left, join returns 0.
  - `Negotiate(wait, layer, next)`: one layer's ready wait, instantiated as `Multistream`, `Secio`, `SecioMultistream` and `Yamux`. On a timeout join_swarm returns 0 and closes nothing.
  - `Identify`: without an identify handler, or when `yamux_channel_new` gives no channel, join returns 1; otherwise multistream on the channel must be ready within 10 s, or join returns 0 with the session up.
- The layers' internals are abstracted to ready or timeout: what each negotiates is modelled in the Yamux modules or is byte encoding.

## Runs

| Run | cfg | Expect | Checks |
|---|---|---|---|
| yamux_forged | YamuxSession.cfg | pass | TypeOK, LiveIdsUnique, SynParity |
| yamux_handshake | YamuxSession_HandshakeCompletes.cfg | violation | HandshakeCompletes |
| reader_order | YamuxChannelReader_FifoDelivery.cfg | violation | FifoDelivery |
| api_pool | ApiConnPool.cfg | pass | CountNeverOver |
| api_safety | ApiConnPool_ServerSafe.cfg | violation | ServerSafe |
| api_request | ApiRequest_RequestAnswered.cfg | violation | RequestAnswered |
| journal_time_adjust | Journal_TimeAdjustAdopted.cfg | violation | TimeAdjustAdopted |
| journal_split_read | Journal_NoCrash.cfg | violation | NoCrash |
| dht_routing | DhtRouting.cfg | pass | StreamInSync, CallsReturn |
| dht_late_reply | DhtRouting_ProvidersAreClaims.cfg | violation | ProvidersAreClaims |
| dht_find_node_miss | DhtRouting_PromptStaysConnected.cfg | violation | PromptStaysConnected |
| dialer_join | DialerJoin_OneSessionPerPeer.cfg | violation | OneSessionPerPeer |

### What the passing runs show

- **yamux_forged.** The two sessions run the code and may receive one forged frame. Then:
  - no two live table entries of a session carry the same id, whether the ids come from `nextid` or from the remote;
  - every SYN a peer sends has its role's parity.
- **api_pool.** `conns_count` never exceeds the number of allocated entries, across failures, quits and `api_stop`. The limit test therefore never refuses a client while an entry is free.
- **dht_routing.** Three routing calls, with every combination of initial connections:
  - every call returns (CallsReturn), whatever loop it runs and whichever reads time out;
  - once a call has returned, the stream of every responder that answers in time is empty both ways and its handler idle (StreamInSync), so the next call's echo and reply are its own.

### What the violation runs show (findings)

- **yamux_handshake.** HandshakeCompletes says that opening a stream completes on both peers: neither crashes, and neither rejects the ACK. Two bugs break it, and TLC reports the first it reaches:
  - The ACK of a stream this peer opened is rejected with -EPROTO. `yamux_decode` compares the *table* state with syn_sent (session.c:308), but only the channel context is ever set to syn_sent (stream.c:143). The spec says syn-sent + ACK → established.
  - `get_flags` sends SYN on the first data frame of a stream, so a stream can be opened by writing to it. The acceptor then processes that frame on a zeroed, detached `yamux_stream` (session.c:349-356) and dereferences its NULL `stream` (stream.c:462-465).
- **reader_order.** notify tests `read_running` (stream.c:412) before the thread it started sets the flag (stream.c:379). Two readers then run on one channel and marshal its messages out of order.
  - FifoDelivery states the spec's promise as the abstract module `ChannelDelivery`: payloads are handed to the protocol in arrival order, each once, and eventually.
  - `YamuxChannelReader` instantiates it with `arrived <- written` and `delivered <- handled`, and TLC checks `Delivery!Spec` as a PROPERTY. This is a refinement check.
  - It fails on the order first.
  - With in-order delivery relaxed, it fails on liveness too. A reader passes its last emptiness test (stream.c:381), a payload is written and notified while `read_running` is still 1, and then the reader clears the flag (stream.c:402). That payload is never read unless another frame arrives.
- **api_safety.** ServerSafe says the server survives its connection handling and `api_stop`. Three code paths break it:
  - A failed `pthread_create` decrements `conns_count` (api.c:670), or a failed `connection_param` allocation leaves an orphan entry. The next clients pass the limit test while every entry is taken, and `conns[max_conns]` is written (api.c:644-645).
  - `api_connections_cleanup` dereferences every entry, NULL or not, once `conns_count > 0` (api.c:598-600).
  - A connection thread cancelled by `api_stop` on its way out dies in `close()` while holding `conns_lock` (api.c:580-581).

  TLC reports the first it reaches. With `Stop = FALSE` only the overflow remains, and with `MaxFailures = 0` only the two `api_stop` paths.
- **api_request.** RequestAnswered says every request whose headers were read eventually reaches `quit` having written a response (HTTP 500, 404, or a 200 whose chunked body decodes to the response), and that a body read_func reported as read is the body the client sent. Six paths break it:
  - **Chunked overrun.** A client writes one chunk `1 CRLF a CRLF` with the headers, then the last-chunk line in two writes. `strtol` reads `0` followed by the stale payload byte `a` as 0x0a, `pos` exceeds `buf_size`, `buf_size -= pos` wraps (api.c:100), and the memmove (api.c:109) crashes the process. How TCP splits the writes decides it.
  - **Empty chunked body.** When only the headers came in the first read, `buf_size` is 0 and read_chunked returns success with an empty body (api.c:81).
  - **Reset under read_all.** read's -1 becomes `SIZE_MAX` in a `size_t` (api.c:154, 170-171), and the `realloc`/`memcpy` crash.
  - **boundary_find spins.** For the body `--y`, the first `--` is not followed by the boundary, and `str_tok(str, "--")` (api.c:249) finds it again forever.
  - **boundary_size overruns.** For a body with no closing delimiter, `memmem`'s limit (api.c:510) does not stop it at the end of the body.
  - **Empty response.** For a response body of size 0, `api_send_resp_chunks` never enters its loop (api.c:345) and writes no terminating chunk after a header that announced chunked encoding.

  TLC reports the shortest of these, the empty chunked body; the others are paths of the same actions, read off the code.
- **journal_time_adjust.** TimeAdjustAdopted says every TIME_ADJUST that `build_todo` queued took effect: the record then carries the remote's timestamp. `build_todo` queues one for a local timestamp of 0 and a non-zero remote one (journal.c:255-258), so that the record adopts the remote's time; the spec, too, has TIME_ADJUST adopt the remote's timestamp. `adjust_time` changes a record only when its timestamp is later than the remote's (journal.c:290), and 0 never is. TLC's 4-state trace: node a holds h2 at 0, node b holds it at 1 and sends it, and after a's handler the record is still 0 with the adjustment queued. Replication never repairs a zero timestamp.
- **journal_split_read.** When the header arrives in a read of its own, the body buffer is freed inside the loop (journal.c:332), decoded, and freed again (journal.c:386, or 347 on the clock-skew path).
- **dht_late_reply** (`Slow = {r2}`). ProvidersAreClaims says find_providers returns only providers some responder or the local store claimed for that key, and get_value asks only such providers. TLC's 16-state trace: the Client pings r2 and its echo read times out; it announces k2, and r2 echoes that ADD_PROVIDER after the Client gave up; find_providers(k1) then reads that echo as the GET_PROVIDERS reply (online.c:78) and returns the Client as a provider of k1, which nobody claimed. `receive_message` takes whatever message is next (dht_protocol.c:513-519), and nothing pairs a reply with its request.
- **dht_find_node_miss** (`Slow = {}`: both responders answer in time). PromptStaysConnected says a responder that answers every request within the 5-second read never loses its connected mark. TLC's 9-state trace: find_peer(far) asks r2, which does not know `far`. `handle_find_node` sends no reply (dht_protocol.c:424-437), where the spec says it answers with closer peers. The Client's read times out and `ask_peer_for_peer` marks r2 NOT_CONNECTED (online.c:170).
- **dialer_join.** OneSessionPerPeer says the peer has at most one open connection and one swarm reader, as spec.md says ("a failed phase closes the underlying stream"; "every connected peer has exactly one secio channel and one yamux session"). TLC finds a 6-state trace: the first join dials, hands the peer to the swarm (dialer.c:122), and times out in multistream; join_swarm returns 0 without closing anything (dialer.c:124-126); the caller joins again and dials a second connection into the same session context. The same happens after a secio, yamux or identify timeout.

### Mutants

Each property of a passing run has a mutant. The mutant is an alternative definition placed just before the definition it replaces, and it is the plausible bug TLC must catch. For example:

- a parity check that accepts any remote id breaks LiveIdsUnique;
- a quit path without `conns_count--` breaks CountNeverOver;
- a `receive_message` that leaves the reply in the buffer breaks StreamInSync;
- a find_peer loop that skips an unconnected peer without advancing breaks CallsReturn.

`PROJECT.json` lists them all.

## Bounds and why they are enough

- **YamuxSession.**
  - `Backlog = 2` is enough to fill the table and reach "backlog full"; entries are never released within a session, as in the code.
  - `MaxId = 4` gives each role two ids, so a forged or own id can collide with a live one.
  - `MaxNet = 2` frames can be in flight per direction.
  - `MaxCalls = 4` local calls in total; with `MaxForged = 1`, that is enough to open, write, close and reset streams of both peers and to interleave them with received frames. Every Recv action fires.
  - The violation runs use `MaxForged = 0`: the code alone reaches them.
- **YamuxChannelReader.** 3 payloads and 3 thread handles. Two readers can overlap while a third is started late.
- **ApiConnPool.**
  - `MaxConns = 2`: one entry can be free while another is taken.
  - 3 accepts, so the table can fill and overflow.
  - 1 failure, which is enough to break the count.
  - `Stop` is on in the runs about stopping.
- **ChunkedBody** (through ApiRequest). `Cap = 8` bytes of `buf` and the one-chunk body `a`, whose payload byte is also a hex digit. That is what lets stale bytes parse.
- **ApiRequest.** `Cap = 8`. One chunked body (`a`), the well-formed multipart body `--q CRLF CRLF y CRLF --q-- CRLF`, a body `--y` whose `--` is not the boundary, and a truncated multipart body. Responses of 0, 1 and 3 bytes with `MaxChunk = 2`, so a response is empty, one short chunk, or a full chunk and a short one. Every split of the headers' read and of the client's writes, with and without a reset, is explored.
- **DialerJoin.** `NAddrs = 2`, so the address loop can skip an unanswering address and can run out; `MaxJoins = 2`, one retry, which is all the finding needs; `MaxConns = 3` connections in all; `HasIdentify = TRUE`, so the identify channel's timeout is reachable.
- **DhtRouting.**
  - One Client, a prompt responder r1 and a slow responder r2, and a peer `far` that only the peerstores know.
  - Three keys:
    - k1 is held by r1;
    - k2 is held by the Client;
    - k3 has local provider records for r2 and for `far`.
  - So local and remote provider lookups both hit and miss, and get_value takes the local, connected and connecting paths.
  - r1 knows the Client, r2 and `far`; r2 knows only the Client. So FIND_NODE both hits and misses.
  - `MaxOps = 3` calls: a first call whose reply comes late, a second that leaves a stale message behind, and a third that reads it.
  - Every initial combination of connected responders is checked.
- **Journal.**
  - Two nodes, with node b's clock 2 ahead and a tolerance of 1, so one direction is skewed and the other is not.
  - Two hashes, initial timestamps 0..2, and a time bound of 2. These cover the zero, equal, earlier and later cases of `build_todo`; the zero case is the one the finding needs, and the skew makes a Tick necessary before b's message is accepted.

`CHECK_DEADLOCK FALSE` is set where the modelled system really stops: a closed session with nothing in flight, a channel once every payload is handled, a server after `api_stop` or after serving its clients, a connection thread at `quit` or crashed, and nodes whose time bound is reached.

## Fairness

`DhtRouting` has weak fairness on every Client step and read, and on each responder's actions. These are threads that run while they can, and every read in the code has a 5-second timeout. Nothing is assumed of the Client's choice to start a call. CallsReturn depends on this fairness.

`YamuxChannelReader` also states fairness. It has weak fairness on the decoder thread and on each reader thread, because these are OS threads that run whenever they can run. Only FifoDelivery's liveness part depends on it. `ApiRequest` has weak fairness on the connection thread, which runs whenever it can and whose `select` never blocks more than 5 seconds, and on the client's `Send`: RequestAnswered is about a client that writes its whole request. The client's `Close` and `Reset` are not forced. `ChunkedBody` states none of its own.

## Not modelled

- **PUT_VALUE and `nearest_x`.** Nothing in `src/` sends PUT_VALUE, and `nearest_x` is never called.
- **Offline routing** (`k_routing.c`). Nothing in `src/` constructs it, and its FindPeer calls `search_kademlia`, which is not in `src/`. The rest are stubs returning success or lookups in the local providerstore, with no state of their own to check.
- **The rest of api.c's request handling.** `read_content_length`, the request-line and header parsing, the GET redirect and the command dispatch. A short `writev` in `api_send_resp_chunks` is listed as a hazard.
- **get_value's `buffer_size == 0`** tests the pointer (online.c:445). The model keeps the behaviour; no run is spent on it.
- **Inside the dialer.** The transport dialers' socket code, `dialer_new`/`free` and `get_stream`, and the swarm and `libp2p_peer_connect` (outside `src/`). A reused session context left unlinked from the new connection (dialer.c:106-109) is a hazard without a property: what it breaks is inside the swarm's reader.
- **Secio codecs.** Pure byte encoding, with no state to check.
- **Blockstore, daemon, init and name publishing.** File and process I/O.
- **Inside yamux:**
  - Window sizes. `yamux_stream_write` never consults the remote's window (a hazard without a property).
  - The unlocked window in `yamux_stream_close`. The close's `est` test (stream.c:160) and its `closing` assignment (stream.c:171) are one step here. So the decoder thread answering a FIN (session.c:296-297) cannot run between them, and two FINs for one stream are not reachable. Splitting the close needs a run of its own. It is listed as a hazard with this note.
  - The out-of-bounds read of `streams[f.streamid]` (session.c:349). The copy it reads is overwritten field by field before use, so it changes no state.
