------------------------------- MODULE Journal -------------------------------
(***************************************************************************)
(* Journal replication (src/libipfs/journal/journal.c).  Every node keeps *)
(* a datastore (hash -> timestamp) and a journal of the records it added. *)
(* ipfs_journal_sync sends the last LastN journal records to a            *)
(* replication peer as a JournalMessage stamped with the sender's clock;  *)
(* ipfs_journal_handle_message strips the protocol header, decodes the    *)
(* message, drops it if the clocks differ by more than the tolerance, and *)
(* otherwise builds a todo list (ipfs_journal_build_todo) and applies it: *)
(* ENTRY_NEEDED asks the exchange for the block, TIME_ADJUST lowers the   *)
(* local timestamp to the remote's (ipfs_journal_adjust_time).            *)
(*                                                                         *)
(* Time is one global counter; a node's clock is that plus its skew.      *)
(* Messages in flight form a set: they may be delayed, reordered or never  *)
(* delivered.                                                              *)
(***************************************************************************)
EXTENDS Integers, Sequences, FiniteSets, FiniteSetsExt

CONSTANTS
    Nodes,      \* the nodes, each a replication peer of the others
    Hashes,     \* content hashes
    HashOrder,  \* a sequence of Hashes: the order records entered journals
    Skew,       \* Skew[n]: how far n's clock is ahead of true time
    Tolerance,  \* the clock guard of handle_message (300 seconds)
    LastN,      \* records per message (ipfs_journal_get_last(..., 10))
    MaxTime,    \* bound on true time
    InitTimes   \* timestamps a datastore record may carry initially

ASSUME Tolerance \in Nat /\ LastN \in Nat \ {0} /\ MaxTime \in Nat
ASSUME InitTimes \subseteq Nat

VARIABLES
    now,          \* true time
    ds,           \* ds[n][h]: timestamp of h in n's datastore, or Absent
    jr,           \* jr[n]: n's journal records <<[hash, ts]>>, oldest first
    msgs,         \* JournalMessages in flight
    up,           \* up[n]: n's process is running
    lastConnect,  \* lastConnect[n][m]: n's ReplicationPeer of m
    lastJT,       \* lastJournalTime[n][m]
    todos         \* todos[n]: the todo vector of the last message n handled

vars == <<now, ds, jr, msgs, up, lastConnect, lastJT, todos>>

Absent == -1
Times == 0 .. MaxTime + Max({Skew[n] : n \in Nodes})
Record == [hash : Hashes, ts : Times]
Message == [from : Nodes, to : Nodes, cur : Times, start : Times, end : Times,
            ent : SUBSET Record]
Todo == [action : {"ENTRY_NEEDED", "TIME_ADJUST"}, hash : Hashes,
         local : Times \cup {Absent}, remote : Times]

\* os_utils_gmtime() on node n
Clock(n) == now + Skew[n]

-----------------------------------------------------------------------------
(* Sending: ipfs_journal_sync                                              *)

\* ipfs_journal_get_last(datastore, LastN): the newest LastN records
GetLast(n) == LET k == Len(jr[n]) IN SubSeq(jr[n], Max({1, k - LastN + 1}), k)

\* the JournalMessage built from the records: end_epoch the largest
\* timestamp, start_epoch the smallest, current_epoch the sender's clock
BuildMessage(n, m, recs) ==
    LET ts == {recs[i].ts : i \in 1 .. Len(recs)} IN
    [from |-> n, to |-> m, cur |-> Clock(n), start |-> Min(ts), end |-> Max(ts),
     ent |-> {recs[i] : i \in 1 .. Len(recs)}]

\* With no records only lastConnect is updated.  Otherwise the message is
\* written (ipfs_journal_send_message, which may fail to connect or write)
\* and on success lastConnect and lastJournalTime are updated.
Sync(n, m) ==
    /\ up[n] /\ n # m
    /\ LET recs == GetLast(n) IN
       IF recs = <<>>
       THEN /\ lastConnect' = [lastConnect EXCEPT ![n][m] = Clock(n)]
            /\ UNCHANGED <<msgs, lastJT>>
       ELSE LET msg == BuildMessage(n, m, recs) IN
            \/ /\ msgs' = msgs \cup {msg}
               /\ lastConnect' = [lastConnect EXCEPT ![n][m] = msg.cur]
               /\ lastJT' = [lastJT EXCEPT ![n][m] = msg.end]
            \/ UNCHANGED <<msgs, lastConnect, lastJT>>
    /\ UNCHANGED <<now, ds, jr, up, todos>>

-----------------------------------------------------------------------------
(* Receiving: ipfs_journal_handle_message                                 *)

\* if (llabs(start_time - message->current_epoch) > 300) drop
ClockOk(n, msg) == Clock(n) - msg.cur <= Tolerance /\ msg.cur - Clock(n) <= Tolerance

\* ipfs_journal_build_todo: absent hashes are needed; a present one gets a
\* TIME_ADJUST when the local timestamp is 0 or later than the remote's
BuildTodo(n, msg) ==
    LET local(e) == ds[n][e.hash] IN
    {[action |-> "ENTRY_NEEDED", hash |-> e.hash, local |-> Absent, remote |-> e.ts] :
        e \in {e \in msg.ent : local(e) = Absent}}
    \cup
    {[action |-> "TIME_ADJUST", hash |-> e.hash, local |-> local(e), remote |-> e.ts] :
        e \in {e \in msg.ent : /\ local(e) # Absent
                               /\ \/ local(e) = 0 /\ e.ts # 0
                                  \/ e.ts # 0 /\ e.ts < local(e)}}

\* ipfs_journal_adjust_time: the new local timestamp
AdjustTime(local, remote) ==
    IF remote # 0 /\ local > remote THEN remote ELSE local

\* the datastore after the todo loop.  ENTRY_NEEDED calls GetBlockAsync;
\* when it hands back a block, adjust_time finds no datastore record and
\* changes nothing.
ApplyTodo(n, td) ==
    [h \in Hashes |->
        IF \E t \in td : t.action = "TIME_ADJUST" /\ t.hash = h
        THEN AdjustTime(ds[n][h], (CHOOSE t \in td : t.action = "TIME_ADJUST" /\ t.hash = h).remote)
        ELSE ds[n][h]]

\* The journal header and the message come in one read ("joined": the
\* protobuf is decoded from one byte past the buffer) or in two ("split":
\* the second read's buffer is freed before it is decoded, then freed again
\* at the end).  Either way the decode may fail on the bytes it sees, and
\* the second free may abort the process.
HandleMessage(n, msg) ==
    /\ up[n] /\ msg \in msgs /\ msg.to = n
    /\ msgs' = msgs \ {msg}
    /\ \E framing \in {"joined", "split"}, decoded \in BOOLEAN, abort \in BOOLEAN :
         /\ abort => framing = "split"
         /\ IF decoded /\ ClockOk(n, msg)
            THEN LET td == BuildTodo(n, msg) IN
                 /\ todos' = [todos EXCEPT ![n] = td]
                 /\ ds' = [ds EXCEPT ![n] = ApplyTodo(n, td)]
            ELSE UNCHANGED <<ds, todos>>
         /\ up' = [up EXCEPT ![n] = ~(decoded /\ abort)]
    /\ UNCHANGED <<now, jr, lastConnect, lastJT>>

\* true time advances
Tick ==
    /\ now < MaxTime
    /\ now' = now + 1
    /\ UNCHANGED <<ds, jr, msgs, up, lastConnect, lastJT, todos>>

-----------------------------------------------------------------------------

\* the journal records of the hashes present, in HashOrder
JournalOf(d) ==
    LET present == SelectSeq(HashOrder, LAMBDA h : d[h] # Absent) IN
    [i \in 1 .. Len(present) |-> [hash |-> present[i], ts |-> d[present[i]]]]

\* datastores hold any timestamps; each journal records what was added
Init ==
    /\ now = 0
    /\ ds \in [Nodes -> [Hashes -> InitTimes \cup {Absent}]]
    /\ jr = [n \in Nodes |-> JournalOf(ds[n])]
    /\ msgs = {}
    /\ up = [n \in Nodes |-> TRUE]
    /\ lastConnect = [n \in Nodes |-> [m \in Nodes |-> 0]]
    /\ lastJT = [n \in Nodes |-> [m \in Nodes |-> 0]]
    /\ todos = [n \in Nodes |-> {}]

Next ==
    \/ \E n, m \in Nodes : Sync(n, m)
    \/ \E n \in Nodes, msg \in msgs : HandleMessage(n, msg)
    \/ Tick

Spec == Init /\ [][Next]_vars

-----------------------------------------------------------------------------
(* Properties                                                              *)

TypeOK ==
    /\ now \in 0 .. MaxTime
    /\ ds \in [Nodes -> [Hashes -> Times \cup {Absent}]]
    /\ jr \in [Nodes -> Seq(Record)]
    /\ msgs \subseteq Message
    /\ up \in [Nodes -> BOOLEAN]
    /\ lastConnect \in [Nodes -> [Nodes -> Times]]
    /\ lastJT \in [Nodes -> [Nodes -> Times]]
    /\ todos \in [Nodes -> SUBSET Todo]

\* Every TIME_ADJUST that build_todo queued took effect: after a message
\* is handled, each hash it scheduled for adjustment carries the remote's
\* timestamp.  build_todo queues one for a local timestamp of 0 and a
\* non-zero remote one, so that the record adopts the remote's time
\* (journal.c:255-258); adjust_time then changes only a timestamp later
\* than the remote's (journal.c:290), and 0 never is.
TimeAdjustAdopted ==
    \A n \in Nodes : \A t \in todos[n] :
        t.action = "TIME_ADJUST" => ds[n][t.hash] = t.remote

\* Handling a journal message never aborts the receiving process.
NoCrash == \A n \in Nodes : up[n]

====
