----------------------------- MODULE ApiConnPool -----------------------------
(***************************************************************************)
(* The connection table of the HTTP API server (src/libipfs/core/api.c).  *)
(* api_listen_thread accepts clients and gives each a slot of conns[] and *)
(* a thread (api_connection_thread) that frees the slot when it quits;    *)
(* api_stop cancels the listener and calls api_connections_cleanup, which *)
(* cancels the connection threads and frees the table.  conns_lock guards *)
(* the table and conns_count, but the limit test of the listener and the  *)
(* first and last reads of a connection thread are made without it.       *)
(*                                                                         *)
(* Each section between pthread_mutex_lock and unlock is one action.       *)
(* pthread_cancel is deferred: a thread dies at its next cancellation      *)
(* point (accept, select, read, close).  A dereference of a NULL or freed  *)
(* table entry ends the process (crashed).                                 *)
(***************************************************************************)
EXTENDS Integers, FiniteSets, FiniteSetsExt

CONSTANTS
    MaxConns,     \* api_context->max_conns, the size of conns[]
    MaxAccepts,   \* number of clients that connect
    MaxFailures,  \* number of allocation or pthread_create failures
    Stop          \* whether api_stop is called

ASSUME MaxConns \in Nat \ {0} /\ MaxAccepts \in Nat /\ MaxFailures \in Nat
ASSUME Stop \in BOOLEAN

VARIABLES
    conns,      \* conns[i]: "null" or "conn" (an allocated struct s_conns)
    thread,     \* thread[i]: where the connection thread of slot i is
    canc,       \* canc[i]: a cancel is pending for that thread
    arr,        \* the conns array is allocated (api_connections_cleanup frees it)
    count,      \* api_context->conns_count
    lpc,        \* the listener thread
    spc,        \* the thread calling api_stop
    deadLock,   \* conns_lock is held by a thread that was cancelled
    accepted,   \* clients accepted so far
    fails,      \* failures so far
    oob,        \* conns[max_conns] has been written
    crashed     \* the process dereferenced NULL or freed memory

vars == <<conns, thread, canc, arr, count, lpc, spc, deadLock, accepted,
          fails, oob, crashed>>

Slots == 0 .. MaxConns - 1
ThreadPCs == {"none", "start", "serve", "quit", "quitlock"}

\* the process is running and conns_lock can be taken
Alive == ~crashed
Lockable == ~crashed /\ ~deadLock

Crash == crashed' = TRUE

\* the slot a thread reads through conns[params->index] is gone
Gone(i) == ~arr \/ conns[i] = "null"

-----------------------------------------------------------------------------
(* api_listen_thread                                                       *)

\* socket_accept4 returns a client (before api_stop)
Accept ==
    /\ Alive /\ lpc = "accept" /\ spc = "run" /\ accepted < MaxAccepts
    /\ accepted' = accepted + 1
    /\ lpc' = "check"
    /\ UNCHANGED <<conns, thread, canc, arr, count, spc, deadLock, fails, oob, crashed>>

\* if (conns_count >= max_conns) { close(s); continue; }  (no lock held)
CheckLimit ==
    /\ Alive /\ lpc = "check"
    /\ lpc' = IF count >= MaxConns THEN "accept" ELSE "locked"
    /\ UNCHANGED <<conns, thread, canc, arr, count, spc, deadLock, accepted, fails, oob, crashed>>

\* for (i = 0; i < max_conns && conns[i]; i++);  max_conns if all taken
FreeSlot == Min({i \in Slots : conns[i] = "null"} \cup {MaxConns})

\* the locked body of the accept loop
Register ==
    LET i == FreeSlot IN
    /\ Lockable /\ lpc = "locked"
    /\ \/ /\ ~arr                \* conns freed by a cleanup meanwhile
          /\ Crash
          /\ UNCHANGED <<conns, thread, count, fails, oob, lpc>>
       \/ /\ arr /\ i = MaxConns \* conns[max_conns] = malloc(...)
          /\ oob' = TRUE /\ Crash
          /\ UNCHANGED <<conns, thread, count, fails, lpc>>
       \/ /\ arr /\ i < MaxConns
          /\ lpc' = "accept"
          /\ UNCHANGED <<oob, crashed>>
          /\ \/ /\ fails < MaxFailures   \* malloc of the entry fails
                /\ fails' = fails + 1
                /\ UNCHANGED <<conns, thread, count>>
             \/ /\ fails < MaxFailures   \* malloc of connection_param fails
                /\ fails' = fails + 1
                /\ conns' = [conns EXCEPT ![i] = "conn"]
                /\ UNCHANGED <<thread, count>>
             \/ /\ fails < MaxFailures   \* pthread_create fails
                /\ fails' = fails + 1
                /\ count' = count - 1
                /\ UNCHANGED <<conns, thread>>
             \/ /\ conns' = [conns EXCEPT ![i] = "conn"]
                /\ thread' = [thread EXCEPT ![i] = "start"]
                /\ count' = count + 1
                /\ UNCHANGED fails
    /\ UNCHANGED <<canc, arr, spc, deadLock, accepted>>

-----------------------------------------------------------------------------
(* api_connections_cleanup, called under conns_lock by api_stop and by    *)
(* the listener when accept fails                                          *)

Cleanup ==
    /\ arr' = FALSE
    /\ IF count > 0 /\ arr
       THEN \* conns[i]->pthread on a NULL entry, or pthread_cancel on the
            \* uninitialised pthread of an entry that never got a thread
            \/ /\ \E i \in Slots : conns[i] = "null" \/ thread[i] = "none"
               /\ Crash
               /\ UNCHANGED <<conns, thread, canc, count>>
            \/ /\ \A i \in Slots : conns[i] = "conn"
               /\ conns' = [i \in Slots |-> "null"]
               \* a thread blocked in select or read dies now; the others
               \* run on with the cancel pending
               /\ thread' = [i \in Slots |-> IF thread[i] = "serve" THEN "none" ELSE thread[i]]
               /\ canc' = [i \in Slots |-> thread[i] \notin {"none", "serve"}]
               /\ count' = 0
               /\ UNCHANGED crashed
       ELSE UNCHANGED <<conns, thread, canc, count, crashed>>

\* api_stop: shutdown(socket) and pthread_cancel(api_thread), then cleanup
StopCancel ==
    /\ Alive /\ Stop /\ spc = "run"
    /\ spc' = "cleanup"
    /\ UNCHANGED <<conns, thread, canc, arr, count, lpc, deadLock, accepted, fails, oob, crashed>>

StopCleanup ==
    /\ Lockable /\ spc = "cleanup"
    /\ spc' = "done"
    /\ Cleanup
    /\ UNCHANGED <<lpc, deadLock, accepted, fails, oob>>

\* After the shutdown the listener is cancelled in accept, or accept fails
\* first and the listener breaks out of its loop into the cleanup.
ListenerCancelled ==
    /\ Alive /\ lpc = "accept" /\ spc # "run"
    /\ lpc' = "done"
    /\ UNCHANGED <<conns, thread, canc, arr, count, spc, deadLock, accepted, fails, oob, crashed>>

ListenerBreak ==
    /\ Alive /\ lpc = "accept" /\ spc # "run"
    /\ lpc' = "cleanup"
    /\ UNCHANGED <<conns, thread, canc, arr, count, spc, deadLock, accepted, fails, oob, crashed>>

ListenerCleanup ==
    /\ Lockable /\ lpc = "cleanup"
    /\ lpc' = "done"
    /\ Cleanup
    /\ UNCHANGED <<spc, deadLock, accepted, fails, oob>>

-----------------------------------------------------------------------------
(* api_connection_thread for slot i                                        *)

\* s = conns[params->index]->socket, then socket_read_select4 (a
\* cancellation point)
ConnStart(i) ==
    /\ Alive /\ thread[i] = "start"
    /\ \/ /\ Gone(i) /\ Crash
          /\ UNCHANGED <<thread, canc>>
       \/ /\ ~Gone(i)
          /\ thread' = [thread EXCEPT ![i] = IF canc[i] THEN "none" ELSE "serve"]
          /\ canc' = [canc EXCEPT ![i] = FALSE]
          /\ UNCHANGED crashed
    /\ UNCHANGED <<conns, arr, count, lpc, spc, deadLock, accepted, fails, oob>>

\* the request is served, or the client times out: goto quit
ConnServed(i) ==
    /\ Alive /\ thread[i] = "serve"
    /\ thread' = [thread EXCEPT ![i] = "quit"]
    /\ UNCHANGED <<conns, canc, arr, count, lpc, spc, deadLock, accepted, fails, oob, crashed>>

\* quit: inet_ntop(conns[params->index]->ipv4, ...) before the lock
ConnQuitRead(i) ==
    /\ Alive /\ thread[i] = "quit"
    /\ \/ /\ Gone(i) /\ Crash /\ UNCHANGED thread
       \/ /\ ~Gone(i) /\ thread' = [thread EXCEPT ![i] = "quitlock"]
          /\ UNCHANGED crashed
    /\ UNCHANGED <<conns, canc, arr, count, lpc, spc, deadLock, accepted, fails, oob>>

\* the quit path with the decrement of conns_count left out
ConnQuitLockedNoDec(i) ==
    /\ Lockable /\ thread[i] = "quitlock" /\ ~canc[i] /\ ~Gone(i)
    /\ thread' = [thread EXCEPT ![i] = "none"]
    /\ conns' = [conns EXCEPT ![i] = "null"]
    /\ UNCHANGED <<canc, count, deadLock, crashed, arr, lpc, spc, accepted, fails, oob>>

\* lock; close(s); free(conns[index]); conns[index] = NULL; count--;
\* unlock.  close is a cancellation point: with a cancel pending the
\* thread dies there, holding the lock.
ConnQuitLocked(i) ==
    /\ Lockable /\ thread[i] = "quitlock"
    /\ thread' = [thread EXCEPT ![i] = "none"]
    /\ canc' = [canc EXCEPT ![i] = FALSE]
    /\ \/ /\ canc[i]
          /\ deadLock' = TRUE
          /\ UNCHANGED <<conns, count, crashed>>
       \/ /\ ~canc[i] /\ Gone(i) /\ Crash
          /\ UNCHANGED <<conns, count, deadLock>>
       \/ /\ ~canc[i] /\ ~Gone(i)
          /\ conns' = [conns EXCEPT ![i] = "null"]
          /\ count' = count - 1
          /\ UNCHANGED <<deadLock, crashed>>
    /\ UNCHANGED <<arr, lpc, spc, accepted, fails, oob>>

-----------------------------------------------------------------------------

\* api_start: the table is allocated and zeroed, the listener started
\* (which sets conns_count = 0)
Init ==
    /\ conns = [i \in Slots |-> "null"]
    /\ thread = [i \in Slots |-> "none"]
    /\ canc = [i \in Slots |-> FALSE]
    /\ arr = TRUE
    /\ count = 0
    /\ lpc = "accept"
    /\ spc = "run"
    /\ deadLock = FALSE
    /\ accepted = 0
    /\ fails = 0
    /\ oob = FALSE
    /\ crashed = FALSE

Next ==
    \/ Accept \/ CheckLimit \/ Register
    \/ StopCancel \/ StopCleanup
    \/ ListenerCancelled \/ ListenerBreak \/ ListenerCleanup
    \/ \E i \in Slots : \/ ConnStart(i) \/ ConnServed(i)
                        \/ ConnQuitRead(i) \/ ConnQuitLocked(i)

Spec == Init /\ [][Next]_vars

-----------------------------------------------------------------------------
(* Properties                                                              *)

TypeOK ==
    /\ conns \in [Slots -> {"null", "conn"}]
    /\ thread \in [Slots -> ThreadPCs]
    /\ canc \in [Slots -> BOOLEAN]
    /\ arr \in BOOLEAN /\ deadLock \in BOOLEAN /\ oob \in BOOLEAN /\ crashed \in BOOLEAN
    /\ count \in -MaxFailures .. MaxConns
    /\ lpc \in {"accept", "check", "locked", "cleanup", "done"}
    /\ spc \in {"run", "cleanup", "done"}
    /\ accepted \in 0 .. MaxAccepts /\ fails \in 0 .. MaxFailures

\* the entries of conns[] that are allocated
Taken == {i \in Slots : conns[i] = "conn"}

\* conns_count never counts a connection that has no entry in conns[]:
\* the listener's increment, the quit path's decrement, the failure paths
\* and the cleanup's reset keep it at or below the allocated entries, so
\* the limit test never turns clients away while entries are free.
CountNeverOver == count <= Cardinality(Taken)

\* The API server survives its own connection handling and api_stop: the
\* accept loop never writes past the end of conns[], api_stop's cleanup never
\* dereferences a NULL or freed entry of conns[], and no cancelled connection
\* thread dies holding conns_lock.
ServerSafe == ~oob /\ ~crashed /\ ~deadLock

====
