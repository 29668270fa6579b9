------------------------- MODULE YamuxChannelReader -------------------------
(***************************************************************************)
(* Delivery of a yamux channel's payload to its child protocol            *)
(* (src/libp2p/yamux/stream.c).  The session's decoder thread appends     *)
(* each data payload to the channel's thread-safe buffer and calls        *)
(* libp2p_yamux_notify_child_stream_has_data, which starts a reader       *)
(* thread (yamux_read_method) unless the channel's read_running flag is   *)
(* set.  A reader sets read_running, reads and marshals messages while    *)
(* the buffer is non-empty, then clears read_running and exits.           *)
(*                                                                         *)
(* The flag is a plain int read and written by different threads with no  *)
(* lock: the test in notify and the assignment in yamux_read_method are    *)
(* separate steps, and each thread step below is one such access.          *)
(***************************************************************************)
EXTENDS Naturals, Sequences, SequencesExt

CONSTANTS
    Threads,   \* handles for the reader threads pthread_create may start
    MaxMsgs    \* number of payloads the decoder delivers on the channel

ASSUME MaxMsgs \in Nat /\ Threads # {}

VARIABLES
    buf,       \* channelContext->buffer: the payloads not yet read, in order
    running,   \* channelContext->read_running (an int, 0 or 1)
    pc,        \* pc[t]: where reader thread t is
    msg,       \* msg[t]: the message reader t has read and not yet marshalled
    dpc,       \* the decoder thread: "write" or "notify"
    written,   \* payloads written so far (payload k is the number k)
    handled    \* history: payloads passed to libp2p_protocol_marshal, in order

vars == <<buf, running, pc, msg, dpc, written, handled>>

Msgs == 1 .. MaxMsgs
PCs == {"none", "start", "loop", "read", "marshal", "exit", "done"}
NoMsg == 0

-----------------------------------------------------------------------------
(* The decoder thread: yamux_stream_process on a data frame                *)

\* threadsafe_buffer_write(channelContext->buffer, incoming, incoming_size)
BufferWrite ==
    /\ dpc = "write" /\ written < MaxMsgs
    /\ buf' = Append(buf, written + 1)
    /\ written' = written + 1
    /\ dpc' = "notify"
    /\ UNCHANGED <<running, pc, msg, handled>>

\* libp2p_yamux_notify_child_stream_has_data: start a reader unless the
\* flag says one runs
Notify ==
    /\ dpc = "notify"
    /\ dpc' = "write"
    /\ \/ /\ running = 0
          /\ \E t \in Threads : /\ pc[t] = "none"
                                /\ pc' = [pc EXCEPT ![t] = "start"]
       \/ /\ running # 0
          /\ UNCHANGED pc
    /\ UNCHANGED <<buf, running, msg, written, handled>>

-----------------------------------------------------------------------------
(* A reader thread: yamux_read_method                                      *)

\* context->read_running = 1
Start(t) ==
    /\ pc[t] = "start"
    /\ running' = 1
    /\ pc' = [pc EXCEPT ![t] = "loop"]
    /\ UNCHANGED <<buf, msg, dpc, written, handled>>

\* while (context->buffer->buffer_size > 0)
LoopTest(t) ==
    /\ pc[t] = "loop"
    /\ pc' = [pc EXCEPT ![t] = IF buf # <<>> THEN "read" ELSE "exit"]
    /\ UNCHANGED <<buf, running, msg, dpc, written, handled>>

\* child_stream->read(..., &message, 5): takes the next message off the
\* buffer, or, when another reader emptied it meanwhile, times out and
\* returns false
ChildRead(t) ==
    /\ pc[t] = "read"
    /\ \/ /\ buf # <<>>
          /\ msg' = [msg EXCEPT ![t] = Head(buf)]
          /\ buf' = Tail(buf)
          /\ pc' = [pc EXCEPT ![t] = "marshal"]
       \/ /\ buf = <<>>
          /\ pc' = [pc EXCEPT ![t] = "loop"]
          /\ UNCHANGED <<msg, buf>>
    /\ UNCHANGED <<running, dpc, written, handled>>

\* libp2p_protocol_marshal(message, ...), then the message is freed
Marshal(t) ==
    /\ pc[t] = "marshal"
    /\ handled' = Append(handled, msg[t])
    /\ msg' = [msg EXCEPT ![t] = NoMsg]
    /\ pc' = [pc EXCEPT ![t] = "loop"]
    /\ UNCHANGED <<buf, running, dpc, written>>

\* context->read_running = 0; return NULL
Exit(t) ==
    /\ pc[t] = "exit"
    /\ running' = 0
    /\ pc' = [pc EXCEPT ![t] = "done"]
    /\ UNCHANGED <<buf, msg, dpc, written, handled>>

-----------------------------------------------------------------------------

Init ==
    /\ buf = <<>>
    /\ running = 0
    /\ pc = [t \in Threads |-> "none"]
    /\ msg = [t \in Threads |-> NoMsg]
    /\ dpc = "write"
    /\ written = 0
    /\ handled = <<>>

ReaderStep(t) == Start(t) \/ LoopTest(t) \/ ChildRead(t) \/ Marshal(t) \/ Exit(t)

Next == BufferWrite \/ Notify \/ \E t \in Threads : ReaderStep(t)

\* every runnable thread is eventually scheduled
Fairness == WF_vars(BufferWrite \/ Notify) /\ \A t \in Threads : WF_vars(ReaderStep(t))

Spec == Init /\ [][Next]_vars /\ Fairness

-----------------------------------------------------------------------------
(* Properties                                                              *)

TypeOK ==
    /\ buf \in Seq(Msgs)
    /\ running \in {0, 1}
    /\ pc \in [Threads -> PCs]
    /\ msg \in [Threads -> Msgs \cup {NoMsg}]
    /\ dpc \in {"write", "notify"}
    /\ written \in 0 .. MaxMsgs
    /\ handled \in Seq(Msgs)

\* The abstract channel: the payloads written to the buffer are the ones
\* that arrived, and the marshalled ones are the ones handed over.
Delivery == INSTANCE ChannelDelivery WITH arrived <- written, delivered <- handled

\* The reader threads implement the channel yamux promises its protocols:
\* the messages notify hands to libp2p_protocol_marshal are the channel's
\* messages in the order they arrived, each once, and none is left unread.
FifoDelivery == Delivery!Spec

====
