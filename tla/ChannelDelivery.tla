--------------------------- MODULE ChannelDelivery ---------------------------
(***************************************************************************)
(* What a yamux channel promises the protocol that reads it: the payloads *)
(* that arrive on the channel are handed to the protocol's handler in the *)
(* order they arrived, each exactly once, and every payload that arrived  *)
(* is eventually handed over.  Payload k is the k-th to arrive.           *)
(***************************************************************************)
EXTENDS Naturals, Sequences

CONSTANT MaxMsgs   \* number of payloads that arrive on the channel

VARIABLES
    arrived,     \* payloads that have arrived so far
    delivered    \* payloads handed to the protocol, in the order handed

vars == <<arrived, delivered>>

Init == arrived = 0 /\ delivered = <<>>

\* the next payload arrives on the channel
Arrive ==
    /\ arrived < MaxMsgs
    /\ arrived' = arrived + 1
    /\ UNCHANGED delivered

\* the oldest payload not yet handed over goes to the protocol
Deliver ==
    /\ Len(delivered) < arrived
    /\ delivered' = Append(delivered, Len(delivered) + 1)
    /\ UNCHANGED arrived

Next == Arrive \/ Deliver

Spec == Init /\ [][Next]_vars /\ WF_vars(Deliver)

====
