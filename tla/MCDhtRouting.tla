----------------------------- MODULE MCDhtRouting -----------------------------
EXTENDS DhtRouting

CONSTANTS c, r1, r2, far, k1, k2, k3

MCResponders == {r1, r2}
MCKeys == {k1, k2, k3}
\* r1 stores k1, the Client k2; nobody stores k3
MCHolds == (c :> {k2}) @@ (r1 :> {k1}) @@ (r2 :> {})
\* the Client's providerstore names r2, and a peer it does not know, for k3
MCLocalProv == (k1 :> {}) @@ (k2 :> {}) @@ (k3 :> {r2, far})
\* r1 has heard of every peer, r2 only of the Client
MCKnown == (r1 :> {c, r2, far}) @@ (r2 :> {c})
\* answers from r2 may come after the reader gave up
MCSlow == {r2}
\* every responder answers in time
MCNoSlow == {}
====
