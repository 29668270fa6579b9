--------------------------- MODULE MCYamuxSession ---------------------------
(* Two peers, a client and a server, over one connection.                 *)
EXTENDS YamuxSession

CONSTANTS c, s

MCPeers == {c, s}
MCServer == s
====
