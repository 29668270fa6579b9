------------------------ MODULE MCYamuxChannelReader ------------------------
(* One channel receiving three payloads; one thread handle per payload,   *)
(* enough for every notify to start a reader.                              *)
EXTENDS YamuxChannelReader

CONSTANTS t1, t2, t3

MCThreads == {t1, t2, t3}
====
