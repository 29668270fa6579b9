------------------------------ MODULE MCJournal ------------------------------
(* Two nodes, two hashes; node b's clock runs two units ahead.            *)
EXTENDS Journal

CONSTANTS a, b, h1, h2

MCNodes == {a, b}
MCHashes == {h1, h2}
MCHashOrder == <<h1, h2>>
MCSkew == [n \in MCNodes |-> IF n = b THEN 2 ELSE 0]
====
