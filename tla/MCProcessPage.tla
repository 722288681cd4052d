--------------------------- MODULE MCProcessPage ---------------------------
(* Small instances of ProcessPage: the configured list is three nodes, of   *)
(* which t1 has a port of its own and t3 is its host without it.            *)
EXTENDS ProcessPage

CONSTANTS t1, t2, t3

ThreeNodes == <<t1, t2, t3>>
HostWithoutPort == [t \in Targets |-> IF t = t1 THEN t3 ELSE t]
=============================================================================
