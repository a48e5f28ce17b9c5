--------------------------- MODULE MCThreatPause ---------------------------
(* Instances of ThreatPause for TLC: two workers, each on its own server,  *)
(* and a single worker.                                                    *)
EXTENDS ThreatPause

CONSTANTS w1, w2, s1, s2

OwnServers == [w \in {w1, w2} |-> IF w = w1 THEN s1 ELSE s2]
OneServer == [w \in {w1} |-> s1]
=============================================================================
