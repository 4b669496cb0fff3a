--------------------------- MODULE MCPaxosStable ---------------------------
(* Small instances of PaxosStable for TLC.                                 *)
EXTENDS PaxosStable

TwoNodes     == 1..2
ThreeNodes   == 1..3
Nobody       == {}
OneCandidate == {1}
Follower     == {2}

====
