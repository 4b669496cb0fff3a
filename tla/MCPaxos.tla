------------------------------ MODULE MCPaxos ------------------------------
(* Small instances of Paxos for TLC.                                       *)
EXTENDS Paxos

TwoNodes      == 1..2
ThreeNodes    == 1..3
Nobody        == {}
TwoCandidates == {1, 2}

====
