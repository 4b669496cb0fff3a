---------------------------- MODULE MCTransport ----------------------------
(* A small instance of Transport for TLC.                                  *)
EXTENDS Transport

TwoNodes == 1..2

Heartbeat(i, j) ==
  [from |-> i, to |-> j, type |-> "HEARTBEAT", term |-> 100 + i, payload |-> <<100 + i, 2>>]
Promise(i, j, es) ==
  [from |-> i, to |-> j, type |-> "PROMISE", term |-> 100 + j,
   payload |-> <<100 + j, 0, <<EncodeEntries(es)>>>>]
SyncData(i, j, es) ==
  [from |-> i, to |-> j, type |-> "SYNC_DATA", term |-> 0,
   payload |-> <<0, 0, EncodeEntries(es)>>]
Forward(i, j, text) ==
  [from |-> i, to |-> j, type |-> "FORWARD_REQUEST", term |-> 0, payload |-> <<0, 0, text>>]

One   == <<[slot |-> 2, ballot |-> 101, command |-> <<7, 8>>]>>
Two   == One \o <<[slot |-> 3, ballot |-> 102, command |-> <<7, 9, 7, 9>>]>>

\* Node 1 forwards a text while it knows no leader, sends itself a message and
\* then three to node 2, the last of them too long for a frame.
Talk == <<
  <<Forward(1, -1, <<9>>), Heartbeat(1, 1),
    Promise(1, 2, One), Heartbeat(1, 2), SyncData(1, 2, Two)>>,
  <<>> >>
Receiver == {2}

====
