---------------------------- MODULE PaxosRestart ----------------------------
(***************************************************************************)
(* Paxos with processes that end and are started again.  main constructs   *)
(* a new PaxosNode; nothing of the old one was ever written down, only the *)
(* document has a file.  The process comes back with no promise, no log    *)
(* and commit index 0, under the id it had.                                *)
(***************************************************************************)
EXTENDS Paxos

CONSTANTS
  Restarting,  \* the nodes that may be restarted
  MaxRestarts  \* bound: restarts in all

\* What is in transit when a process ends may be lost or arrive: a network on
\* which losses happen anyway.
ASSUME RestartAssumption ==
  /\ Restarting \subseteq Node /\ MaxRestarts \in Nat
  /\ Restarting # {} => Network # "reliable"

VARIABLE restarts   \* history: how many there were

restartVars == <<vars, restarts>>

\* The PaxosNode as it is constructed.
NewNode(i) ==
  /\ is_leader' = [is_leader EXCEPT ![i] = FALSE]
  /\ active_ballot' = [active_ballot EXCEPT ![i] = -1]
  /\ promised_ballot' = [promised_ballot EXCEPT ![i] = -1]
  /\ election_round' = [election_round EXCEPT ![i] = 0]
  /\ prepare' = [prepare EXCEPT ![i] = NoPrepare]
  /\ proposals' = [proposals EXCEPT ![i] = [s \in Slot |-> NoProposal]]
  /\ log' = [log EXCEPT ![i] = [s \in Slot |-> NoEntry]]
  /\ next_slot' = [next_slot EXCEPT ![i] = 1]
  /\ applied' = [applied EXCEPT ![i] = <<>>]

\* The queues of the process are lost with it, what other processes and the
\* sockets hold is not.
Restart(i) ==
  /\ i \in Restarting
  /\ restarts < MaxRestarts
  /\ restarts' = restarts + 1
  /\ NewNode(i)
  /\ net' = [net EXCEPT ![<<i, i>>] = <<>>]
  /\ UNCHANGED submits

RestartInit == Init /\ restarts = 0

RestartNext == (Next /\ UNCHANGED restarts) \/ \E i \in Node : Restart(i)

RestartSpec == RestartInit /\ [][RestartNext]_restartVars

====
