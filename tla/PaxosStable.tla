---------------------------- MODULE PaxosStable ----------------------------
(***************************************************************************)
(* Paxos while the leader does not change: one node's election timeout     *)
(* may expire, the others hear from it in time.  Here the nodes implement  *)
(* a replicated log, and with fair timers and a fair message loop every    *)
(* node catches up, those that restart included.                           *)
(***************************************************************************)
EXTENDS PaxosRestart

ASSUME OneCandidateAssumption ==
  Cardinality(Candidate) = 1 /\ Cardinality(Node) > 1 /\ Candidate \cap Restarting = {}

\* The longest applied log.
Longest ==
  applied[CHOOSE i \in Node : \A j \in Node : CommitIndex(j) <= CommitIndex(i)]

Replicated == INSTANCE ReplicatedLog WITH chosen <- Longest

\* Under one leader the applied logs are prefixes of one sequence that holds
\* no command more often than it was submitted: holes, commits that arrive
\* out of order, overtaken sync data and restarted followers never show.
ImplementsReplicatedLog == Replicated!Spec

-----------------------------------------------------------------------------
\* The message loop of j handles what has arrived from i; the timer loops run.
\* main drains the mailbox and then resumes the timers once per 5 ms pass, so
\* both are fair as long as some pass finds the mailbox empty.
Fairness ==
  /\ \A i, j \in Node : WF_vars(\E k \in Deliverable(<<i, j>>) : Receive(i, j, k))
  /\ \A i \in Node : WF_vars(StartElection(i)) /\ WF_vars(SendHeartbeat(i))

FairSpec == RestartSpec /\ Fairness

\* Over a network that loses nothing, what the leader proposes in a slot is
\* applied by every node.
EveryProposalApplied ==
  \A s \in Slot :
    (\E i \in Node : is_leader[i] /\ log[i][s].ballot = active_ballot[i])
      ~> (\A j \in Node : CommitIndex(j) >= s)

\* Whatever was lost, a node that missed commits gets them from the leader:
\* the heartbeat's commit index makes it ask.
CatchUp ==
  \A s \in Slot :
    (\E i \in Node : CommitIndex(i) >= s) ~> (\A j \in Node : CommitIndex(j) >= s)

====
