------------------------------- MODULE Paxos -------------------------------
(***************************************************************************)
(* The PaxosNode of src/paxos.cpp, one instance per member of Node, and    *)
(* the channels between them.  A node runs three coroutines on one thread, *)
(* so every handler is atomic; what interleaves is the nodes, their timers *)
(* and the messages in transit.                                            *)
(*                                                                         *)
(* The order of events the transport can produce is the constant Network;  *)
(* the ticks of the two timer loops are abstracted to "may fire now".      *)
(*                                                                         *)
(* A definition marked "Slip" is not part of the model: it is a mistake    *)
(* that is easily made in the operator below it, kept to see that the      *)
(* properties notice.                                                      *)
(***************************************************************************)
EXTENDS Integers, FiniteSets, SequencesExt

CONSTANTS
  Node,        \* all_nodes_: the ids of --nodes
  Candidate,   \* the nodes whose election timeout may expire
  Beating,     \* the nodes whose heartbeat timer may expire
  Command,     \* the texts clients submit; Empty may be one of them
  Empty,       \* the empty text, which the code also reads as "no command"
  Network,     \* what may happen to a message in transit
  MaxSlot,     \* bound: slots of the log
  MaxRound,    \* bound: ballots below (MaxRound + 1) * 100
  MaxSubmits,  \* bound: times a client submits the same text
  MaxInTransit \* bound: messages in transit when a timer or a client acts

ASSUME NodeAssumption == Node \subseteq 1..99 /\ Node # {}
ASSUME CandidateAssumption == Candidate \subseteq Node
ASSUME BeatingAssumption == Beating \subseteq Node
ASSUME NetworkAssumption == Network \in {"reliable", "lossy", "reordering"}
ASSUME BoundAssumption ==
  MaxSlot \in Nat /\ MaxRound \in Nat /\ MaxSubmits \in Nat /\ MaxInTransit \in Nat

VARIABLES
  is_leader,        \* is_leader_
  active_ballot,    \* active_ballot_: the ballot led or, else, last heard of
  promised_ballot,  \* promised_ballot_
  election_round,   \* election_round_
  next_slot,        \* next_proposal_slot_
  log,              \* log_: a slot without an entry holds NoEntry
  applied,          \* applied_log_; its length is commit_index_
  prepare,          \* prepare_state_: ballot -1 when there is none
  proposals,        \* proposals_: a slot without one has no accepts
  net,              \* net[<<i, j>>]: the messages in transit from i to j
  submits           \* history: how often each text was submitted

logVars   == <<log, applied, next_slot>>
voteVars  == <<is_leader, active_ballot, promised_ballot>>
leadVars  == <<election_round, prepare, proposals>>
vars      == <<voteVars, leadVars, logVars, net, submits>>

-----------------------------------------------------------------------------
Slot    == 1..MaxSlot
Value   == Command \cup {Empty}
Channel == Node \X Node

\* The ballots maybe_start_election can build: a round and the id of the node.
Ballot == {r * 100 + i : r \in 1..MaxRound, i \in Node}
Owner(b) == b % 100

MaxOf(a, b) == IF a >= b THEN a ELSE b
Quorum == Cardinality(Node) \div 2 + 1

NoEntry    == [ballot |-> -1, command |-> Empty, committed |-> FALSE]
NoProposal == [command |-> Empty, accepts |-> {}]
NoPrepare  == [ballot |-> -1, completed |-> FALSE, from |-> {},
               entries |-> [j \in Node |-> {}]]

AcceptedValue == [ballot : Ballot \cup {-1}, command : Value, committed : BOOLEAN]
SlotProposal  == [command : Value, accepts : SUBSET Node]

\* What promises and sync data carry for one slot.
RecoveredEntry == [slot : Slot, ballot : Ballot, command : Value]

PrepareState == [ballot : Ballot \cup {-1}, completed : BOOLEAN, from : SUBSET Node,
                 entries : [Node -> SUBSET RecoveredEntry]]

Message ==
       [type : {"Prepare"}, ballot : Ballot]
  \cup [type : {"Promise"}, ballot : Ballot, ok : BOOLEAN, entries : SUBSET RecoveredEntry]
  \cup [type : {"Accept"}, ballot : Ballot, slot : Slot, command : Value]
  \cup [type : {"Accepted"}, ballot : Ballot, slot : Slot]
  \cup [type : {"Commit"}, ballot : Ballot, slot : Slot, command : Value]
  \cup [type : {"Heartbeat"}, ballot : Ballot, committed : 0..MaxSlot]
  \cup [type : {"SyncRequest"}, slot : Slot]
  \cup [type : {"SyncData"}, entries : SUBSET RecoveredEntry]
  \cup [type : {"Forward"}, command : Value]

CommitIndex(i) == Len(applied[i])

-----------------------------------------------------------------------------
(* The network: send appends to a channel, delivery takes from it.         *)

\* n with the messages out[j] appended to the channel from i to each j.
Emit(n, i, out) ==
  [c \in Channel |-> IF c[1] = i THEN n[c] \o out[c[2]] ELSE n[c]]

Broadcast(ms)  == [j \in Node |-> ms]
Unicast(to, m) == [j \in Node |-> IF j = to THEN <<m>> ELSE <<>>]

\* Which message of channel c may be handled next.  A node's messages to
\* itself pass through its own queues only, which keep their order.
Deliverable(c) ==
  {k \in DOMAIN net[c] :
     \/ k = 1
     \/ Network = "lossy"
     \/ Network = "reordering" /\ c[1] # c[2]}

\* net once message k of channel c is taken: a lossy channel has lost the
\* messages before it, a reordering one still holds them.
Taken(c, k) ==
  LET after == SubSeq(net[c], k + 1, Len(net[c]))
  IN  [net EXCEPT ![c] = IF Network = "reordering"
                           THEN SubSeq(net[c], 1, k - 1) \o after
                           ELSE after]

-----------------------------------------------------------------------------
(* Private helpers of PaxosNode.                                           *)

\* collect_accepted_entries: only the slots above the commit index, only
\* entries with a text.
CollectAcceptedEntries(i) ==
  {[slot |-> s, ballot |-> log[i][s].ballot, command |-> log[i][s].command] :
     s \in {t \in Slot : t > CommitIndex(i) /\ log[i][t].command # Empty}}

\* step_down_if_stale.
StepDownIfStale(i, b) ==
  /\ active_ballot' = [active_ballot EXCEPT ![i] = MaxOf(b, @)]
  /\ is_leader' = [is_leader EXCEPT ![i] = @ /\ b <= active_ballot[i]]

\* Slip: the commit index jumps to the last committed slot, over holes.
ApplyOverHoles(i, lg) ==
  \E last \in CommitIndex(i)..MaxSlot :
    /\ last > CommitIndex(i) => lg[last].committed
    /\ \A s \in last + 1 .. MaxSlot : ~lg[s].committed
    /\ applied' = [applied EXCEPT ![i] =
         [s \in 1..last |-> IF s <= CommitIndex(i) THEN @[s] ELSE lg[s].command]]

\* apply_commits, run on the new log lg: applied_log_ grows up to the first
\* slot that is not committed.
ApplyCommits(i, lg) ==
  \E last \in CommitIndex(i)..MaxSlot :
    /\ \A s \in CommitIndex(i) + 1 .. last : lg[s].committed
    /\ last < MaxSlot => ~lg[last + 1].committed
    /\ applied' = [applied EXCEPT ![i] =
         [s \in 1..last |-> IF s <= CommitIndex(i) THEN @[s] ELSE lg[s].command]]

\* The slots of props whose accepts reach the quorum: try_commit_slot.
Committable(props, S) == {s \in S : Cardinality(props[s].accepts) >= Quorum}

\* The outcome of try_commit_slot for every slot of S: the log entries become
\* committed at ballot b, the proposals are erased, commits are applied.
CommitSlots(i, b, props, lg, S) ==
  LET lg1 == [s \in Slot |-> IF s \in S
                THEN [ballot |-> b, command |-> props[s].command, committed |-> TRUE]
                ELSE lg[s]]
  IN  /\ log' = [log EXCEPT ![i] = lg1]
      /\ proposals' = [proposals EXCEPT ![i] =
           [s \in Slot |-> IF s \in S THEN NoProposal ELSE props[s]]]
      /\ ApplyCommits(i, lg1)

\* Slip: the leader commits without telling the others.
CommitUnannounced(b, props, S) == {}

CommitMessages(b, props, S) ==
  {[type |-> "Commit", ballot |-> b, slot |-> s, command |-> props[s].command] : s \in S}

\* propose_slot for every slot of DOMAIN cmds, with the ballot b the node
\* leads: a proposal left from an earlier ballot keeps its accepts, the own
\* log entry is overwritten (its committed flag stays), Accept goes to all.
\* A slot whose accepts already reach the quorum commits in the same call; when
\* there are several slots, in become_leader, none does (ElectionCommitsNothing),
\* so it does not matter that the code goes slot by slot.
ProposeSlots(i, b, cmds, n) ==
  LET S     == DOMAIN cmds
      props == [s \in Slot |-> IF s \in S
                  THEN [command |-> cmds[s], accepts |-> proposals[i][s].accepts \cup {i}]
                  ELSE proposals[i][s]]
      lg    == [s \in Slot |-> IF s \in S
                  THEN [ballot |-> b, command |-> cmds[s], committed |-> log[i][s].committed]
                  ELSE log[i][s]]
      done  == Committable(props, S)
  IN  /\ CommitSlots(i, b, props, lg, done)
      /\ \E accepts \in SetToSeqs({[type |-> "Accept", ballot |-> b, slot |-> s,
                                 command |-> cmds[s]] : s \in S}),
            commits \in SetToSeqs(CommitMessages(b, props, done)) :
           net' = Emit(n, i, Broadcast(accepts \o commits))

\* The slot propose_pending takes: from next_proposal_slot_ on, the first one
\* not committed.
IsNextFree(i, s) ==
  /\ s >= next_slot[i]
  /\ ~log[i][s].committed
  /\ \A t \in next_slot[i] .. s - 1 : log[i][t].committed

\* Where a node that does not lead sends a command: leader_ballot() % 100,
\* which is -1, no node, before any ballot is known.
ForwardTo(i) == IF active_ballot[i] = -1 THEN -1 ELSE Owner(active_ballot[i])

\* Slip: next_proposal_slot_ is not incremented after a proposal.
SubmitInSameSlot(i, cmd, n) ==
  IF is_leader[i]
    THEN \E s \in Slot :
           /\ IsNextFree(i, s)
           /\ ProposeSlots(i, active_ballot[i], [t \in {s} |-> cmd], n)
           /\ next_slot' = [next_slot EXCEPT ![i] = s]
           /\ UNCHANGED <<voteVars, election_round, prepare>>
    ELSE /\ net' = Emit(n, i, Unicast(ForwardTo(i), [type |-> "Forward", command |-> cmd]))
         /\ UNCHANGED <<voteVars, leadVars, logVars>>

\* Slip: the else is missing, a leader proposes the command and forwards it.
SubmitAndForward(i, cmd, n) ==
  LET sent == Emit(n, i, Unicast(ForwardTo(i), [type |-> "Forward", command |-> cmd]))
  IN  IF is_leader[i]
        THEN \E s \in Slot :
               /\ IsNextFree(i, s)
               /\ next_slot' = [next_slot EXCEPT ![i] = s + 1]
               /\ ProposeSlots(i, active_ballot[i], [t \in {s} |-> cmd], sent)
               /\ UNCHANGED <<voteVars, election_round, prepare>>
        ELSE /\ net' = sent
             /\ UNCHANGED <<voteVars, leadVars, logVars>>

\* submit_client_command.  The leader's queue pending_client_commands_ is
\* filled and drained in the same call, so it is always empty in between.
SubmitCommand(i, cmd, n) ==
  IF is_leader[i]
    THEN \E s \in Slot :
           /\ IsNextFree(i, s)
           /\ next_slot' = [next_slot EXCEPT ![i] = s + 1]
           /\ ProposeSlots(i, active_ballot[i], [t \in {s} |-> cmd], n)
           /\ UNCHANGED <<voteVars, election_round, prepare>>
    ELSE /\ net' = Emit(n, i, Unicast(ForwardTo(i), [type |-> "Forward", command |-> cmd]))
         /\ UNCHANGED <<voteVars, leadVars, logVars>>

\* become_leader, with the promises of prep: for every slot some promise
\* reports, the entry of the highest ballot (ties go to whichever promise is
\* iterated first) is proposed again.  The log update that precedes the
\* proposals is overwritten by them.
BecomeLeader(i, b, prep, n) ==
  LET reported == UNION {prep.entries[j] : j \in prep.from}
      slots    == {e.slot : e \in reported}
      tops     == {next_slot[i]} \cup {s + 1 : s \in slots}
  IN  /\ is_leader' = [is_leader EXCEPT ![i] = TRUE]
      /\ active_ballot' = [active_ballot EXCEPT ![i] = b]
      /\ promised_ballot' = [promised_ballot EXCEPT ![i] = MaxOf(@, b)]
      /\ \E top \in tops :
           /\ \A t \in tops : t <= top
           /\ next_slot' = [next_slot EXCEPT ![i] = top]
      /\ \E chosen \in [slots -> reported] :
           /\ \A s \in slots :
                /\ chosen[s].slot = s
                /\ \A e \in reported : e.slot = s => e.ballot <= chosen[s].ballot
           /\ ProposeSlots(i, b, [s \in slots |-> chosen[s].command], n)

-----------------------------------------------------------------------------
(* The handlers, one for each type.  i handles m from j; n is the           *)
(* network without m.                                                      *)

\* Slip: the promise is answered but not recorded.
PrepareForgotten(i, j, m, n) ==
  LET ok == m.ballot >= promised_ballot[i]
  IN  /\ IF ok
           THEN StepDownIfStale(i, m.ballot)
           ELSE UNCHANGED <<is_leader, active_ballot>>
      /\ net' = Emit(n, i, Unicast(j,
           [type |-> "Promise", ballot |-> m.ballot, ok |-> ok,
            entries |-> IF ok THEN CollectAcceptedEntries(i) ELSE {}]))
      /\ UNCHANGED <<promised_ballot, leadVars, logVars>>

OnPrepare(i, j, m, n) ==
  LET ok == m.ballot >= promised_ballot[i]
  IN  /\ IF ok
           THEN /\ promised_ballot' = [promised_ballot EXCEPT ![i] = m.ballot]
                /\ StepDownIfStale(i, m.ballot)
           ELSE UNCHANGED voteVars
      /\ net' = Emit(n, i, Unicast(j,
           [type |-> "Promise", ballot |-> m.ballot, ok |-> ok,
            entries |-> IF ok THEN CollectAcceptedEntries(i) ELSE {}]))
      /\ UNCHANGED <<leadVars, logVars>>

\* Only the promises for the ballot being prepared count, until a quorum is
\* reached; then the node leads that ballot.
OnPromise(i, j, m, n) ==
  LET prep == [prepare[i] EXCEPT !.from = @ \cup {j}, !.entries[j] = m.entries]
      open == ~prepare[i].completed /\ prepare[i].ballot = m.ballot
  IN  IF open /\ m.ok /\ Cardinality(prep.from) >= Quorum
        THEN /\ prepare' = [prepare EXCEPT ![i] = [prep EXCEPT !.completed = TRUE]]
             /\ BecomeLeader(i, m.ballot, prep, n)
             /\ UNCHANGED election_round
        ELSE /\ IF open /\ m.ok
                  THEN prepare' = [prepare EXCEPT ![i] = prep]
                  ELSE UNCHANGED prepare
             /\ IF open /\ ~m.ok
                  THEN StepDownIfStale(i, m.ballot)
                  ELSE UNCHANGED <<is_leader, active_ballot>>
             /\ net' = n
             /\ UNCHANGED <<promised_ballot, election_round, proposals, logVars>>

\* Slip: an accept replaces the whole entry, committed or not.
AcceptOverCommit(i, j, m, n) ==
  LET ok    == m.ballot >= promised_ballot[i]
      entry == [ballot |-> m.ballot, command |-> m.command, committed |-> FALSE]
      reply == [type |-> "Accepted", slot |-> m.slot,
                ballot |-> IF ok THEN m.ballot ELSE promised_ballot[i]]
  IN  /\ IF ok
           THEN /\ promised_ballot' = [promised_ballot EXCEPT ![i] = m.ballot]
                /\ StepDownIfStale(i, m.ballot)
                /\ log' = [log EXCEPT ![i][m.slot] = entry]
           ELSE UNCHANGED <<voteVars, log>>
      /\ net' = Emit(n, i, Unicast(j, reply))
      /\ UNCHANGED <<leadVars, applied, next_slot>>

\* A committed entry is not overwritten, yet the reply is that of an accept.
\* A rejection answers with the promised ballot.
OnAcceptRequest(i, j, m, n) ==
  LET ok    == m.ballot >= promised_ballot[i]
      keep  == log[i][m.slot].committed /\ log[i][m.slot].command # Empty
      entry == [ballot |-> m.ballot, command |-> m.command,
                committed |-> log[i][m.slot].committed]
      reply == [type |-> "Accepted", slot |-> m.slot,
                ballot |-> IF ok THEN m.ballot ELSE promised_ballot[i]]
  IN  /\ IF ok
           THEN /\ promised_ballot' = [promised_ballot EXCEPT ![i] = m.ballot]
                /\ StepDownIfStale(i, m.ballot)
                /\ log' = IF keep THEN log ELSE [log EXCEPT ![i][m.slot] = entry]
           ELSE UNCHANGED <<voteVars, log>>
      /\ net' = Emit(n, i, Unicast(j, reply))
      /\ UNCHANGED <<leadVars, applied, next_slot>>

\* Slip: a node that does not lead counts accepts too; it commits nothing.
CountWhenDeposed(i, j, m, n) ==
  LET props   == [proposals[i] EXCEPT ![m.slot].accepts = @ \cup {j}]
      done    == IF is_leader[i] THEN Committable(props, {m.slot}) ELSE {}
      counted == m.ballot = active_ballot[i] /\ proposals[i][m.slot].accepts # {}
  IN  /\ IF counted
           THEN /\ CommitSlots(i, active_ballot[i], props, log[i], done)
                /\ \E commits \in SetToSeqs(CommitMessages(active_ballot[i], props, done)) :
                     net' = Emit(n, i, Broadcast(commits))
           ELSE net' = n /\ UNCHANGED <<log, applied, proposals>>
      /\ StepDownIfStale(i, m.ballot)
      /\ UNCHANGED <<promised_ballot, election_round, prepare, next_slot>>

OnAccepted(i, j, m, n) ==
  LET props   == [proposals[i] EXCEPT ![m.slot].accepts = @ \cup {j}]
      done    == Committable(props, {m.slot})
      counted == /\ is_leader[i]
                 /\ m.ballot = active_ballot[i]
                 /\ proposals[i][m.slot].accepts # {}
  IN  /\ IF counted
           THEN /\ CommitSlots(i, active_ballot[i], props, log[i], done)
                /\ \E commits \in SetToSeqs(CommitMessages(active_ballot[i], props, done)) :
                     net' = Emit(n, i, Broadcast(commits))
           ELSE net' = n /\ UNCHANGED <<log, applied, proposals>>
      /\ IF is_leader[i]
           THEN StepDownIfStale(i, m.ballot)
           ELSE UNCHANGED <<is_leader, active_ballot>>
      /\ UNCHANGED <<promised_ballot, election_round, prepare, next_slot>>

\* lg with the entries es stored as committed.
StoreCommitted(lg, es) ==
  [s \in Slot |->
     IF \E e \in es : e.slot = s
       THEN LET e == CHOOSE e \in es : e.slot = s
            IN  [ballot |-> e.ballot, command |-> e.command, committed |-> TRUE]
       ELSE lg[s]]

\* The common part of on_commit and on_sync_data.
LearnCommitted(i, es) ==
  LET lg   == StoreCommitted(log[i], es)
      tops == {next_slot[i]} \cup {e.slot + 1 : e \in es}
  IN  /\ log' = [log EXCEPT ![i] = lg]
      /\ \E top \in tops :
           /\ \A t \in tops : t <= top
           /\ next_slot' = [next_slot EXCEPT ![i] = top]
      /\ ApplyCommits(i, lg)

\* Any commit is believed, whatever its ballot.
OnCommit(i, j, m, n) ==
  /\ promised_ballot' = [promised_ballot EXCEPT ![i] = MaxOf(m.ballot, @)]
  /\ StepDownIfStale(i, m.ballot)
  /\ LearnCommitted(i, {[slot |-> m.slot, ballot |-> m.ballot, command |-> m.command]})
  /\ net' = n
  /\ UNCHANGED leadVars

\* Slip: the heartbeat's ballot is not compared with the promise.
HeartbeatLowersPromise(i, j, m, n) ==
  /\ promised_ballot' = [promised_ballot EXCEPT ![i] = m.ballot]
  /\ StepDownIfStale(i, m.ballot)
  /\ net' = IF m.committed > CommitIndex(i)
              THEN Emit(n, i, Unicast(j, [type |-> "SyncRequest", slot |-> CommitIndex(i) + 1]))
              ELSE n
  /\ UNCHANGED <<leadVars, logVars>>

OnHeartbeat(i, j, m, n) ==
  /\ IF m.ballot >= promised_ballot[i]
       THEN /\ promised_ballot' = [promised_ballot EXCEPT ![i] = m.ballot]
            /\ IF j # i THEN StepDownIfStale(i, m.ballot)
                        ELSE UNCHANGED <<is_leader, active_ballot>>
       ELSE UNCHANGED voteVars
  /\ net' = IF m.committed > CommitIndex(i)
              THEN Emit(n, i, Unicast(j, [type |-> "SyncRequest", slot |-> CommitIndex(i) + 1]))
              ELSE n
  /\ UNCHANGED <<leadVars, logVars>>

\* Slip: the sync data start after the slot asked for.
SyncAfterRequested(i, j, m, n) ==
  LET found == {s \in m.slot + 1 .. CommitIndex(i) : log[i][s].committed}
      es    == {[slot |-> s, ballot |-> log[i][s].ballot, command |-> log[i][s].command] :
                  s \in found}
  IN  /\ net' = IF is_leader[i] /\ es # {}
                  THEN Emit(n, i, Unicast(j, [type |-> "SyncData", entries |-> es]))
                  ELSE n
      /\ UNCHANGED <<voteVars, leadVars, logVars>>

OnSyncRequest(i, j, m, n) ==
  LET found == {s \in m.slot .. CommitIndex(i) : log[i][s].committed}
      es    == {[slot |-> s, ballot |-> log[i][s].ballot, command |-> log[i][s].command] :
                  s \in found}
  IN  /\ net' = IF is_leader[i] /\ es # {}
                  THEN Emit(n, i, Unicast(j, [type |-> "SyncData", entries |-> es]))
                  ELSE n
      /\ UNCHANGED <<voteVars, leadVars, logVars>>

OnSyncData(i, j, m, n) ==
  /\ LearnCommitted(i, m.entries)
  /\ net' = n
  /\ UNCHANGED <<voteVars, leadVars>>

OnForwardRequest(i, j, m, n) == SubmitCommand(i, m.command, n)

-----------------------------------------------------------------------------
(* The steps of the system.                                                *)

\* Bound on what timers and clients add to the messages in transit.
Calm == SumFunction([c \in Channel |-> Len(net[c])]) <= MaxInTransit

\* Slip: the ballot does not carry the node's id.
BallotWithoutId(i, r) ==
  IF r * 100 <= promised_ballot[i] THEN (promised_ballot[i] \div 100 + 1) * 100 ELSE r * 100

\* The ballot of election round r: above everything promised.
ElectionBallot(i, r) ==
  LET b == r * 100 + i
  IN  IF b <= promised_ballot[i] THEN (promised_ballot[i] \div 100 + 1) * 100 + i ELSE b

\* maybe_start_election, once the election timeout of i has expired.
StartElection(i) ==
  LET round == election_round[i] + 1
      b     == ElectionBallot(i, round)
  IN  /\ i \in Candidate
      /\ Calm
      /\ ~is_leader[i]
      /\ b < (MaxRound + 1) * 100
      /\ election_round' = [election_round EXCEPT ![i] = round]
      /\ promised_ballot' = [promised_ballot EXCEPT ![i] = b]
      /\ active_ballot' = [active_ballot EXCEPT ![i] = b]
      /\ prepare' = [prepare EXCEPT ![i] =
           [ballot |-> b, completed |-> FALSE, from |-> {i},
            entries |-> [j \in Node |-> IF j = i THEN CollectAcceptedEntries(i) ELSE {}]]]
      /\ net' = Emit(net, i, Broadcast(<<[type |-> "Prepare", ballot |-> b]>>))
      /\ UNCHANGED <<is_leader, proposals, logVars, submits>>

\* What heartbeat_loop does when it wakes up on a leader.
BroadcastHeartbeat(i) ==
  /\ is_leader[i]
  /\ net' = Emit(net, i, Broadcast(<<[type |-> "Heartbeat", ballot |-> active_ballot[i],
                                      committed |-> CommitIndex(i)]>>))
  /\ UNCHANGED <<voteVars, leadVars, logVars, submits>>

\* heartbeat_loop.  Bound: one heartbeat of i, and what it led to, in transit
\* at a time.
SendHeartbeat(i) ==
  /\ i \in Beating
  /\ Calm
  /\ \A c \in Channel : i \in {c[1], c[2]} =>
       \A m \in Range(net[c]) :
         m.type \notin {"Heartbeat", "SyncRequest", "SyncData"}
  /\ BroadcastHeartbeat(i)

\* A command line or a browser gives node i a text.
ClientSubmit(i, cmd) ==
  /\ Calm
  /\ submits[cmd] < MaxSubmits
  /\ submits' = [submits EXCEPT ![cmd] = @ + 1]
  /\ SubmitCommand(i, cmd, net)

\* on_message: i has taken m from j, and n is the network without it.
OnMessage(i, j, m, n) ==
  \/ m.type = "Prepare"     /\ OnPrepare(i, j, m, n)
  \/ m.type = "Promise"     /\ OnPromise(i, j, m, n)
  \/ m.type = "Accept"      /\ OnAcceptRequest(i, j, m, n)
  \/ m.type = "Accepted"    /\ OnAccepted(i, j, m, n)
  \/ m.type = "Commit"      /\ OnCommit(i, j, m, n)
  \/ m.type = "Heartbeat"   /\ OnHeartbeat(i, j, m, n)
  \/ m.type = "SyncRequest" /\ OnSyncRequest(i, j, m, n)
  \/ m.type = "SyncData"    /\ OnSyncData(i, j, m, n)
  \/ m.type = "Forward"     /\ OnForwardRequest(i, j, m, n)

\* The message loop of j handles message k of the channel from i.
Receive(i, j, k) ==
  /\ OnMessage(j, i, net[<<i, j>>][k], Taken(<<i, j>>, k))
  /\ UNCHANGED submits

Init ==
  /\ is_leader = [i \in Node |-> FALSE]
  /\ active_ballot = [i \in Node |-> -1]
  /\ promised_ballot = [i \in Node |-> -1]
  /\ election_round = [i \in Node |-> 0]
  /\ next_slot = [i \in Node |-> 1]
  /\ log = [i \in Node |-> [s \in Slot |-> NoEntry]]
  /\ applied = [i \in Node |-> <<>>]
  /\ prepare = [i \in Node |-> NoPrepare]
  /\ proposals = [i \in Node |-> [s \in Slot |-> NoProposal]]
  /\ net = [c \in Channel |-> <<>>]
  /\ submits = [cmd \in Command |-> 0]

Next ==
  \/ \E i \in Node : StartElection(i) \/ SendHeartbeat(i)
  \/ \E i \in Node, cmd \in Command : ClientSubmit(i, cmd)
  \/ \E i, j \in Node : \E k \in Deliverable(<<i, j>>) : Receive(i, j, k)

Spec == Init /\ [][Next]_vars

-----------------------------------------------------------------------------
(* Types.                                                                  *)

\* The state has the shape the code's declarations give it; a slot without a
\* ballot has no entry at all, and a leader has a ballot.
TypeOK ==
  /\ is_leader \in [Node -> BOOLEAN]
  /\ active_ballot \in [Node -> Ballot \cup {-1}]
  /\ promised_ballot \in [Node -> Ballot \cup {-1}]
  /\ election_round \in [Node -> 0..MaxRound]
  /\ next_slot \in [Node -> 1..MaxSlot + 1]
  /\ log \in [Node -> [Slot -> AcceptedValue]]
  /\ applied \in [Node -> Seq(Value)]
  /\ prepare \in [Node -> PrepareState]
  /\ proposals \in [Node -> [Slot -> SlotProposal]]
  /\ net \in [Channel -> Seq(Message)]
  /\ submits \in [Command -> 0..MaxSubmits]
  /\ \A i \in Node : CommitIndex(i) <= MaxSlot
  /\ \A i \in Node, s \in Slot : log[i][s].ballot = -1 => log[i][s] = NoEntry
  /\ \A i \in Node : is_leader[i] => active_ballot[i] # -1

-----------------------------------------------------------------------------
(* Elections.                                                              *)

\* No two nodes lead the same ballot: maybe_start_election never builds a
\* ballot another node can build, whatever both have promised.
OneLeaderPerBallot ==
  \A i, j \in Node :
    is_leader[i] /\ is_leader[j] /\ active_ballot[i] = active_ballot[j] => i = j

\* Whoever leads a ballot has a quorum that promised it or a later one.
ElectionQuorum ==
  \A i \in Node :
    is_leader[i] =>
      Cardinality({j \in Node : promised_ballot[j] >= active_ballot[i]}) >= Quorum

\* Why: a leader leads the ballot it prepared, with a quorum of promises ...
LeaderWon ==
  \A i \in Node : is_leader[i] =>
    /\ active_ballot[i] = prepare[i].ballot
    /\ prepare[i].completed
    /\ Cardinality(prepare[i].from) >= Quorum

\* ... that ballot carries its id, and who promised it, here or in a message
\* on the way here, has not gone back to a lower one.
PreparedBallot ==
  \A i \in Node : prepare[i].ballot # -1 =>
    /\ Owner(prepare[i].ballot) = i
    /\ promised_ballot[i] >= prepare[i].ballot
    /\ \A j \in prepare[i].from : promised_ballot[j] >= prepare[i].ballot

PromiseKept ==
  \A i, j \in Node : \A m \in Range(net[<<j, i>>]) :
    m.type = "Promise" /\ m.ok => promised_ballot[j] >= m.ballot

ElectionInv == LeaderWon /\ PreparedBallot /\ PromiseKept

-----------------------------------------------------------------------------
(* Values.                                                                 *)

InTransit == UNION {Range(net[c]) : c \in Channel}

\* What a log, a message or a collected promise claims was proposed where.
LogEntries(i) ==
  {[slot |-> s, ballot |-> log[i][s].ballot, command |-> log[i][s].command] :
     s \in {t \in Slot : log[i][t].ballot # -1}}

MessageEntries(m) ==
  IF m.type \in {"Promise", "SyncData"} THEN m.entries
  ELSE IF m.type \in {"Accept", "Commit"}
    THEN {[slot |-> m.slot, ballot |-> m.ballot, command |-> m.command]}
    ELSE {}

Entries ==
  (UNION {LogEntries(i) : i \in Node})
    \cup (UNION {MessageEntries(m) : m \in InTransit})
    \cup (UNION {UNION {prepare[i].entries[j] : j \in Node} : i \in Node})

\* A ballot proposes at most one command for a slot, through elections,
\* recovery, commits of left-over proposals and rejected accepts.
OneValuePerBallot ==
  \A e, f \in Entries :
    e.slot = f.slot /\ e.ballot = f.ballot => e.command = f.command

\* Why: nobody speaks of a ballot its owner has not prepared, and while the
\* owner has not won it, nobody speaks of it at all ...
EntryBallotKnown ==
  \A e \in Entries : \A i \in Node :
    Owner(e.ballot) = i =>
      /\ e.ballot <= promised_ballot[i]
      /\ prepare[i].completed \/ e.ballot # prepare[i].ballot

\* ... and what a leader has said of a slot is behind its next free slot and
\* agrees with its open proposal.
LeaderKnowsItsSlots ==
  \A i \in Node :
    /\ is_leader[i] => \A e \in Entries : e.ballot = active_ballot[i] =>
         /\ e.slot < next_slot[i]
         /\ proposals[i][e.slot].accepts # {} => proposals[i][e.slot].command = e.command
    /\ \A s \in Slot : proposals[i][s].accepts # {} => s < next_slot[i]

ValueInv == OneValuePerBallot /\ EntryBallotKnown /\ LeaderKnowsItsSlots

\* No node applies a submitted text more often than it was submitted: a
\* forwarded command is proposed once, and recovery proposes it again only
\* for the slot it had.
AppliedAtMostSubmitted ==
  \A i \in Node, cmd \in Command :
    Cardinality({s \in 1..CommitIndex(i) : applied[i][s] = cmd}) <= submits[cmd]

-----------------------------------------------------------------------------
(* Commits.                                                                *)

\* Committed entries: announced in a Commit, or stored in a log.
Committed ==
  (UNION {MessageEntries(m) : m \in {n \in InTransit : n.type = "Commit"}})
    \cup (UNION {{e \in LogEntries(i) : log[i][e.slot].committed} : i \in Node})

\* A command is committed at a ballot only after a quorum stored it: each of
\* them still holds the slot at that ballot or a later one, or committed.  So
\* it should be; on_accepted counts a rejection that names the leader's own
\* ballot (paxos.cpp:269, :290), and only with one candidate is there none.
CommitBackedByQuorum ==
  \A e \in Committed :
    Cardinality({j \in Node : \/ log[j][e.slot].ballot >= e.ballot
                              \/ log[j][e.slot].committed}) >= Quorum

\* A new leader commits nothing by winning: the accepts counted for a proposal it
\* is left with from an earlier ballot (paxos.cpp:497) never make a quorum.
ElectionCommitsNothing ==
  [][\A i \in Node : ~is_leader[i] /\ is_leader'[i] =>
       /\ applied'[i] = applied[i]
       /\ \A s \in Slot : log'[i][s].committed = log[i][s].committed]_vars

\* What a node applied is what its log still says was committed there: late
\* accepts, repeated commits and sync data do not rewrite history.
AppliedMatchesLog ==
  \A i \in Node : \A s \in 1..CommitIndex(i) :
    log[i][s].committed /\ log[i][s].command = applied[i][s]

\* Any two nodes applied the same commands, as far as both have got.
Agreement ==
  \A i, j \in Node : \A s \in Slot :
    s <= CommitIndex(i) /\ s <= CommitIndex(j) => applied[i][s] = applied[j][s]

\* A node stores an uncommitted entry only at a ballot it has not promised
\* to ignore.
AcceptorKeepsPromise ==
  [][\A i \in Node, s \in Slot :
       log'[i][s].ballot # log[i][s].ballot /\ ~log'[i][s].committed
         => log'[i][s].ballot >= promised_ballot[i]]_vars

====
