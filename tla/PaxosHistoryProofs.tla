------------------------- MODULE PaxosHistoryProofs -------------------------
(***************************************************************************)
(* What a node applied only grows (apply_commits of paxos.cpp), winning an *)
(* election commits nothing (become_leader), and no text is applied more   *)
(* often than it was submitted, for any number of nodes and candidates, on *)
(* every network.                                                          *)
(***************************************************************************)
EXTENDS PaxosProofs

(***************************************************************************)
(* Applied logs only grow, by what was just committed.                     *)
(***************************************************************************)

\* lg keeps the entries and the commits of the log of i.
Keeps(i, lg) ==
  \A s \in Slot : /\ log[i][s].committed => lg[s].committed
                  /\ log[i][s].ballot # -1 => lg[s].ballot # -1

\* i has applied all it can: the next slot is not committed.
FullyApplied(i) ==
  CommitIndex(i) < MaxSlot => ~log[i][CommitIndex(i) + 1].committed

\* No applied command is changed or dropped, and a new one is that of the
\* committed log entry; no entry is dropped or ceases to be committed.
Grows ==
  \A k \in Node :
    /\ Keeps(k, log'[k])
    /\ Len(applied[k]) <= Len(applied'[k])
    /\ \A s \in 1..Len(applied[k]) : applied'[k][s] = applied[k][s]
    /\ \A s \in Len(applied[k]) + 1 .. Len(applied'[k]) :
         log'[k][s].committed /\ log'[k][s].command = applied'[k][s]
    /\ FullyApplied(k) => FullyApplied(k)'

\* A step that applies and commits nothing.
LEMMA GrowsUnchanged ==
  ASSUME TypeOK, UNCHANGED applied,
         \A k \in Node : /\ Keeps(k, log'[k])
                         /\ \A s \in Slot : log'[k][s].committed = log[k][s].committed
  PROVE  Grows
<1>1. \A k \in Node : Len(applied[k]) \in Nat
  BY DEF TypeOK
<1>2. ASSUME NEW k \in Node, FullyApplied(k) PROVE FullyApplied(k)'
  <2>1. CommitIndex(k) < MaxSlot => CommitIndex(k) + 1 \in Slot
    BY <1>1, BoundAssumption DEF CommitIndex, Slot
  <2>2. CommitIndex(k)' = CommitIndex(k)
    BY DEF CommitIndex
  <2> QED
    BY <1>2, <2>1, <2>2 DEF FullyApplied
<1> QED
  BY <1>1, <1>2 DEF Grows

LEMMA LogKept ==
  ASSUME TypeOK, UNCHANGED <<log, applied>>
  PROVE  Grows
BY GrowsUnchanged DEF Keeps

\* apply_commits on a log that lost no commit.
LEMMA ApplyCommitsGrows ==
  ASSUME TypeOK, NEW i \in Node, NEW lg \in [Slot -> AcceptedValue], Keeps(i, lg),
         log' = [log EXCEPT ![i] = lg], ApplyCommits(i, lg)
  PROVE  Grows
<1>1. MaxSlot \in Nat /\ applied \in [Node -> Seq(Value)] /\ Len(applied[i]) <= MaxSlot
  BY BoundAssumption DEF TypeOK, CommitIndex
<1> DEFINE old == Len(applied[i])
<1>2. PICK last \in old..MaxSlot :
        /\ \A s \in old + 1 .. last : lg[s].committed
        /\ last < MaxSlot => ~lg[last + 1].committed
        /\ applied' = [applied EXCEPT ![i] =
             [s \in 1..last |-> IF s <= old THEN applied[i][s] ELSE lg[s].command]]
  BY DEF ApplyCommits, CommitIndex
<1> DEFINE q == [s \in 1..last |-> IF s <= old THEN applied[i][s] ELSE lg[s].command]
<1>3. old \in Nat /\ last \in Nat /\ old <= last
  BY <1>1, <1>2
<1>4. /\ Len(q) = last
      /\ \A s \in 1..old : q[s] = applied[i][s]
      /\ \A s \in old + 1 .. last : q[s] = lg[s].command
  <2> HIDE DEF old
  <2>1. \A s \in 1..old : s \in 1..last /\ s <= old
    BY <1>3
  <2>2. \A s \in old + 1 .. last : s \in 1..last /\ ~(s <= old)
    BY <1>3
  <2>3. DOMAIN q = 1..last /\ \A s \in 1..last : q[s] = IF s <= old THEN applied[i][s] ELSE lg[s].command
    OBVIOUS
  <2>4. Len(q) = last
    BY <1>3, <2>3
  <2> HIDE DEF q
  <2> QED
    BY <2>1, <2>2, <2>3, <2>4
<1>5. applied'[i] = q /\ \A k \in Node \ {i} : applied'[k] = applied[k]
  BY <1>1, <1>2
<1>6. log'[i] = lg /\ \A k \in Node \ {i} : log'[k] = log[k]
  BY DEF TypeOK
<1> HIDE DEF q
<1>7. ASSUME NEW k \in Node
      PROVE  /\ Keeps(k, log'[k])
             /\ Len(applied[k]) <= Len(applied'[k])
             /\ \A s \in 1..Len(applied[k]) : applied'[k][s] = applied[k][s]
             /\ \A s \in Len(applied[k]) + 1 .. Len(applied'[k]) :
                  log'[k][s].committed /\ log'[k][s].command = applied'[k][s]
             /\ FullyApplied(k) => FullyApplied(k)'
  <2>1. CASE k = i
    <3>1. FullyApplied(i)'
      BY <1>2, <1>4, <1>5, <1>6 DEF FullyApplied, CommitIndex
    <3> QED
      BY <1>2, <1>3, <1>4, <1>5, <1>6, <2>1, <3>1
  <2>2. CASE k # i
    <3>1. applied'[k] = applied[k] /\ log'[k] = log[k] /\ Len(applied[k]) \in Nat
      BY <1>1, <1>5, <1>6, <2>2
    <3>2. FullyApplied(k) => FullyApplied(k)'
      BY <3>1 DEF FullyApplied, CommitIndex
    <3> QED
      BY <3>1, <3>2 DEF Keeps
  <2> QED
    BY <2>1, <2>2
<1> QED
  BY <1>7 DEF Grows

\* try_commit_slot on a log that lost no commit.
LEMMA CommitSlotsGrows ==
  ASSUME TypeOK, NEW i \in Node, NEW b \in Ballot,
         NEW props \in [Slot -> SlotProposal], NEW lg \in [Slot -> AcceptedValue],
         Keeps(i, lg),
         NEW S \in SUBSET Slot, CommitSlots(i, b, props, lg, S)
  PROVE  Grows
<1> DEFINE lg1 == [s \in Slot |-> IF s \in S
                     THEN [ballot |-> b, command |-> props[s].command, committed |-> TRUE]
                     ELSE lg[s]]
<1>1. log' = [log EXCEPT ![i] = lg1] /\ ApplyCommits(i, lg1)
  BY DEF CommitSlots
<1>2. lg1 \in [Slot -> AcceptedValue]
  BY DEF AcceptedValue, SlotProposal
<1>3. Keeps(i, lg1)
  BY BallotOwner DEF Keeps
<1> HIDE DEF lg1
<1> QED
  BY <1>1, <1>2, <1>3, ApplyCommitsGrows

\* Proposing a slot again keeps it committed.
LEMMA ProposeSlotsGrows ==
  ASSUME TypeOK, NEW i \in Node, NEW b \in Ballot,
         NEW D \in SUBSET Slot, NEW cmds \in [D -> Value],
         NEW n, ProposeSlots(i, b, cmds, n)
  PROVE  Grows
<1> DEFINE props == [s \in Slot |-> IF s \in D
                       THEN [command |-> cmds[s], accepts |-> proposals[i][s].accepts \cup {i}]
                       ELSE proposals[i][s]]
           lg    == [s \in Slot |-> IF s \in D
                       THEN [ballot |-> b, command |-> cmds[s], committed |-> log[i][s].committed]
                       ELSE log[i][s]]
           done  == Committable(props, D)
<1>1. CommitSlots(i, b, props, lg, done)
  BY DEF ProposeSlots
<1>2. log[i] \in [Slot -> AcceptedValue] /\ proposals[i] \in [Slot -> SlotProposal]
  BY DEF TypeOK
<1>3. props \in [Slot -> SlotProposal]
  BY <1>2 DEF SlotProposal
<1>4. lg \in [Slot -> AcceptedValue]
  BY <1>2 DEF AcceptedValue
<1>5. Keeps(i, lg)
  BY BallotOwner DEF Keeps
<1>6. done \in SUBSET Slot
  BY DEF Committable
<1> HIDE DEF props, lg, done
<1> QED
  BY <1>1, <1>3, <1>4, <1>5, <1>6, CommitSlotsGrows

\* Learning commits.
LEMMA LearnCommittedGrows ==
  ASSUME TypeOK, NEW i \in Node, NEW es \in SUBSET RecoveredEntry, LearnCommitted(i, es)
  PROVE  Grows
<1> DEFINE lg == StoreCommitted(log[i], es)
<1>1. log' = [log EXCEPT ![i] = lg] /\ ApplyCommits(i, lg)
  BY DEF LearnCommitted
<1>2. Keeps(i, lg)
  <2>1. ASSUME NEW s \in Slot, \E e \in es : e.slot = s
        PROVE  lg[s].committed /\ lg[s].ballot # -1
    <3> DEFINE e == CHOOSE e \in es : e.slot = s
    <3>1. e \in RecoveredEntry
      BY <2>1
    <3>2. lg[s] = [ballot |-> e.ballot, command |-> e.command, committed |-> TRUE]
      BY <2>1 DEF StoreCommitted
    <3> HIDE DEF e, lg
    <3> QED
      BY <3>1, <3>2, BallotOwner DEF RecoveredEntry
  <2>2. ASSUME NEW s \in Slot, ~\E e \in es : e.slot = s PROVE lg[s] = log[i][s]
    BY <2>2 DEF StoreCommitted
  <2> HIDE DEF lg
  <2> QED
    BY <2>1, <2>2 DEF Keeps
<1> HIDE DEF lg
<1>3. lg \in [Slot -> AcceptedValue]
  <2>1. log' \in [Node -> [Slot -> AcceptedValue]]
    BY LearnCommittedEffect
  <2>2. log'[i] = lg
    BY <1>1 DEF TypeOK
  <2> QED
    BY <2>1, <2>2
<1> QED
  BY <1>1, <1>2, <1>3, ApplyCommitsGrows

\* Accepting keeps the slot committed.
LEMMA OnAcceptRequestGrows ==
  ASSUME TypeOK, NEW i \in Node, NEW j \in Node, NEW m \in Message, m.type = "Accept",
         NEW n, OnAcceptRequest(i, j, m, n)
  PROVE  Grows
<1> DEFINE entry == [ballot |-> m.ballot, command |-> m.command,
                     committed |-> log[i][m.slot].committed]
<1>1. log' = log \/ log' = [log EXCEPT ![i][m.slot] = entry]
  BY DEF OnAcceptRequest
<1>2. /\ entry.committed = log[i][m.slot].committed /\ entry.ballot # -1
      /\ m.slot \in Slot
  BY MessageFields, BallotOwner
<1>3. UNCHANGED applied
  BY DEF OnAcceptRequest
<1> HIDE DEF entry
<1>4. ASSUME NEW k \in Node
      PROVE  Keeps(k, log'[k]) /\ \A s \in Slot : log'[k][s].committed = log[k][s].committed
  <2>1. CASE log' = log
    BY <2>1 DEF Keeps
  <2>2. CASE log' = [log EXCEPT ![i][m.slot] = entry]
    <3>1. log \in [Node -> [Slot -> AcceptedValue]]
      BY DEF TypeOK
    <3>2. \A s \in Slot : log'[k][s] = IF k = i /\ s = m.slot THEN entry ELSE log[k][s]
      BY <1>2, <2>2, <3>1
    <3> QED
      BY <1>2, <3>2 DEF Keeps
  <2> QED
    BY <1>1, <2>1, <2>2
<1> QED
  BY <1>3, <1>4, GrowsUnchanged

\* submit_client_command.
LEMMA SubmitGrows ==
  ASSUME TypeOK, NEW i \in Node, NEW cmd \in Value, NEW n, SubmitCommand(i, cmd, n)
  PROVE  Grows
<1>1. CASE is_leader[i]
  <2>1. PICK s \in Slot : ProposeSlots(i, active_ballot[i], [t \in {s} |-> cmd], n)
    BY <1>1 DEF SubmitCommand
  <2> DEFINE cmds == [t \in {s} |-> cmd]
  <2>2. active_ballot[i] \in Ballot /\ {s} \in SUBSET Slot /\ cmds \in [{s} -> Value]
    BY <1>1 DEF TypeOK
  <2>3. ProposeSlots(i, active_ballot[i], cmds, n)
    BY <2>1
  <2> HIDE DEF cmds
  <2> QED
    BY <2>2, <2>3, ProposeSlotsGrows
<1>2. CASE ~is_leader[i]
  BY <1>2, LogKept DEF SubmitCommand, logVars
<1> QED
  BY <1>1, <1>2

\* on_accepted.
LEMMA OnAcceptedGrows ==
  ASSUME TypeOK, NEW i \in Node, NEW j \in Node, NEW m \in Message, m.type = "Accepted",
         NEW n, OnAccepted(i, j, m, n)
  PROVE  Grows
<1> DEFINE counted == /\ is_leader[i]
                      /\ m.ballot = active_ballot[i]
                      /\ proposals[i][m.slot].accepts # {}
           props == [proposals[i] EXCEPT ![m.slot].accepts = @ \cup {j}]
           done  == Committable(props, {m.slot})
<1>1. CASE counted
  <2>1. m.slot \in Slot /\ active_ballot[i] \in Ballot
    BY <1>1, MessageFields DEF TypeOK
  <2>2. CommitSlots(i, active_ballot[i], props, log[i], done)
    BY <1>1 DEF OnAccepted
  <2>3. proposals[i] \in [Slot -> SlotProposal] /\ log[i] \in [Slot -> AcceptedValue]
    BY DEF TypeOK
  <2>4. props \in [Slot -> SlotProposal]
    BY <2>1, <2>3 DEF SlotProposal
  <2>5. done \in SUBSET Slot
    BY <2>1 DEF Committable
  <2>6. Keeps(i, log[i])
    BY DEF Keeps
  <2> HIDE DEF props, done
  <2> QED
    BY <2>1, <2>2, <2>3, <2>4, <2>5, <2>6, CommitSlotsGrows
<1>2. CASE ~counted
  BY <1>2, LogKept DEF OnAccepted
<1> QED
  BY <1>1, <1>2

\* on_promise, with become_leader.
LEMMA OnPromiseGrows ==
  ASSUME TypeOK, NEW i \in Node, NEW j \in Node, NEW m \in Message, m.type = "Promise",
         NEW n, OnPromise(i, j, m, n)
  PROVE  Grows
<1> DEFINE prep == [prepare[i] EXCEPT !.from = @ \cup {j}, !.entries[j] = m.entries]
           won  == /\ ~prepare[i].completed /\ prepare[i].ballot = m.ballot
                   /\ m.ok /\ Cardinality(prep.from) >= Quorum
<1>1. CASE ~won
  <2>1. UNCHANGED logVars
    BY <1>1 DEF OnPromise
  <2> QED
    BY <2>1, LogKept DEF logVars
<1>2. CASE won
  <2>1. BecomeLeader(i, m.ballot, prep, n) /\ m.ballot \in Ballot
    BY <1>2, MessageFields DEF OnPromise
  <2>2. m.entries \in SUBSET RecoveredEntry
    BY MessageFields
  <2> HIDE DEF prep
  <2>3. \E D \in SUBSET Slot : \E cmds \in [D -> Value] : ProposeSlots(i, m.ballot, cmds, n)
    BY <2>1, <2>2, BecomeLeaderProposes DEF prep
  <2> QED
    BY <2>1, <2>3, ProposeSlotsGrows
<1> QED
  BY <1>1, <1>2

\* Every step.
LEMMA NextGrows == ASSUME TypeOK, Next PROVE Grows
<1>1. ASSUME NEW i \in Node, StartElection(i) \/ SendHeartbeat(i) PROVE Grows
  BY <1>1, LogKept DEF StartElection, SendHeartbeat, BroadcastHeartbeat, logVars
<1>2. ASSUME NEW i \in Node, NEW cmd \in Command, ClientSubmit(i, cmd) PROVE Grows
  BY <1>2, SubmitGrows DEF ClientSubmit, Value
<1>3. ASSUME NEW i \in Node, NEW j \in Node, NEW k \in Deliverable(<<j, i>>), Receive(j, i, k)
      PROVE  Grows
  <2> DEFINE c == <<j, i>>
             m == net[c][k]
             n == Taken(c, k)
  <2>1. c \in Channel /\ k \in DOMAIN net[c]
    BY DEF Channel, Deliverable
  <2>2. m \in Message
    <3> HIDE DEF c
    <3> QED
      BY <2>1, TakenType DEF TypeOK
  <2>3. \/ m.type = "Prepare"     /\ OnPrepare(i, j, m, n)
        \/ m.type = "Promise"     /\ OnPromise(i, j, m, n)
        \/ m.type = "Accept"      /\ OnAcceptRequest(i, j, m, n)
        \/ m.type = "Accepted"    /\ OnAccepted(i, j, m, n)
        \/ m.type = "Commit"      /\ OnCommit(i, j, m, n)
        \/ m.type = "Heartbeat"   /\ OnHeartbeat(i, j, m, n)
        \/ m.type = "SyncRequest" /\ OnSyncRequest(i, j, m, n)
        \/ m.type = "SyncData"    /\ OnSyncData(i, j, m, n)
        \/ m.type = "Forward"     /\ OnForwardRequest(i, j, m, n)
    BY <1>3 DEF Receive, OnMessage
  <2> HIDE DEF m, n, c
  <2>4. CASE \/ OnPrepare(i, j, m, n)
             \/ OnHeartbeat(i, j, m, n)
             \/ OnSyncRequest(i, j, m, n)
    BY <2>4, LogKept DEF OnPrepare, OnHeartbeat, OnSyncRequest, logVars
  <2>5. CASE m.type = "Commit" /\ OnCommit(i, j, m, n)
    <3> DEFINE e == [slot |-> m.slot, ballot |-> m.ballot, command |-> m.command]
    <3>1. e \in RecoveredEntry
      BY <2>2, <2>5, MessageFields DEF RecoveredEntry
    <3>2. LearnCommitted(i, {e})
      BY <2>5 DEF OnCommit
    <3> HIDE DEF e
    <3> QED
      BY <3>1, <3>2, LearnCommittedGrows
  <2>6. CASE m.type = "SyncData" /\ OnSyncData(i, j, m, n)
    BY <2>2, <2>6, MessageFields, LearnCommittedGrows DEF OnSyncData
  <2>7. CASE m.type = "Forward" /\ OnForwardRequest(i, j, m, n)
    BY <2>2, <2>7, MessageFields, SubmitGrows DEF OnForwardRequest
  <2> QED
    BY <2>2, <2>3, <2>4, <2>5, <2>6, <2>7, OnPromiseGrows, OnAcceptRequestGrows, OnAcceptedGrows
<1> QED
  BY <1>1, <1>2, <1>3 DEF Next

\* A prefix, element by element.
LEMMA PrefixElts ==
  ASSUME NEW S, NEW s \in Seq(S), NEW t \in Seq(S)
  PROVE  IsPrefix(s, t) <=> /\ Len(s) <= Len(t)
                            /\ \A k \in 1..Len(s) : t[k] = s[k]
<1>1. Len(s) \in Nat /\ Len(t) \in Nat
  OBVIOUS
<1>2. SubSeq(s, 1, Len(s)) = s
  OBVIOUS
<1>3. ASSUME Len(s) <= Len(t)
      PROVE  /\ SubSeq(t, 1, Len(s)) \in Seq(S)
             /\ Len(SubSeq(t, 1, Len(s))) = Len(s)
             /\ \A k \in 1..Len(s) : SubSeq(t, 1, Len(s))[k] = t[k]
  BY <1>1, <1>3
<1>4. ASSUME Len(s) <= Len(t)
      PROVE  SubSeq(t, 1, Len(s)) = s <=> \A k \in 1..Len(s) : t[k] = s[k]
  <2> DEFINE u == SubSeq(t, 1, Len(s))
  <2>1. u \in Seq(S) /\ Len(u) = Len(s) /\ \A k \in 1..Len(s) : u[k] = t[k]
    BY <1>3, <1>4
  <2> HIDE DEF u
  <2>2. u = s <=> \A k \in 1..Len(s) : u[k] = s[k]
    BY <2>1, SeqEqual
  <2> QED
    BY <2>1, <2>2 DEF u
<1> QED
  BY <1>2, <1>4 DEF IsPrefix

\* The applied log of every node only grows, and its commits are for ever:
\* apply_commits appends, and nothing takes an entry back.
AppliedGrows ==
  \A i \in Node : /\ IsPrefix(applied[i], applied'[i])
                  /\ \A s \in Slot : log[i][s].committed => log'[i][s].committed

THEOREM NothingTakenBack == Spec => [][AppliedGrows]_vars
<1>1. ASSUME TypeOK, [Next]_vars PROVE [AppliedGrows]_vars
  <2>1. CASE Next
    <3>1. Grows
      BY <1>1, <2>1, NextGrows
    <3>2. \A i \in Node : applied[i] \in Seq(Value) /\ applied'[i] \in Seq(Value)
      BY <1>1, NextType DEF TypeOK
    <3>3. ASSUME NEW i \in Node PROVE IsPrefix(applied[i], applied'[i])
      <4>1. /\ Len(applied[i]) <= Len(applied'[i])
            /\ \A s \in 1..Len(applied[i]) : applied'[i][s] = applied[i][s]
        BY <3>1 DEF Grows
      <4> QED
        BY <3>2, <4>1, PrefixElts
    <3> QED
      BY <3>1, <3>3 DEF Grows, Keeps, AppliedGrows
  <2>2. CASE UNCHANGED vars
    BY <2>2
  <2> QED
    BY <1>1, <2>1, <2>2
<1> QED
  BY <1>1, TypeCorrect, PTL DEF Spec

(***************************************************************************)
(* Winning an election commits nothing.                                    *)
(***************************************************************************)

\* A quorum of accepts never lies about: the accept that completes it commits
\* the slot and erases the proposal (try_commit_slot), and the node that
\* proposed is the first to accept (propose_slot).
Open(i, p) == Cardinality(p.accepts) < Quorum /\ (p.accepts # {} => i \in p.accepts)

OpenProposals == \A i \in Node, s \in Slot : Open(i, proposals[i][s])

LEMMA QuorumPositive == Quorum \in Nat /\ Quorum >= 1
<1>1. Cardinality(Node) \in Nat
  BY NodesFinite, FS_CardinalityType
<1> QED
  BY <1>1 DEF Quorum

LEMMA NoProposalOpen == ASSUME NEW i \in Node PROVE Open(i, NoProposal)
<1>1. Cardinality({}) = 0
  BY FS_EmptySet
<1> QED
  BY <1>1, QuorumPositive DEF Open, NoProposal

\* try_commit_slot leaves no proposal with a quorum.
LEMMA CommitSlotsOpen ==
  ASSUME TypeOK, OpenProposals, NEW i \in Node, NEW b, NEW lg,
         NEW props \in [Slot -> SlotProposal], NEW S \in SUBSET Slot,
         \A s \in Slot : props[s].accepts # {} => i \in props[s].accepts,
         \A s \in Slot \ Committable(props, S) : props[s] = proposals[i][s] \/ s \in S,
         CommitSlots(i, b, props, lg, Committable(props, S))
  PROVE  OpenProposals'
<1> DEFINE D == Committable(props, S)
<1>1. proposals' = [proposals EXCEPT ![i] = [s \in Slot |-> IF s \in D THEN NoProposal ELSE props[s]]]
  BY DEF CommitSlots
<1>2. ASSUME NEW s \in Slot \ D PROVE Open(i, props[s])
  <2>1. CASE s \in S
    <3>1. props[s].accepts \in SUBSET Node
      BY DEF SlotProposal
    <3>2. Cardinality(props[s].accepts) \in Nat
      BY <3>1, NodesFinite, FS_Subset, FS_CardinalityType
    <3>3. ~(Cardinality(props[s].accepts) >= Quorum)
      BY <1>2, <2>1 DEF Committable
    <3> QED
      BY <1>2, <3>2, <3>3, QuorumPositive DEF Open
  <2>2. CASE s \notin S
    BY <1>2, <2>2 DEF OpenProposals
  <2> QED
    BY <2>1, <2>2
<1> HIDE DEF D
<1>3. ASSUME NEW k \in Node, NEW s \in Slot PROVE Open(k, proposals'[k][s])
  <2>1. proposals \in [Node -> [Slot -> SlotProposal]]
    BY DEF TypeOK
  <2>2. CASE k = i /\ s \in D
    <3>1. proposals'[k][s] = NoProposal
      BY <1>1, <2>1, <2>2
    <3> QED
      BY <3>1, NoProposalOpen
  <2>3. CASE k = i /\ s \notin D
    <3>1. proposals'[k][s] = props[s]
      BY <1>1, <2>1, <2>3
    <3> QED
      BY <1>2, <2>3, <3>1
  <2>4. CASE k # i
    <3>1. proposals'[k] = proposals[k]
      BY <1>1, <2>1, <2>4
    <3> QED
      BY <3>1 DEF OpenProposals
  <2> QED
    BY <2>2, <2>3, <2>4
<1> QED
  BY <1>3 DEF OpenProposals, Open

LEMMA ProposeSlotsOpen ==
  ASSUME TypeOK, OpenProposals, NEW i \in Node, NEW b,
         NEW D \in SUBSET Slot, NEW cmds \in [D -> Value], NEW n, ProposeSlots(i, b, cmds, n)
  PROVE  OpenProposals'
<1> DEFINE props == [s \in Slot |-> IF s \in D
                       THEN [command |-> cmds[s], accepts |-> proposals[i][s].accepts \cup {i}]
                       ELSE proposals[i][s]]
           lg    == [s \in Slot |-> IF s \in D
                       THEN [ballot |-> b, command |-> cmds[s], committed |-> log[i][s].committed]
                       ELSE log[i][s]]
<1>1. CommitSlots(i, b, props, lg, Committable(props, D))
  BY DEF ProposeSlots
<1>2. proposals[i] \in [Slot -> SlotProposal]
  BY DEF TypeOK
<1>3. props \in [Slot -> SlotProposal]
  BY <1>2 DEF SlotProposal
<1>4. \A s \in Slot : props[s].accepts # {} => i \in props[s].accepts
  BY DEF OpenProposals, Open
<1>5. \A s \in Slot : props[s] = proposals[i][s] \/ s \in D
  OBVIOUS
<1> HIDE DEF props, lg
<1> QED
  BY <1>1, <1>3, <1>4, <1>5, CommitSlotsOpen

LEMMA SubmitOpen ==
  ASSUME TypeOK, OpenProposals, NEW i \in Node, NEW cmd \in Value, NEW n, SubmitCommand(i, cmd, n)
  PROVE  OpenProposals'
<1>1. CASE is_leader[i]
  <2>1. PICK s \in Slot : ProposeSlots(i, active_ballot[i], [t \in {s} |-> cmd], n)
    BY <1>1 DEF SubmitCommand
  <2> DEFINE cmds == [t \in {s} |-> cmd]
  <2>2. {s} \in SUBSET Slot /\ cmds \in [{s} -> Value] /\ ProposeSlots(i, active_ballot[i], cmds, n)
    BY <2>1
  <2> HIDE DEF cmds
  <2> QED
    BY <2>2, ProposeSlotsOpen
<1>2. CASE ~is_leader[i]
  BY <1>2 DEF SubmitCommand, leadVars, OpenProposals
<1> QED
  BY <1>1, <1>2

LEMMA OnAcceptedOpen ==
  ASSUME TypeOK, OpenProposals, NEW i \in Node, NEW j \in Node,
         NEW m \in Message, m.type = "Accepted", NEW n, OnAccepted(i, j, m, n)
  PROVE  OpenProposals'
<1> DEFINE counted == /\ is_leader[i]
                      /\ m.ballot = active_ballot[i]
                      /\ proposals[i][m.slot].accepts # {}
           props == [proposals[i] EXCEPT ![m.slot].accepts = @ \cup {j}]
<1>1. CASE counted
  <2>1. m.slot \in Slot /\ proposals[i] \in [Slot -> SlotProposal]
    BY MessageFields DEF TypeOK
  <2>2. CommitSlots(i, active_ballot[i], props, log[i], Committable(props, {m.slot}))
    BY <1>1 DEF OnAccepted
  <2>3. props \in [Slot -> SlotProposal]
    BY <2>1 DEF SlotProposal
  <2>4. ASSUME NEW s \in Slot
        PROVE  /\ props[s].accepts # {} => i \in props[s].accepts
               /\ props[s] = proposals[i][s] \/ s \in {m.slot}
    <3>1. proposals[i][s].accepts # {} => i \in proposals[i][s].accepts
      BY DEF OpenProposals, Open
    <3> QED
      BY <1>1, <2>1, <3>1 DEF SlotProposal
  <2> HIDE DEF props
  <2> QED
    BY <2>1, <2>2, <2>3, <2>4, CommitSlotsOpen
<1>2. CASE ~counted
  BY <1>2 DEF OnAccepted, OpenProposals
<1> QED
  BY <1>1, <1>2

\* What become_leader does with the proposals it is left with, when there are at
\* least two nodes: with the accept of the node itself, counted already, none
\* has a quorum, and commits that were applied already add nothing.
LEMMA WinningCommitsNone ==
  ASSUME TypeOK, OpenProposals, NEW i \in Node, FullyApplied(i), Cardinality(Node) > 1, NEW b,
         NEW D \in SUBSET Slot, NEW cmds \in [D -> Value], NEW n, ProposeSlots(i, b, cmds, n)
  PROVE  /\ applied'[i] = applied[i]
         /\ \A s \in Slot : log'[i][s].committed = log[i][s].committed
<1> DEFINE props == [s \in Slot |-> IF s \in D
                       THEN [command |-> cmds[s], accepts |-> proposals[i][s].accepts \cup {i}]
                       ELSE proposals[i][s]]
           lg    == [s \in Slot |-> IF s \in D
                       THEN [ballot |-> b, command |-> cmds[s], committed |-> log[i][s].committed]
                       ELSE log[i][s]]
           done  == Committable(props, D)
           lg1   == [s \in Slot |-> IF s \in done
                       THEN [ballot |-> b, command |-> props[s].command, committed |-> TRUE]
                       ELSE lg[s]]
<1>1. CommitSlots(i, b, props, lg, done)
  BY DEF ProposeSlots
<1>2. ASSUME NEW s \in D PROVE ~(Cardinality(props[s].accepts) >= Quorum)
  <2>1. props[s].accepts = proposals[i][s].accepts \/ props[s].accepts = {i}
    BY DEF OpenProposals, Open
  <2>2. Cardinality({i}) = 1 /\ Cardinality(Node) \in Nat
    BY NodesFinite, FS_Singleton, FS_CardinalityType
  <2>3. Quorum >= 2 /\ Quorum \in Nat
    BY <2>2 DEF Quorum
  <2>4. Cardinality(proposals[i][s].accepts) \in Nat
    <3>1. proposals[i][s].accepts \in SUBSET Node
      BY DEF TypeOK, SlotProposal
    <3> QED
      BY <3>1, NodesFinite, FS_Subset, FS_CardinalityType
  <2>5. Cardinality(proposals[i][s].accepts) < Quorum
    BY DEF OpenProposals, Open
  <2> HIDE DEF props
  <2> QED
    BY <2>1, <2>2, <2>3, <2>4, <2>5
<1>3. done = {}
  BY <1>2 DEF Committable
<1>4. log' = [log EXCEPT ![i] = lg1] /\ ApplyCommits(i, lg1)
  BY <1>1 DEF CommitSlots
<1>5. \A s \in Slot : lg1[s].committed = log[i][s].committed
  BY <1>3
<1> HIDE DEF props, lg, done, lg1
<1>6. log'[i] = lg1
  BY <1>4 DEF TypeOK
<1>7. applied'[i] = applied[i]
  <2>1. /\ MaxSlot \in Nat /\ applied \in [Node -> Seq(Value)] /\ applied[i] \in Seq(Value)
        /\ Len(applied[i]) \in Nat /\ Len(applied[i]) <= MaxSlot
    BY BoundAssumption DEF TypeOK, CommitIndex
  <2> DEFINE old == Len(applied[i])
  <2>2. PICK last \in old..MaxSlot :
          /\ \A s \in old + 1 .. last : lg1[s].committed
          /\ applied' = [applied EXCEPT ![i] =
               [s \in 1..last |-> IF s <= old THEN applied[i][s] ELSE lg1[s].command]]
    BY <1>4 DEF ApplyCommits, CommitIndex
  <2>3. last = old
    <3>1. SUFFICES ASSUME last # old PROVE FALSE
      OBVIOUS
    <3>2. old + 1 \in old + 1 .. last /\ old + 1 \in Slot /\ old < MaxSlot
      BY <2>1, <3>1 DEF Slot
    <3>3. lg1[old + 1].committed
      BY <2>2, <3>2
    <3>4. ~log[i][old + 1].committed
      BY <3>2 DEF FullyApplied, CommitIndex
    <3> QED
      BY <1>5, <3>2, <3>3, <3>4
  <2>4. applied'[i] = [s \in 1..last |-> IF s <= old THEN applied[i][s] ELSE lg1[s].command]
    BY <2>1, <2>2
  <2>5. applied'[i] = [s \in 1..old |-> applied[i][s]]
    BY <2>1, <2>3, <2>4
  <2>6. applied[i] = [s \in 1..old |-> applied[i][s]]
    BY <2>1
  <2> QED
    BY <2>5, <2>6
<1> QED
  BY <1>5, <1>6, <1>7

\* i may become the leader, and proposes what was recovered; nobody else does.
WinsAlone(i) ==
  /\ \A k \in Node \ {i} : is_leader'[k] => is_leader[k]
  /\ \E b, n : \E D \in SUBSET Slot : \E cmds \in [D -> Value] : ProposeSlots(i, b, cmds, n)

NobodyWins == \A k \in Node : is_leader'[k] => is_leader[k]

\* A promise completes the quorum, or makes no leader.
LEMMA OnPromiseOpen ==
  ASSUME TypeOK, OpenProposals, NEW i \in Node, NEW j \in Node,
         NEW m \in Message, m.type = "Promise", NEW n, OnPromise(i, j, m, n)
  PROVE  OpenProposals' /\ (WinsAlone(i) \/ NobodyWins)
<1> DEFINE prep == [prepare[i] EXCEPT !.from = @ \cup {j}, !.entries[j] = m.entries]
           won  == /\ ~prepare[i].completed /\ prepare[i].ballot = m.ballot
                   /\ m.ok /\ Cardinality(prep.from) >= Quorum
<1>1. CASE ~won
  <2>1. UNCHANGED proposals
    BY <1>1 DEF OnPromise
  <2>2. UNCHANGED is_leader \/ StepDownIfStale(i, m.ballot)
    BY <1>1 DEF OnPromise
  <2>3. NobodyWins
    BY <2>2 DEF StepDownIfStale, TypeOK, NobodyWins
  <2> QED
    BY <2>1, <2>3 DEF OpenProposals
<1>2. CASE won
  <2>1. BecomeLeader(i, m.ballot, prep, n) /\ m.entries \in SUBSET RecoveredEntry
    BY <1>2, MessageFields DEF OnPromise
  <2> HIDE DEF prep
  <2>2. PICK D \in SUBSET Slot : \E cmds \in [D -> Value] : ProposeSlots(i, m.ballot, cmds, n)
    BY <2>1, BecomeLeaderProposes DEF prep
  <2>3. PICK cmds \in [D -> Value] : ProposeSlots(i, m.ballot, cmds, n)
    BY <2>2
  <2>4. is_leader' = [is_leader EXCEPT ![i] = TRUE]
    BY <2>1 DEF BecomeLeader
  <2>5. \A k \in Node \ {i} : is_leader'[k] => is_leader[k]
    BY <2>4 DEF TypeOK
  <2>6. WinsAlone(i)
    BY <2>3, <2>5 DEF WinsAlone
  <2>7. OpenProposals'
    BY <2>3, ProposeSlotsOpen
  <2> QED
    BY <2>6, <2>7
<1> QED
  BY <1>1, <1>2

\* Every step leaves the proposals open, and only a promise makes a leader.
LEMMA NextOpen ==
  ASSUME TypeOK, OpenProposals, Next
  PROVE  OpenProposals' /\ (NobodyWins \/ \E i \in Node : WinsAlone(i))
<1>1. ASSUME UNCHANGED <<is_leader, proposals>> PROVE OpenProposals' /\ NobodyWins
  BY <1>1 DEF OpenProposals, NobodyWins
<1>2. ASSUME NEW i \in Node, NEW b, StepDownIfStale(i, b) PROVE NobodyWins
  BY <1>2 DEF StepDownIfStale, NobodyWins, TypeOK
<1>3. ASSUME NEW i \in Node, StartElection(i) \/ SendHeartbeat(i) PROVE OpenProposals' /\ NobodyWins
  BY <1>1, <1>3 DEF StartElection, SendHeartbeat, BroadcastHeartbeat, voteVars, leadVars
<1>4. ASSUME NEW i \in Node, NEW cmd \in Value, NEW n, SubmitCommand(i, cmd, n)
      PROVE  OpenProposals' /\ NobodyWins
  <2>1. UNCHANGED is_leader
    BY <1>4 DEF SubmitCommand, voteVars
  <2> QED
    BY <1>4, <2>1, SubmitOpen DEF NobodyWins
<1>5. ASSUME NEW i \in Node, NEW cmd \in Command, ClientSubmit(i, cmd)
      PROVE  OpenProposals' /\ NobodyWins
  BY <1>4, <1>5 DEF ClientSubmit, Value
<1>6. ASSUME NEW i \in Node, NEW j \in Node, NEW k \in Deliverable(<<j, i>>), Receive(j, i, k)
      PROVE  OpenProposals' /\ (NobodyWins \/ WinsAlone(i))
  <2> DEFINE m == net[<<j, i>>][k]
             n == Taken(<<j, i>>, k)
  <2>1. m \in Message
    BY ReceivedMessage
  <2>2. OnMessage(i, j, m, n)
    BY <1>6 DEF Receive
  <2> HIDE DEF m, n
  <2>3. CASE m.type = "Promise" /\ OnPromise(i, j, m, n)
    BY <2>1, <2>3, OnPromiseOpen
  <2>4. CASE m.type = "Accepted" /\ OnAccepted(i, j, m, n)
    <3>1. UNCHANGED is_leader \/ StepDownIfStale(i, m.ballot)
      BY <2>4 DEF OnAccepted
    <3>2. NobodyWins
      BY <1>2, <3>1 DEF NobodyWins
    <3> QED
      BY <2>1, <2>4, <3>2, OnAcceptedOpen
  <2>5. CASE m.type = "Forward" /\ OnForwardRequest(i, j, m, n)
    BY <1>4, <2>1, <2>5, MessageFields DEF OnForwardRequest
  <2>6. CASE m.type \notin {"Promise", "Accepted", "Forward"}
    <3>1. UNCHANGED proposals
      BY <2>2, <2>6 DEF OnMessage, OnPrepare, OnAcceptRequest, OnCommit, OnHeartbeat,
                        OnSyncRequest, OnSyncData, leadVars
    <3>2. UNCHANGED is_leader \/ StepDownIfStale(i, m.ballot)
      BY <2>2, <2>6 DEF OnMessage, OnPrepare, OnAcceptRequest, OnCommit, OnHeartbeat,
                        OnSyncRequest, OnSyncData, voteVars
    <3>3. NobodyWins
      BY <1>2, <3>2 DEF NobodyWins
    <3> QED
      BY <3>1, <3>3 DEF OpenProposals
  <2> QED
    BY <2>2, <2>3, <2>4, <2>5, <2>6 DEF OnMessage
<1> QED
  BY <1>3, <1>5, <1>6 DEF Next

\* What follows from the three facts below.
WinInv == TypeOK /\ OpenProposals /\ \A i \in Node : FullyApplied(i)

LEMMA InitWin == Init => WinInv
<1> SUFFICES ASSUME Init PROVE WinInv
  OBVIOUS
<1>1. TypeOK
  BY InitType
<1>2. OpenProposals
  BY NoProposalOpen DEF Init, OpenProposals, Open
<1>3. \A i \in Node : FullyApplied(i)
  <2> SUFFICES ASSUME NEW i \in Node, CommitIndex(i) < MaxSlot
               PROVE  ~log[i][CommitIndex(i) + 1].committed
    BY DEF FullyApplied
  <2>1. CommitIndex(i) = 0
    BY DEF Init, CommitIndex
  <2>2. 1 \in Slot
    BY <2>1, BoundAssumption DEF Slot
  <2> QED
    BY <2>1, <2>2 DEF Init, NoEntry
<1> QED
  BY <1>1, <1>2, <1>3 DEF WinInv

LEMMA NextWin == WinInv /\ [Next]_vars => WinInv'
<1> SUFFICES ASSUME WinInv, [Next]_vars PROVE WinInv'
  OBVIOUS
<1>1. TypeOK'
  BY NextType DEF WinInv
<1>2. CASE Next
  <2>1. OpenProposals'
    BY <1>2, NextOpen DEF WinInv
  <2>2. \A i \in Node : FullyApplied(i)'
    BY <1>2, NextGrows DEF WinInv, Grows
  <2> QED
    BY <1>1, <2>1, <2>2 DEF WinInv
<1>3. CASE UNCHANGED vars
  <2>1. UNCHANGED <<log, applied, proposals>>
    BY <1>3 DEF vars, logVars, leadVars
  <2> QED
    BY <1>1, <2>1 DEF WinInv, OpenProposals, FullyApplied, CommitIndex
<1> QED
  BY <1>2, <1>3

\* In a cluster of two nodes or more nothing is committed by winning an
\* election: what become_leader proposes again, with the accepts counted for it
\* under earlier ballots, still needs the answer of another node (propose_slot,
\* paxos.cpp:497, and try_commit_slot).
THEOREM WinningCommitsNothing == Cardinality(Node) > 1 => (Spec => ElectionCommitsNothing)
<1> SUFFICES ASSUME Cardinality(Node) > 1 PROVE Spec => ElectionCommitsNothing
  OBVIOUS
<1> DEFINE Won(i) == ~is_leader[i] /\ is_leader'[i] =>
             /\ applied'[i] = applied[i]
             /\ \A s \in Slot : log'[i][s].committed = log[i][s].committed
<1>1. ASSUME WinInv, [Next]_vars PROVE [\A i \in Node : Won(i)]_vars
  <2>1. CASE Next
    <3> SUFFICES ASSUME NEW i \in Node, ~is_leader[i], is_leader'[i]
                 PROVE  /\ applied'[i] = applied[i]
                        /\ \A s \in Slot : log'[i][s].committed = log[i][s].committed
      OBVIOUS
    <3>1. WinsAlone(i)
      BY <1>1, <2>1, NextOpen DEF WinInv, NobodyWins, WinsAlone
    <3>2. PICK b, n : \E D \in SUBSET Slot : \E cmds \in [D -> Value] : ProposeSlots(i, b, cmds, n)
      BY <3>1 DEF WinsAlone
    <3> QED
      BY <1>1, <3>2, WinningCommitsNone DEF WinInv
  <2>2. CASE UNCHANGED vars
    BY <2>2
  <2> QED
    BY <1>1, <2>1, <2>2
<1>2. Init => WinInv
  BY InitWin
<1>3. WinInv /\ [Next]_vars => WinInv'
  BY NextWin
<1> QED
  BY <1>1, <1>2, <1>3, PTL DEF Spec, ElectionCommitsNothing

(***************************************************************************)
(* Forwarded commands in transit, by their place in the channels.          *)
(***************************************************************************)

\* The places of the network n that hold a forwarded cmd.
Forwarded(n, cmd) ==
  {p \in Channel \X Nat :
     p[2] \in DOMAIN n[p[1]] /\ n[p[1]][p[2]] = [type |-> "Forward", command |-> cmd]}

\* n1 is n with messages appended, none of them a forwarded command.
Answers(n1, n) == \A cmd : Forwarded(n1, cmd) \subseteq Forwarded(n, cmd)

\* What sending does to the places of a channel: k was there, or is in out.
Placed(n, i, out, c, k) ==
  \/ k \in DOMAIN n[c] /\ Emit(n, i, out)[c][k] = n[c][k]
  \/ /\ c[1] = i
     /\ k - Len(n[c]) \in DOMAIN out[c[2]]
     /\ Emit(n, i, out)[c][k] = out[c[2]][k - Len(n[c])]

LEMMA EmitPlaces ==
  ASSUME NEW n \in [Channel -> Seq(Message)], NEW i \in Node,
         NEW out \in [Node -> Seq(Message)]
  PROVE  \A c \in Channel : \A k \in DOMAIN Emit(n, i, out)[c] : Placed(n, i, out, c, k)
<1> SUFFICES ASSUME NEW c \in Channel, NEW k \in DOMAIN Emit(n, i, out)[c]
             PROVE  Placed(n, i, out, c, k)
  OBVIOUS
<1>1. c[2] \in Node
  BY DEF Channel
<1> DEFINE s == n[c]
           t == out[c[2]]
<1>2. s \in Seq(Message) /\ t \in Seq(Message)
  BY <1>1
<1>3. Emit(n, i, out)[c] = IF c[1] = i THEN s \o t ELSE s
  BY DEF Emit
<1> HIDE DEF s, t
<1>4. ASSUME c[1] = i, k \notin DOMAIN s
      PROVE  k - Len(s) \in DOMAIN t /\ (s \o t)[k] = t[k - Len(s)]
  BY <1>2, <1>3, <1>4
<1>5. k \in DOMAIN s => (s \o t)[k] = s[k]
  BY <1>2
<1> QED
  BY <1>3, <1>4, <1>5 DEF s, t, Placed

\* Sending anything but forwarded commands.
LEMMA EmitAnswers ==
  ASSUME NEW n \in [Channel -> Seq(Message)], NEW i \in Node,
         NEW out \in [Node -> Seq(Message)],
         \A j \in Node : \A m \in Range(out[j]) : m.type # "Forward"
  PROVE  Answers(Emit(n, i, out), n)
<1> SUFFICES ASSUME NEW cmd, NEW c \in Channel, NEW k \in Nat,
                    k \in DOMAIN Emit(n, i, out)[c],
                    Emit(n, i, out)[c][k] = [type |-> "Forward", command |-> cmd]
             PROVE  k \in DOMAIN n[c] /\ n[c][k] = [type |-> "Forward", command |-> cmd]
  BY DEF Answers, Forwarded
<1>1. ASSUME k - Len(n[c]) \in DOMAIN out[c[2]],
             Emit(n, i, out)[c][k] = out[c[2]][k - Len(n[c])]
      PROVE  FALSE
  <2>1. c[2] \in Node
    BY DEF Channel
  <2>2. out[c[2]][k - Len(n[c])] \in Range(out[c[2]])
    BY <1>1 DEF Range
  <2> QED
    BY <1>1, <2>1, <2>2
<1>2. Placed(n, i, out, c, k)
  BY EmitPlaces
<1> QED
  BY <1>1, <1>2 DEF Placed

\* Answering one node, or all of them.
LEMMA UnicastAnswers ==
  ASSUME NEW n \in [Channel -> Seq(Message)], NEW i \in Node, NEW to, NEW m \in Message,
         m.type # "Forward"
  PROVE  Answers(Emit(n, i, Unicast(to, m)), n)
BY UnicastType, EmitAnswers

LEMMA BroadcastAnswers ==
  ASSUME NEW n \in [Channel -> Seq(Message)], NEW i \in Node, NEW ms \in Seq(Message),
         \A m \in Range(ms) : m.type # "Forward"
  PROVE  Answers(Emit(n, i, Broadcast(ms)), n)
BY BroadcastType, EmitAnswers

\* Forwarding a command adds it in one place.
LEMMA ForwardPlaces ==
  ASSUME NEW n \in [Channel -> Seq(Message)], NEW i \in Node, NEW to, NEW v \in Value, NEW cmd
  PROVE  Forwarded(Emit(n, i, Unicast(to, [type |-> "Forward", command |-> v])), cmd)
           \subseteq IF cmd = v
                       THEN Forwarded(n, cmd) \cup {<< <<i, to>>, Len(n[<<i, to>>]) + 1 >>}
                       ELSE Forwarded(n, cmd)
<1> DEFINE m == [type |-> "Forward", command |-> v]
           out == Unicast(to, m)
<1>1. m \in Message
  BY DEF Message
<1>2. out \in [Node -> Seq(Message)]
  BY <1>1, UnicastType
<1>3. ASSUME NEW c \in Channel, NEW l \in DOMAIN out[c[2]]
      PROVE  c[2] = to /\ l = 1 /\ out[c[2]][l] = m
  <2>1. c[2] \in Node
    BY DEF Channel
  <2>2. out[c[2]] = IF c[2] = to THEN <<m>> ELSE <<>>
    BY <2>1 DEF Unicast
  <2> HIDE DEF out, m
  <2>3. DOMAIN <<m>> = {1} /\ DOMAIN <<>> = {} /\ <<m>>[1] = m
    OBVIOUS
  <2> QED
    BY <1>3, <2>2, <2>3
<1>4. \A c \in Channel : c = <<c[1], c[2]>>
  BY DEF Channel
<1> HIDE DEF out
<1>5. ASSUME NEW p \in Forwarded(Emit(n, i, out), cmd), p \notin Forwarded(n, cmd)
      PROVE  cmd = v /\ p = << <<i, to>>, Len(n[<<i, to>>]) + 1 >>
  <2> DEFINE c == p[1]
             k == p[2]
  <2>1. /\ c \in Channel /\ k \in Nat /\ p = <<c, k>>
        /\ k \in DOMAIN Emit(n, i, out)[c]
        /\ Emit(n, i, out)[c][k] = [type |-> "Forward", command |-> cmd]
    BY <1>5 DEF Forwarded
  <2>2. ~(k \in DOMAIN n[c] /\ n[c][k] = [type |-> "Forward", command |-> cmd])
    BY <1>5, <2>1 DEF Forwarded
  <2> HIDE DEF c, k
  <2>3. /\ c[1] = i
        /\ k - Len(n[c]) \in DOMAIN out[c[2]]
        /\ Emit(n, i, out)[c][k] = out[c[2]][k - Len(n[c])]
    <3>1. Placed(n, i, out, c, k)
      BY <1>2, <2>1, EmitPlaces
    <3> QED
      BY <2>1, <2>2, <3>1 DEF Placed
  <2>4. c[2] = to /\ k - Len(n[c]) = 1 /\ m = [type |-> "Forward", command |-> cmd]
    BY <1>3, <2>1, <2>3
  <2>5. Len(n[c]) \in Nat
    BY <2>1
  <2>6. k = Len(n[c]) + 1
    BY <2>1, <2>4, <2>5
  <2>7. cmd = v
    BY <2>4
  <2>8. c = <<i, to>>
    BY <1>4, <2>1, <2>3, <2>4
  <2> QED
    BY <2>1, <2>6, <2>7, <2>8
<1> HIDE DEF m
<1> QED
  BY <1>5 DEF out, m

\* Taking a message leaves the other places, moved up, or loses some; a
\* forwarded command that is taken is gone.
LEMMA TakenForwards ==
  ASSUME net \in [Channel -> Seq(Message)],
         NEW c \in Channel, NEW k \in DOMAIN net[c], NEW cmd, IsFiniteSet(Forwarded(net, cmd))
  PROVE  /\ IsFiniteSet(Forwarded(Taken(c, k), cmd))
         /\ Cardinality(Forwarded(Taken(c, k), cmd))
              <= Cardinality(Forwarded(net, cmd) \ {<<c, k>>})
<1> DEFINE s == net[c]
           t == Taken(c, k)[c]
           F == Forwarded(Taken(c, k), cmd)
           G == Forwarded(net, cmd) \ {<<c, k>>}
           was(l) == IF Network = "reordering" /\ l < k THEN l
                     ELSE IF Network = "reordering" THEN l + 1 ELSE l + k
           f == [p \in F |-> IF p[1] = c THEN <<c, was(p[2])>> ELSE p]
<1>1. s \in Seq(Message) /\ k \in 1..Len(s) /\ Len(s) \in Nat
  OBVIOUS
<1>2. \A d \in Channel \ {c} : Taken(c, k)[d] = net[d]
  BY DEF Taken
<1>3. t = IF Network = "reordering"
            THEN SubSeq(s, 1, k - 1) \o SubSeq(s, k + 1, Len(s))
            ELSE SubSeq(s, k + 1, Len(s))
  BY DEF Taken
<1> HIDE DEF t, s
<1>4. ASSUME NEW l \in DOMAIN t, l \in Nat
      PROVE  was(l) \in Nat /\ was(l) # k /\ was(l) \in DOMAIN s /\ t[l] = s[was(l)]
  <2> DEFINE a == SubSeq(s, 1, k - 1)
             b == SubSeq(s, k + 1, Len(s))
  <2>1. /\ a \in Seq(Message) /\ b \in Seq(Message)
        /\ Len(a) = k - 1 /\ Len(b) = Len(s) - k
        /\ \A x \in 1..k-1 : a[x] = s[x]
        /\ \A x \in 1..Len(s)-k : b[x] = s[x + k]
    BY <1>1
  <2>2. t = IF Network = "reordering" THEN a \o b ELSE b
    BY <1>3
  <2> HIDE DEF a, b
  <2>3. CASE Network # "reordering"
    BY <1>1, <1>4, <2>1, <2>2, <2>3
  <2>4. CASE Network = "reordering"
    <3>1. DOMAIN t = 1..Len(s) - 1
      BY <1>1, <2>1, <2>2, <2>4
    <3>2. CASE l < k
      <4>1. l \in 1..k-1
        BY <1>1, <1>4, <3>1, <3>2
      <4>2. (a \o b)[l] = a[l]
        BY <1>1, <2>1, <4>1
      <4> QED
        BY <1>1, <2>1, <2>2, <2>4, <4>1, <4>2
    <3>3. CASE ~(l < k)
      <4>1. l - (k - 1) \in 1..Len(s) - k
        BY <1>1, <1>4, <3>1, <3>3
      <4>2. (a \o b)[l] = b[l - (k - 1)]
        <5>1. l \in Len(a) + 1 .. Len(a) + Len(b)
          BY <1>1, <1>4, <2>1, <3>1, <3>3
        <5>2. (a \o b)[l] = b[l - Len(a)]
          BY <2>1, <5>1
        <5> QED
          BY <2>1, <5>2
      <4>3. b[l - (k - 1)] = s[l + 1]
        <5>1. l - (k - 1) + k = l + 1
          BY <1>1, <1>4
        <5> QED
          BY <2>1, <4>1, <5>1
      <4> QED
        BY <1>1, <1>4, <2>2, <2>4, <3>1, <3>3, <4>2, <4>3
    <3> QED
      BY <3>2, <3>3
  <2> QED
    BY <2>3, <2>4
<1>5. ASSUME NEW x \in Nat, NEW y \in Nat, was(x) = was(y) PROVE x = y
  BY <1>1, <1>5
<1>6. ASSUME NEW p \in F
      PROVE  /\ f[p] \in G
             /\ p[1] \in Channel /\ p[2] \in Nat /\ p = <<p[1], p[2]>>
             /\ p[1] = c => f[p] = <<c, was(p[2])>>
             /\ p[1] # c => f[p] = p
             /\ f[p][1] = p[1]
  <2>1. /\ p \in Channel \X Nat
        /\ p[2] \in DOMAIN Taken(c, k)[p[1]]
        /\ Taken(c, k)[p[1]][p[2]] = [type |-> "Forward", command |-> cmd]
    BY <1>6 DEF Forwarded
  <2>2. p[1] \in Channel /\ p[2] \in Nat /\ p = <<p[1], p[2]>>
    BY <2>1
  <2>3. CASE p[1] = c
    <3>1. p[2] \in DOMAIN t /\ t[p[2]] = [type |-> "Forward", command |-> cmd]
      BY <2>1, <2>3 DEF t
    <3> HIDE DEF was, F, G
    <3>2. f[p] = <<c, was(p[2])>>
      BY <1>6, <2>3
    <3>3. /\ was(p[2]) \in Nat /\ was(p[2]) # k
          /\ was(p[2]) \in DOMAIN net[c] /\ net[c][was(p[2])] = t[p[2]]
      BY <1>4, <2>2, <3>1 DEF s
    <3>4. <<c, was(p[2])>> \in Forwarded(net, cmd)
      BY <3>1, <3>3 DEF Forwarded
    <3>5. <<c, was(p[2])>> # <<c, k>>
      BY <3>3
    <3> QED
      BY <2>2, <2>3, <3>2, <3>4, <3>5 DEF G
  <2>4. CASE p[1] # c
    <3> HIDE DEF was
    <3>1. f[p] = p
      BY <2>4
    <3>2. p \in Forwarded(net, cmd)
      BY <1>2, <2>1, <2>2, <2>4 DEF Forwarded
    <3>3. p # <<c, k>>
      BY <2>4
    <3> QED
      BY <2>2, <2>4, <3>1, <3>2, <3>3
  <2> QED
    BY <2>3, <2>4
<1> HIDE DEF F, G
<1>7. f \in Injection(F, G)
  <2>1. f \in [F -> G]
    <3> HIDE DEF was
    <3>1. \A p \in F : f[p] \in G
      BY <1>6
    <3> QED
      BY <3>1
  <2> HIDE DEF f, was
  <2>2. ASSUME NEW p \in F, NEW q \in F, f[p] = f[q] PROVE p = q
    <3>1. p[1] = q[1]
      BY <1>6, <2>2
    <3>2. CASE p[1] = c
      <4>1. <<c, was(p[2])>> = <<c, was(q[2])>>
        BY <1>6, <2>2, <3>1, <3>2
      <4>2. was(p[2]) = was(q[2])
        BY <4>1
      <4>3. p[2] = q[2]
        BY <1>5, <1>6, <4>2
      <4> QED
        BY <1>6, <3>1, <4>3
    <3>3. CASE p[1] # c
      BY <1>6, <2>2, <3>1, <3>3
    <3> QED
      BY <3>2, <3>3
  <2> QED
    BY <2>1, <2>2 DEF Injection, IsInjective
<1>8. IsFiniteSet(G)
  BY FS_RemoveElement DEF G
<1>9. IsFiniteSet(F) /\ Cardinality(F) <= Cardinality(G)
  BY <1>7, <1>8, FS_Injection
<1> QED
  BY <1>9 DEF F, G

\* The handlers answer with other messages.
LEMMA AnswersNothing ==
  ASSUME NEW n
  PROVE  Answers(n, n)
BY DEF Answers

LEMMA ToldAnswers ==
  ASSUME NEW n \in [Channel -> Seq(Message)], NEW n1, Told(n1, n)
  PROVE  Answers(n1, n)
<1>1. PICK i \in Node : \E q \in Seq(Message) :
        /\ n1 = Emit(n, i, Broadcast(q))
        /\ \A m \in Range(q) : m.type \in {"Accept", "Commit"}
  BY DEF Told
<1>2. PICK q \in Seq(Message) :
        /\ n1 = Emit(n, i, Broadcast(q))
        /\ \A m \in Range(q) : m.type # "Forward"
  BY <1>1
<1> QED
  BY <1>2, BroadcastAnswers

\* Every handler but that of a forwarded command.
LEMMA ReceiveAnswers ==
  ASSUME TypeOK, NEW i \in Node, NEW j \in Node, NEW k \in Deliverable(<<j, i>>),
         Receive(j, i, k), net[<<j, i>>][k].type # "Forward"
  PROVE  Answers(net', Taken(<<j, i>>, k))
<1> DEFINE m == net[<<j, i>>][k]
           n == Taken(<<j, i>>, k)
<1>1. n \in [Channel -> Seq(Message)] /\ Remaining(n) /\ m \in Message
  BY ReceivedMessage DEF Remaining
<1>2. \/ m.type = "Prepare"     /\ OnPrepare(i, j, m, n)
      \/ m.type = "Promise"     /\ OnPromise(i, j, m, n)
      \/ m.type = "Accept"      /\ OnAcceptRequest(i, j, m, n)
      \/ m.type = "Accepted"    /\ OnAccepted(i, j, m, n)
      \/ m.type = "Commit"      /\ OnCommit(i, j, m, n)
      \/ m.type = "Heartbeat"   /\ OnHeartbeat(i, j, m, n)
      \/ m.type = "SyncRequest" /\ OnSyncRequest(i, j, m, n)
      \/ m.type = "SyncData"    /\ OnSyncData(i, j, m, n)
  BY DEF Receive, OnMessage
<1>3. UNCHANGED submits
  BY DEF Receive, OnMessage
<1> SUFFICES Answers(net', n)
  OBVIOUS
<1> HIDE DEF m, n
<1>4. CASE m.type = "Prepare" /\ OnPrepare(i, j, m, n)
  <2> DEFINE ok    == m.ballot >= promised_ballot[i]
             reply == [type |-> "Promise", ballot |-> m.ballot, ok |-> ok,
                       entries |-> IF ok THEN CollectAcceptedEntries(i) ELSE {}]
  <2>1. net' = Emit(n, i, Unicast(j, reply))
    BY <1>4 DEF OnPrepare
  <2>2. m.ballot \in Ballot /\ CollectAcceptedEntries(i) \in SUBSET RecoveredEntry
    BY <1>1, <1>4, MessageFields, CollectType
  <2>3. reply \in Message
    BY <2>2 DEF Message
  <2>4. reply.type # "Forward"
    OBVIOUS
  <2> HIDE DEF reply
  <2> QED
    BY <1>1, <2>1, <2>3, <2>4, UnicastAnswers
<1>5. CASE m.type = "Promise" /\ OnPromise(i, j, m, n)
  <2> DEFINE prep == [prepare[i] EXCEPT !.from = @ \cup {j}, !.entries[j] = m.entries]
  <2>1. CASE net' = n
    BY <2>1, AnswersNothing
  <2>2. CASE BecomeLeader(i, m.ballot, prep, n)
    <3>1. m.entries \in SUBSET RecoveredEntry /\ m.ballot \in Ballot
      BY <1>1, <1>5, MessageFields
    <3> HIDE DEF prep
    <3>2. PICK D \in SUBSET Slot : \E f \in [D -> Value] : ProposeSlots(i, m.ballot, f, n)
      BY <2>2, <3>1, BecomeLeaderProposes DEF prep
    <3>3. PICK cmds \in [D -> Value] : ProposeSlots(i, m.ballot, cmds, n)
      BY <3>2
    <3>4. Announced(net', n, m.ballot, cmds)
      BY <1>1, <3>1, <3>3, ProposeSlotsEffect
    <3> QED
      BY <1>1, <3>4, ToldAnswers DEF Announced
  <2> QED
    BY <1>5, <2>1, <2>2 DEF OnPromise
<1>6. CASE m.type = "Accept" /\ OnAcceptRequest(i, j, m, n)
  <2> DEFINE ok    == m.ballot >= promised_ballot[i]
             reply == [type |-> "Accepted", slot |-> m.slot,
                       ballot |-> IF ok THEN m.ballot ELSE promised_ballot[i]]
  <2>1. net' = Emit(n, i, Unicast(j, reply))
    BY <1>6 DEF OnAcceptRequest
  <2>2. m.ballot \in Ballot /\ m.slot \in Slot /\ promised_ballot[i] \in Ballot \cup {-1}
    BY <1>1, <1>6, MessageFields DEF TypeOK
  <2>3. ~ok => promised_ballot[i] # -1
    BY <2>2, BallotOwner
  <2>4. reply \in Message
    BY <2>2, <2>3 DEF Message
  <2>5. reply.type # "Forward"
    OBVIOUS
  <2> HIDE DEF reply
  <2> QED
    BY <1>1, <2>1, <2>4, <2>5, UnicastAnswers
<1>7. CASE m.type = "Accepted" /\ OnAccepted(i, j, m, n)
  <2>1. CASE net' = n
    BY <2>1, AnswersNothing
  <2>2. CASE /\ is_leader[i] /\ m.ballot = active_ballot[i]
             /\ proposals[i][m.slot].accepts # {}
    <3> DEFINE b     == active_ballot[i]
               props == [proposals[i] EXCEPT ![m.slot].accepts = @ \cup {j}]
               done  == Committable(props, {m.slot})
    <3>1. m.slot \in Slot /\ b \in Ballot
      BY <1>1, <1>7, <2>2, MessageFields
    <3>2. PICK commits \in SetToSeqs(CommitMessages(b, props, done)) :
            net' = Emit(n, i, Broadcast(commits))
      BY <1>7, <2>2 DEF OnAccepted
    <3>3. props \in [Slot -> SlotProposal] /\ done \in SUBSET Slot
      <4>1. proposals[i] \in [Slot -> SlotProposal]
        BY DEF TypeOK
      <4> QED
        BY <3>1, <4>1 DEF SlotProposal, Committable
    <3> HIDE DEF b, props, done
    <3>4. /\ CommitMessages(b, props, done) \in SUBSET Message
          /\ IsFiniteSet(CommitMessages(b, props, done))
          /\ \A x \in CommitMessages(b, props, done) : x.type = "Commit"
      BY <3>1, <3>3, CommitMessagesType
    <3>5. commits \in Seq(Message) /\ \A x \in Range(commits) : x.type # "Forward"
      BY <3>4, OrderType
    <3> QED
      BY <1>1, <3>2, <3>5, BroadcastAnswers
  <2> QED
    BY <1>7, <2>1, <2>2 DEF OnAccepted
<1>8. CASE (m.type = "Commit" /\ OnCommit(i, j, m, n)) \/ (m.type = "SyncData" /\ OnSyncData(i, j, m, n))
  BY <1>8, AnswersNothing DEF OnCommit, OnSyncData
<1>9. CASE m.type = "Heartbeat" /\ OnHeartbeat(i, j, m, n)
  <2> DEFINE ask == [type |-> "SyncRequest", slot |-> CommitIndex(i) + 1]
  <2>1. CASE net' = n
    BY <2>1, AnswersNothing
  <2>2. CASE m.committed > CommitIndex(i) /\ net' = Emit(n, i, Unicast(j, ask))
    <3>1. m.committed \in 0..MaxSlot
      BY <1>1, <1>9, MessageFields
    <3>2. CommitIndex(i) \in Nat
      BY DEF TypeOK, CommitIndex
    <3>3. CommitIndex(i) + 1 \in Slot
      BY <2>2, <3>1, <3>2, BoundAssumption DEF Slot
    <3>4. ask \in Message /\ ask.type # "Forward"
      BY <3>3 DEF Message
    <3> HIDE DEF ask
    <3> QED
      BY <1>1, <2>2, <3>4, UnicastAnswers
  <2> QED
    BY <1>9, <2>1, <2>2 DEF OnHeartbeat
<1>10. CASE m.type = "SyncRequest" /\ OnSyncRequest(i, j, m, n)
  <2> DEFINE found == {s \in m.slot .. CommitIndex(i) : log[i][s].committed}
             es    == {[slot |-> s, ballot |-> log[i][s].ballot, command |-> log[i][s].command] :
                         s \in found}
             data  == [type |-> "SyncData", entries |-> es]
  <2>1. CASE net' = n
    BY <2>1, AnswersNothing
  <2>2. CASE net' = Emit(n, i, Unicast(j, data))
    <3>1. found \in SUBSET Slot
      <4>1. m.slot \in Slot /\ CommitIndex(i) \in Nat /\ CommitIndex(i) <= MaxSlot
        BY <1>1, <1>10, MessageFields DEF TypeOK, CommitIndex
      <4> QED
        BY <4>1, BoundAssumption DEF Slot
    <3>2. es \in SUBSET RecoveredEntry
      <4>1. ASSUME NEW s \in found
            PROVE  log[i][s].ballot \in Ballot /\ log[i][s].command \in Value
        <5>1. log[i][s] \in AcceptedValue /\ log[i][s].committed
          BY <3>1 DEF TypeOK
        <5>2. log[i][s].ballot # -1
          BY <3>1, <5>1 DEF TypeOK, NoEntry
        <5> QED
          BY <5>1, <5>2 DEF AcceptedValue
      <4> HIDE DEF found
      <4> QED
        BY <3>1, <4>1 DEF RecoveredEntry
    <3> HIDE DEF es
    <3>3. data \in Message /\ data.type # "Forward"
      BY <3>2 DEF Message
    <3> HIDE DEF data
    <3> QED
      BY <1>1, <2>2, <3>3, UnicastAnswers
  <2> QED
    BY <1>10, <2>1, <2>2 DEF OnSyncRequest
<1> QED
  BY <1>2, <1>4, <1>5, <1>6, <1>7, <1>8, <1>9, <1>10

(***************************************************************************)
(* No text is applied more often than it was submitted.                    *)
(***************************************************************************)

\* The slots of which somebody says cmd: an entry, an open proposal or an
\* applied command.
Said(cmd) ==
  {s \in Slot :
     \/ \E e \in Entries : e.slot = s /\ e.command = cmd
     \/ \E i \in Node : proposals[i][s].accepts # {} /\ proposals[i][s].command = cmd
     \/ \E i \in Node : s \in DOMAIN applied[i] /\ applied[i][s] = cmd}

\* Each submission of cmd is a forwarded command on its way, or has at most
\* one slot.
EachInOnePlace ==
  \A cmd \in Command :
    /\ IsFiniteSet(Forwarded(net, cmd))
    /\ Cardinality(Said(cmd)) + Cardinality(Forwarded(net, cmd)) <= submits[cmd]

\* After a step cmd is said of no slot outside S if the new entries and
\* proposals do not: what was applied comes from the log.
LEMMA SaidWithin ==
  ASSUME TypeOK, TypeOK', Grows, NEW cmd, NEW S, Said(cmd) \subseteq S,
         \A e \in Entries' : e.command = cmd => e.slot \in S,
         \A i \in Node, s \in Slot :
           proposals'[i][s].accepts # {} /\ proposals'[i][s].command = cmd => s \in S
  PROVE  Said(cmd)' \subseteq S
<1> SUFFICES ASSUME NEW s \in Slot, NEW i \in Node,
                    s \in DOMAIN applied'[i], applied'[i][s] = cmd
             PROVE  s \in S
  BY DEF Said
<1>1. /\ s \in 1..Len(applied'[i]) /\ Len(applied'[i]) \in Nat
      /\ Len(applied[i]) \in Nat /\ DOMAIN applied[i] = 1..Len(applied[i])
  BY DEF TypeOK
<1>2. CASE s <= Len(applied[i])
  <2>1. s \in DOMAIN applied[i] /\ applied[i][s] = cmd
    BY <1>1, <1>2 DEF Grows
  <2> QED
    BY <2>1 DEF Said
<1>3. CASE ~(s <= Len(applied[i]))
  <2>1. log'[i][s].committed /\ log'[i][s].command = cmd
    <3>1. s \in Len(applied[i]) + 1 .. Len(applied'[i])
      BY <1>1, <1>3
    <3> QED
      BY <3>1 DEF Grows
  <2>2. log'[i][s].ballot # -1
    BY <2>1 DEF TypeOK, NoEntry
  <2> DEFINE e == [slot |-> s, ballot |-> log'[i][s].ballot, command |-> log'[i][s].command]
  <2>3. e \in Entries'
    <3>1. e \in LogEntries(i)'
      BY <2>2 DEF LogEntries
    <3> QED
      BY <3>1 DEF Entries
  <2>4. e.slot = s /\ e.command = cmd
    BY <2>1
  <2> QED
    BY <2>3, <2>4
<1> QED
  BY <1>2, <1>3

\* Entries and open proposals say their command of their slot.
LEMMA SaidKnown ==
  ASSUME TypeOK, NEW cmd
  PROVE  /\ \A e \in Entries : e.command = cmd => e.slot \in Said(cmd)
         /\ \A i \in Node, s \in Slot :
              proposals[i][s].accepts # {} /\ proposals[i][s].command = cmd => s \in Said(cmd)
<1>1. \A e \in Entries : e.slot \in Slot
  BY EntriesTyped DEF RecoveredEntry
<1> QED
  BY <1>1 DEF Said

\* A step that proposes nothing new says nothing new.
LEMMA SaidAgain ==
  ASSUME TypeOK, Grows, Repeats, NEW cmd
  PROVE  Said(cmd)' \subseteq Said(cmd)
<1> DEFINE Same == Entries' \subseteq Entries /\ UNCHANGED proposals
           Goal == /\ \A e \in Entries' : e.command = cmd => e.slot \in Said(cmd)
                   /\ \A k \in Node, s \in Slot :
                        proposals'[k][s].accepts # {} /\ proposals'[k][s].command = cmd
                          => s \in Said(cmd)
<1>1. TypeOK'
  BY DEF Repeats, Quiet, Starts, Collects, Wins, Counts
<1>2. Same => Goal
  BY SaidKnown
<1>3. ASSUME Quiet PROVE Goal
  BY <1>2, <1>3 DEF Quiet
<1>4. ASSUME NEW i \in Node, Starts(i) PROVE Goal
  BY <1>2, <1>4 DEF Starts
<1>5. ASSUME NEW i \in Node, NEW j \in Node, NEW m, Collects(i, j, m) PROVE Goal
  BY <1>2, <1>5 DEF Collects
<1>6. ASSUME NEW i \in Node, NEW j \in Node, NEW m, Wins(i, j, m) PROVE Goal
  <2>1. PICK D, cmds : Recovers(i, m.ballot, D, cmds)
    BY <1>6 DEF Wins
  <2>2. \A s \in D : cmds[s] = cmd => s \in Said(cmd)
    BY <2>1, SaidKnown DEF Recovers
  <2>3. \A e \in Spoken(m.ballot, cmds) : e.slot \in D /\ e.command = cmds[e.slot]
    BY <2>1 DEF Recovers, Spoken
  <2>4. \A e \in Entries' : e \in Entries \/ e \in Spoken(m.ballot, cmds)
    BY <2>1 DEF Recovers
  <2>5. \A e \in Entries' : e.command = cmd => e.slot \in Said(cmd)
    BY <2>2, <2>3, <2>4, SaidKnown
  <2>6. \A k \in Node, s \in Slot :
          \/ proposals'[k][s] = proposals[k][s]
          \/ s \in D /\ (proposals'[k][s] = NoProposal \/ proposals'[k][s].command = cmds[s])
    BY <1>6, <2>1 DEF Wins, Recovers
  <2>7. NoProposal.accepts = {}
    BY DEF NoProposal
  <2> QED
    BY <2>2, <2>5, <2>6, <2>7, SaidKnown
<1>7. ASSUME NEW i \in Node, NEW s \in Slot, Counts(i, s) PROVE Goal
  <2> DEFINE new == [slot |-> s, ballot |-> active_ballot[i], command |-> proposals[i][s].command]
  <2>1. /\ Entries' \subseteq Entries \cup {new}
        /\ proposals[i][s].accepts # {}
        /\ \A k \in Node, t \in Slot :
             \/ proposals'[k][t] = proposals[k][t]
             \/ /\ k = i /\ t = s
                /\ proposals'[k][t] = NoProposal \/ proposals'[k][t].command = new.command
    BY <1>7 DEF Counts
  <2>2. new.command = cmd => s \in Said(cmd)
    BY <2>1, SaidKnown
  <2>3. NoProposal.accepts = {} /\ new.slot = s
    BY DEF NoProposal
  <2> HIDE DEF new
  <2> QED
    BY <2>1, <2>2, <2>3, SaidKnown
<1> HIDE DEF Goal
<1>8. Goal
  BY <1>3, <1>4, <1>5, <1>6, <1>7 DEF Repeats
<1> QED
  BY <1>1, <1>8, SaidWithin DEF Goal

\* A leader that proposes v says it of one more slot.
LEMMA SaidOnceMore ==
  ASSUME TypeOK, Grows, NEW i \in Node, NEW t \in Slot, NEW v, Submits(i, t, v), NEW cmd
  PROVE  Said(cmd)' \subseteq IF cmd = v THEN Said(cmd) \cup {t} ELSE Said(cmd)
<1> DEFINE new == [slot |-> t, ballot |-> active_ballot[i], command |-> v]
           S == IF cmd = v THEN Said(cmd) \cup {t} ELSE Said(cmd)
<1>1. /\ TypeOK' /\ Entries' \subseteq Entries \cup {new}
      /\ \A k \in Node, s \in Slot :
           \/ proposals'[k][s] = proposals[k][s]
           \/ /\ s = t
              /\ proposals'[k][s] = NoProposal \/ proposals'[k][s].command = v
  BY DEF Submits
<1>2. NoProposal.accepts = {} /\ new.slot = t /\ new.command = v
  BY DEF NoProposal
<1> HIDE DEF new
<1>3. \A e \in Entries' : e.command = cmd => e.slot \in S
  BY <1>1, <1>2, SaidKnown
<1>4. \A k \in Node, s \in Slot :
        proposals'[k][s].accepts # {} /\ proposals'[k][s].command = cmd => s \in S
  BY <1>1, <1>2, SaidKnown
<1>5. Said(cmd) \subseteq S
  OBVIOUS
<1> HIDE DEF S
<1>6. Said(cmd)' \subseteq S
  BY <1>1, <1>3, <1>4, <1>5, SaidWithin
<1> QED
  BY <1>6 DEF S

\* A command is said of finitely many slots, before and after a step.
LEMMA SaidFinite ==
  ASSUME NEW cmd
  PROVE  /\ IsFiniteSet(Said(cmd)) /\ Cardinality(Said(cmd)) \in Nat
         /\ IsFiniteSet(Said(cmd)') /\ Cardinality(Said(cmd)') \in Nat
<1>1. Said(cmd) \in SUBSET Slot /\ Said(cmd)' \in SUBSET Slot
  BY DEF Said
<1>2. IsFiniteSet(Said(cmd)) /\ IsFiniteSet(Said(cmd)')
  BY <1>1, SlotsFinite
<1> QED
  BY <1>2, FS_CardinalityType

\* Fewer slots and fewer places in the network are fewer places in all.
LEMMA FewerPlaces ==
  ASSUME NEW S, IsFiniteSet(S), NEW F, IsFiniteSet(F),
         NEW S1 \in SUBSET S, NEW F1 \in SUBSET F
  PROVE  /\ IsFiniteSet(F1)
         /\ Cardinality(S1) + Cardinality(F1) <= Cardinality(S) + Cardinality(F)
<1>1. /\ IsFiniteSet(S1) /\ Cardinality(S1) <= Cardinality(S)
      /\ IsFiniteSet(F1) /\ Cardinality(F1) <= Cardinality(F)
  BY FS_Subset
<1>2. /\ Cardinality(S1) \in Nat /\ Cardinality(S) \in Nat
      /\ Cardinality(F1) \in Nat /\ Cardinality(F) \in Nat
  BY <1>1, FS_CardinalityType
<1> QED
  BY <1>1, <1>2

\* One element more.
LEMMA OneMore ==
  ASSUME NEW S, IsFiniteSet(S), NEW x
  PROVE  /\ IsFiniteSet(S \cup {x}) /\ Cardinality(S \cup {x}) \in Nat
         /\ Cardinality(S \cup {x}) <= Cardinality(S) + 1
<1>1. IsFiniteSet(S \cup {x})
      /\ Cardinality(S \cup {x}) = IF x \in S THEN Cardinality(S) ELSE Cardinality(S) + 1
  BY FS_AddElement
<1>2. Cardinality(S) \in Nat
  BY FS_CardinalityType
<1> QED
  BY <1>1, <1>2

\* A submission of v is one more slot or one more forwarded command.
LEMMA SubmissionCount ==
  ASSUME TypeOK, Grows, NEW i \in Node, NEW v, NEW n, Submission(i, v, n),
         NEW cmd, IsFiniteSet(Forwarded(n, cmd))
  PROVE  /\ IsFiniteSet(Forwarded(net', cmd))
         /\ Cardinality(Said(cmd)') + Cardinality(Forwarded(net', cmd))
              <= Cardinality(Said(cmd)) + Cardinality(Forwarded(n, cmd))
                   + (IF cmd = v THEN 1 ELSE 0)
<1> DEFINE S  == Said(cmd)
           F  == Forwarded(n, cmd)
           S1 == Said(cmd)'
           F1 == Forwarded(net', cmd)
           Goal == IsFiniteSet(F1) /\ Cardinality(S1) + Cardinality(F1)
                                        <= Cardinality(S) + Cardinality(F) + (IF cmd = v THEN 1 ELSE 0)
<1>1. v \in Value /\ n \in [Channel -> Seq(Message)] /\ SubmitCommand(i, v, n)
  BY DEF Submission, Remaining
<1>2. IsFiniteSet(S) /\ IsFiniteSet(F) /\ Cardinality(S) \in Nat /\ Cardinality(F) \in Nat
  BY SaidFinite, FS_CardinalityType
<1> SUFFICES Goal
  OBVIOUS
<1>3. CASE is_leader[i]
  <2>1. PICK t \in Slot : Submits(i, t, v)
    BY <1>3, LeaderSubmits DEF Submission
  <2>2. S1 \subseteq IF cmd = v THEN S \cup {t} ELSE S
    BY <2>1, SaidOnceMore
  <2>3. F1 \subseteq F
    <3>1. PICK s \in Slot : ProposeSlots(i, active_ballot[i], [x \in {s} |-> v], n)
      BY <1>1, <1>3 DEF SubmitCommand
    <3> DEFINE cmds == [x \in {s} |-> v]
    <3>2. active_ballot[i] \in Ballot /\ {s} \in SUBSET Slot /\ cmds \in [{s} -> Value]
      BY <1>1, <1>3 DEF TypeOK
    <3>3. ProposeSlots(i, active_ballot[i], cmds, n)
      BY <3>1
    <3> HIDE DEF cmds
    <3>4. Announced(net', n, active_ballot[i], cmds)
      BY <1>1, <3>2, <3>3, ProposeSlotsEffect
    <3> QED
      BY <1>1, <3>4, ToldAnswers DEF Announced, Answers
  <2> HIDE DEF S, F, S1, F1
  <2>4. CASE cmd = v
    <3>1. IsFiniteSet(S \cup {t}) /\ Cardinality(S \cup {t}) <= Cardinality(S) + 1
      BY <1>2, OneMore
    <3>2. Cardinality(S \cup {t}) \in Nat
      BY <1>2, OneMore
    <3>3. /\ IsFiniteSet(F1)
          /\ Cardinality(S1) + Cardinality(F1) <= Cardinality(S \cup {t}) + Cardinality(F)
      BY <1>2, <2>2, <2>3, <2>4, <3>1, FewerPlaces
    <3>4. IsFiniteSet(S1) /\ Cardinality(S1) \in Nat /\ Cardinality(F1) \in Nat
      BY <2>2, <2>4, <3>1, <3>3, FS_Subset, FS_CardinalityType
    <3> QED
      BY <1>2, <2>4, <3>1, <3>2, <3>3, <3>4
  <2>5. CASE cmd # v
    <3>1. /\ IsFiniteSet(F1)
          /\ Cardinality(S1) + Cardinality(F1) <= Cardinality(S) + Cardinality(F)
      BY <1>2, <2>2, <2>3, <2>5, FewerPlaces
    <3> QED
      BY <1>2, <2>5, <3>1
  <2> QED
    BY <2>4, <2>5
<1>4. CASE ~is_leader[i]
  <2> DEFINE p == << <<i, ForwardTo(i)>>, Len(n[<<i, ForwardTo(i)>>]) + 1 >>
  <2>1. S1 \subseteq S
    <3>1. Quiet
      BY <1>4, ForwardQuiet DEF Submission
    <3> QED
      BY <3>1, SaidAgain DEF Repeats
  <2>2. F1 \subseteq IF cmd = v THEN F \cup {p} ELSE F
    <3>1. net' = Emit(n, i, Unicast(ForwardTo(i), [type |-> "Forward", command |-> v]))
      BY <1>1, <1>4 DEF SubmitCommand
    <3> QED
      BY <1>1, <3>1, ForwardPlaces
  <2> HIDE DEF S, F, S1, F1, p
  <2>4. CASE cmd = v
    <3>1. IsFiniteSet(F \cup {p}) /\ Cardinality(F \cup {p}) <= Cardinality(F) + 1
      BY <1>2, OneMore
    <3>2. Cardinality(F \cup {p}) \in Nat
      BY <1>2, OneMore
    <3>3. /\ IsFiniteSet(F1)
          /\ Cardinality(S1) + Cardinality(F1) <= Cardinality(S) + Cardinality(F \cup {p})
      BY <1>2, <2>1, <2>2, <2>4, <3>1, FewerPlaces
    <3>4. IsFiniteSet(S1) /\ Cardinality(S1) \in Nat /\ Cardinality(F1) \in Nat
      BY <1>2, <2>1, <3>3, FS_Subset, FS_CardinalityType
    <3> QED
      BY <1>2, <2>4, <3>1, <3>2, <3>3, <3>4
  <2>5. CASE cmd # v
    <3>1. /\ IsFiniteSet(F1)
          /\ Cardinality(S1) + Cardinality(F1) <= Cardinality(S) + Cardinality(F)
      BY <1>2, <2>1, <2>2, <2>5, FewerPlaces
    <3> QED
      BY <1>2, <2>5, <3>1
  <2> QED
    BY <2>4, <2>5
<1> QED
  BY <1>3, <1>4

\* A step that proposes nothing new and forwards nothing.
LEMMA NothingMore ==
  ASSUME TypeOK, Grows, EachInOnePlace, Repeats, UNCHANGED submits,
         \A cmd \in Command :
           /\ IsFiniteSet(Forwarded(net', cmd))
           /\ Cardinality(Forwarded(net', cmd)) <= Cardinality(Forwarded(net, cmd))
  PROVE  EachInOnePlace'
<1> SUFFICES ASSUME NEW cmd \in Command
             PROVE  Cardinality(Said(cmd)') + Cardinality(Forwarded(net', cmd)) <= submits[cmd]
  BY DEF EachInOnePlace
<1>1. Said(cmd)' \subseteq Said(cmd)
  BY SaidAgain
<1> DEFINE S == Said(cmd)
           S1 == Said(cmd)'
           F == Forwarded(net, cmd)
           F1 == Forwarded(net', cmd)
<1>2. /\ IsFiniteSet(S) /\ IsFiniteSet(F) /\ IsFiniteSet(F1)
      /\ Cardinality(S) + Cardinality(F) <= submits[cmd]
      /\ Cardinality(F1) <= Cardinality(F)
      /\ submits[cmd] \in Int
  BY SaidFinite DEF EachInOnePlace, TypeOK
<1> HIDE DEF S, S1, F, F1
<1>3. IsFiniteSet(S1) /\ Cardinality(S1) <= Cardinality(S)
  BY <1>1, <1>2, FS_Subset DEF S, S1
<1>4. /\ Cardinality(S) \in Nat /\ Cardinality(S1) \in Nat
      /\ Cardinality(F) \in Nat /\ Cardinality(F1) \in Nat
  BY <1>2, <1>3, FS_CardinalityType
<1> QED
  BY <1>2, <1>3, <1>4 DEF S1, F1

\* Every step keeps the account.
LEMMA NextInOnePlace == TypeOK /\ EachInOnePlace /\ [Next]_vars => EachInOnePlace'
<1> SUFFICES ASSUME TypeOK, EachInOnePlace, [Next]_vars PROVE EachInOnePlace'
  OBVIOUS
<1>1. ASSUME Grows, NEW i \in Node, NEW m \in Message, m.type # "Forward", Repeats,
             net' = Emit(net, i, Broadcast(<<m>>)), UNCHANGED submits
      PROVE  EachInOnePlace'
  <2>1. <<m>> \in Seq(Message) /\ \A x \in Range(<<m>>) : x.type # "Forward"
    BY <1>1 DEF Range
  <2>2. Answers(net', net)
    BY <1>1, <2>1, BroadcastAnswers DEF TypeOK
  <2>3. ASSUME NEW cmd \in Command
        PROVE  /\ IsFiniteSet(Forwarded(net', cmd))
               /\ Cardinality(Forwarded(net', cmd)) <= Cardinality(Forwarded(net, cmd))
    BY <2>2, FS_Subset DEF Answers, EachInOnePlace
  <2> QED
    BY <1>1, <2>3, NothingMore
<1>2. ASSUME NEW i \in Node, StartElection(i) \/ SendHeartbeat(i) PROVE EachInOnePlace'
  <2>1. Grows
    BY <1>2, NextGrows DEF Next
  <2>2. CASE StartElection(i)
    <3> DEFINE ask == [type |-> "Prepare", ballot |-> promised_ballot'[i]]
    <3>1. Starts(i)
      BY <2>2, StartElectionEffect
    <3>2. /\ promised_ballot' = [promised_ballot EXCEPT ![i] = ElectionBallot(i, election_round[i] + 1)]
          /\ net' = Emit(net, i, Broadcast(<<[type |-> "Prepare",
                                  ballot |-> ElectionBallot(i, election_round[i] + 1)]>>))
          /\ UNCHANGED submits
      BY <2>2 DEF StartElection
    <3>3. promised_ballot'[i] = ElectionBallot(i, election_round[i] + 1)
      BY <3>2 DEF TypeOK
    <3>4. promised_ballot'[i] \in Ballot
      <4>1. promised_ballot'[i] \in Ballot \cup {-1} /\ promised_ballot[i] \in Ballot \cup {-1}
        BY <3>1 DEF Starts, TypeOK
      <4>2. promised_ballot'[i] > promised_ballot[i]
        BY <3>1 DEF Starts
      <4> QED
        BY <4>1, <4>2, BallotOwner
    <3>5. ask \in Message /\ ask.type # "Forward"
      BY <3>4 DEF Message
    <3>6. net' = Emit(net, i, Broadcast(<<ask>>))
      BY <3>2, <3>3
    <3> HIDE DEF ask
    <3> QED
      BY <1>1, <2>1, <3>1, <3>2, <3>5, <3>6 DEF Repeats
  <2>3. CASE SendHeartbeat(i)
    <3> DEFINE beat == [type |-> "Heartbeat", ballot |-> active_ballot[i],
                        committed |-> CommitIndex(i)]
    <3>1. active_ballot[i] \in Ballot /\ CommitIndex(i) \in 0..MaxSlot
      BY <2>3, BoundAssumption DEF TypeOK, CommitIndex, SendHeartbeat, BroadcastHeartbeat
    <3>2. beat \in Message /\ beat.type # "Forward"
      BY <3>1 DEF Message
    <3>3. net' = Emit(net, i, Broadcast(<<beat>>)) /\ UNCHANGED submits
      BY <2>3 DEF SendHeartbeat, BroadcastHeartbeat
    <3>4. Repeats
      BY <2>3, BroadcastHeartbeatQuiet DEF SendHeartbeat, Repeats
    <3> HIDE DEF beat
    <3> QED
      BY <1>1, <2>1, <3>2, <3>3, <3>4
  <2> QED
    BY <1>2, <2>2, <2>3
<1>3. ASSUME NEW i \in Node, NEW v \in Command, ClientSubmit(i, v) PROVE EachInOnePlace'
  <2>1. Grows
    BY <1>3, NextGrows DEF Next
  <2>2. /\ SubmitCommand(i, v, net)
        /\ submits' = [submits EXCEPT ![v] = @ + 1]
        /\ submits' \in [Command -> 0..MaxSubmits]
    BY <1>3, BoundAssumption DEF ClientSubmit, TypeOK
  <2>3. Submission(i, v, net)
    BY <2>2 DEF Submission, Remaining, TypeOK, Value
  <2>4. ASSUME NEW cmd \in Command
        PROVE  /\ IsFiniteSet(Forwarded(net', cmd))
               /\ Cardinality(Said(cmd)') + Cardinality(Forwarded(net', cmd)) <= submits'[cmd]
    <3> DEFINE f == IsFiniteSet(Forwarded(net', cmd))
               a == Cardinality(Said(cmd)') + Cardinality(Forwarded(net', cmd))
               c == Cardinality(Said(cmd)) + Cardinality(Forwarded(net, cmd))
    <3>1. f /\ a <= c + (IF cmd = v THEN 1 ELSE 0)
      BY <2>1, <2>3, SubmissionCount DEF EachInOnePlace
    <3>2. c <= submits[cmd] /\ submits[cmd] \in Int
      BY DEF EachInOnePlace, TypeOK
    <3>3. submits'[cmd] = IF cmd = v THEN submits[cmd] + 1 ELSE submits[cmd]
      BY <2>2 DEF TypeOK
    <3>4. a \in Int /\ c \in Int
      <4>1. f /\ IsFiniteSet(Forwarded(net, cmd))
        BY <3>1 DEF EachInOnePlace
      <4>2. IsFiniteSet(Said(cmd)')
        BY SaidFinite
      <4> QED
        BY <4>1, <4>2, SaidFinite, FS_CardinalityType
    <3> HIDE DEF f, a, c
    <3>5. f /\ a <= submits'[cmd]
      BY <3>1, <3>2, <3>3, <3>4
    <3> QED
      BY <3>5 DEF f, a
  <2> QED
    BY <2>4 DEF EachInOnePlace
<1>4. ASSUME NEW i \in Node, NEW j \in Node, NEW k \in Deliverable(<<j, i>>), Receive(j, i, k)
      PROVE  EachInOnePlace'
  <2> DEFINE ch == <<j, i>>
             m == net[ch][k]
             n == Taken(ch, k)
  <2>1. Grows
    BY <1>4, NextGrows DEF Next
  <2>2. ch \in Channel /\ k \in DOMAIN net[ch] /\ m \in Message /\ Remaining(n)
    BY ReceivedMessage
  <2>3. UNCHANGED submits
    BY <1>4 DEF Receive, OnMessage
  <2>4. k \in Nat
    <3>1. net[ch] \in Seq(Message)
      BY <2>2 DEF TypeOK
    <3> HIDE DEF ch
    <3> QED
      BY <2>2, <3>1
  <2>5. ASSUME NEW cmd \in Command
        PROVE  /\ IsFiniteSet(Forwarded(n, cmd))
               /\ Cardinality(Forwarded(n, cmd)) <= Cardinality(Forwarded(net, cmd) \ {<<ch, k>>})
    <3> HIDE DEF ch
    <3> QED
      BY <2>2, TakenForwards DEF EachInOnePlace, TypeOK
  <2>6. CASE m.type # "Forward"
    <3>1. Repeats
      BY <1>4, <2>6, ReceiveRepeats
    <3>2. Answers(net', n)
      BY <1>4, <2>6, ReceiveAnswers
    <3> HIDE DEF n, m, ch
    <3>3. ASSUME NEW cmd \in Command
          PROVE  /\ IsFiniteSet(Forwarded(net', cmd))
                 /\ Cardinality(Forwarded(net', cmd)) <= Cardinality(Forwarded(net, cmd))
      <4> DEFINE F == Forwarded(net, cmd)
                 G == F \ {<<ch, k>>}
                 H == Forwarded(n, cmd)
                 K == Forwarded(net', cmd)
      <4>1. /\ IsFiniteSet(F) /\ IsFiniteSet(H) /\ K \subseteq H
            /\ Cardinality(H) <= Cardinality(G)
        BY <2>5, <3>2 DEF Answers, EachInOnePlace
      <4>2. G \subseteq F
        OBVIOUS
      <4> HIDE DEF F, G, H, K
      <4>3. /\ IsFiniteSet(G) /\ Cardinality(G) <= Cardinality(F)
            /\ IsFiniteSet(K) /\ Cardinality(K) <= Cardinality(H)
        BY <4>1, <4>2, FS_Subset
      <4>4. /\ Cardinality(F) \in Nat /\ Cardinality(G) \in Nat
            /\ Cardinality(H) \in Nat /\ Cardinality(K) \in Nat
        BY <4>1, <4>3, FS_CardinalityType
      <4>5. IsFiniteSet(K) /\ Cardinality(K) <= Cardinality(F)
        BY <4>1, <4>3, <4>4
      <4> QED
        BY <4>5 DEF F, K
    <3> QED
      BY <2>1, <2>3, <3>1, <3>3, NothingMore
  <2>7. CASE m.type = "Forward"
    <3> DEFINE v == m.command
    <3>1. OnForwardRequest(i, j, m, n)
      BY <1>4, <2>7 DEF Receive, OnMessage
    <3>2. v \in Value
      BY <2>2, <2>7, MessageFields
    <3>3. Submission(i, v, n)
      BY <2>2, <2>3, <3>1, <3>2 DEF Submission, OnForwardRequest, TypeOK
    <3>4. m = [type |-> "Forward", command |-> v]
      <4> HIDE DEF n, ch
      <4> QED
        BY <2>2, <2>7 DEF Message
    <3>5. ASSUME NEW cmd \in Command
          PROVE  /\ IsFiniteSet(Forwarded(net', cmd))
                 /\ Cardinality(Said(cmd)') + Cardinality(Forwarded(net', cmd)) <= submits'[cmd]
      <4> DEFINE p == <<ch, k>>
                 F == Forwarded(net, cmd)
                 G == F \ {p}
                 H == Forwarded(n, cmd)
                 K == Forwarded(net', cmd)
                 S == Said(cmd)
                 S1 == Said(cmd)'
      <4>1. cmd = v => p \in F
        BY <2>2, <2>4, <3>4 DEF Forwarded
      <4> HIDE DEF n, m, ch, v
      <4>2. IsFiniteSet(F) /\ IsFiniteSet(H) /\ Cardinality(H) <= Cardinality(G)
        BY <2>5 DEF EachInOnePlace
      <4>3. /\ IsFiniteSet(K)
            /\ Cardinality(S1) + Cardinality(K)
                 <= Cardinality(S) + Cardinality(H) + (IF cmd = v THEN 1 ELSE 0)
        BY <2>1, <3>3, <4>2, SubmissionCount
      <4>4. Cardinality(S) + Cardinality(F) <= submits[cmd] /\ submits[cmd] \in Int
        BY DEF EachInOnePlace, TypeOK
      <4>5. IsFiniteSet(S) /\ IsFiniteSet(S1)
        <5>1. IsFiniteSet(Said(cmd)')
          BY SaidFinite
        <5> QED
          BY <5>1, SaidFinite
      <4>6. submits'[cmd] = submits[cmd]
        BY <2>3
      <4> HIDE DEF F, H, K, S, S1
      <4>7. /\ IsFiniteSet(G)
            /\ Cardinality(G) = IF p \in F THEN Cardinality(F) - 1 ELSE Cardinality(F)
        <5> HIDE DEF p
        <5> QED
          BY <4>2, FS_RemoveElement
      <4> HIDE DEF p, G
      <4>8. /\ Cardinality(F) \in Nat /\ Cardinality(G) \in Nat
            /\ Cardinality(H) \in Nat /\ Cardinality(K) \in Nat
            /\ Cardinality(S) \in Nat /\ Cardinality(S1) \in Nat
        BY <4>2, <4>3, <4>5, <4>7, FS_CardinalityType
      <4>9. IsFiniteSet(K) /\ Cardinality(S1) + Cardinality(K) <= submits'[cmd]
        <5>1. CASE cmd = v
          BY <4>1, <4>2, <4>3, <4>4, <4>6, <4>7, <4>8, <5>1
        <5>2. CASE cmd # v
          BY <4>2, <4>3, <4>4, <4>6, <4>7, <4>8, <5>2
        <5> QED
          BY <5>1, <5>2
      <4> QED
        BY <4>9 DEF K, S1
    <3> QED
      BY <3>5 DEF EachInOnePlace
  <2> QED
    BY <2>6, <2>7
<1>5. CASE UNCHANGED vars
  <2>1. \A cmd \in Command : Forwarded(net', cmd) = Forwarded(net, cmd)
    BY <1>5 DEF vars
  <2>2. \A cmd \in Command : Said(cmd)' = Said(cmd)
    BY <1>5 DEF vars, voteVars, leadVars, logVars, Said, Entries, LogEntries, InTransit,
                MessageEntries
  <2> QED
    BY <1>5, <2>1, <2>2 DEF EachInOnePlace, vars
<1> QED
  BY <1>2, <1>3, <1>4, <1>5 DEF Next

\* At first nothing is said and nothing is on its way.
LEMMA InitInOnePlace == Init => EachInOnePlace
<1> SUFFICES ASSUME Init, NEW cmd \in Command
             PROVE  /\ IsFiniteSet(Forwarded(net, cmd))
                    /\ Cardinality(Said(cmd)) + Cardinality(Forwarded(net, cmd)) <= submits[cmd]
  BY DEF EachInOnePlace
<1>1. Forwarded(net, cmd) = {}
  BY DEF Init, Forwarded
<1>2. Said(cmd) = {}
  <2>1. Entries = {}
    BY InitEntries
  <2>2. \A i \in Node, s \in Slot : proposals[i][s].accepts = {}
    BY DEF Init, NoProposal
  <2>3. \A i \in Node : DOMAIN applied[i] = {}
    BY DEF Init
  <2> QED
    BY <2>1, <2>2, <2>3 DEF Said
<1>3. submits[cmd] = 0
  BY DEF Init
<1> QED
  BY <1>1, <1>2, <1>3, FS_EmptySet

\* Whatever a node applied is said of its slot.
LEMMA AppliedIsSaid ==
  ASSUME TypeOK, EachInOnePlace
  PROVE  AppliedAtMostSubmitted
<1> SUFFICES ASSUME NEW i \in Node, NEW cmd \in Command
             PROVE  Cardinality({s \in 1..CommitIndex(i) : applied[i][s] = cmd}) <= submits[cmd]
  BY DEF AppliedAtMostSubmitted
<1> DEFINE A == {s \in 1..CommitIndex(i) : applied[i][s] = cmd}
           S == Said(cmd)
           F == Forwarded(net, cmd)
<1>1. A \subseteq S
  <2>1. /\ DOMAIN applied[i] = 1..CommitIndex(i)
        /\ CommitIndex(i) \in Nat /\ CommitIndex(i) <= MaxSlot
    BY DEF TypeOK, CommitIndex
  <2>2. 1..CommitIndex(i) \subseteq Slot
    BY <2>1, BoundAssumption DEF Slot
  <2> QED
    BY <2>1, <2>2 DEF Said
<1>2. IsFiniteSet(S) /\ IsFiniteSet(F) /\ Cardinality(S) + Cardinality(F) <= submits[cmd]
  BY SaidFinite DEF EachInOnePlace
<1>3. submits[cmd] \in Int
  BY DEF TypeOK
<1> HIDE DEF A, S, F
<1>4. IsFiniteSet(A) /\ Cardinality(A) <= Cardinality(S)
  BY <1>1, <1>2, FS_Subset
<1>5. Cardinality(A) \in Nat /\ Cardinality(S) \in Nat /\ Cardinality(F) \in Nat
  BY <1>2, <1>4, FS_CardinalityType
<1>6. Cardinality(A) <= submits[cmd]
  BY <1>2, <1>3, <1>4, <1>5
<1> QED
  BY <1>6 DEF A

\* No node applies a text more often than it was submitted, on any network:
\* forwarding moves a command, proposing gives it one slot, and recovery proposes
\* it for the slot it had (submit_client_command, on_forward_request,
\* become_leader).
THEOREM NothingAppliedTwice == Spec => []AppliedAtMostSubmitted
<1>1. Init => EachInOnePlace
  BY InitInOnePlace
<1>2. TypeOK /\ EachInOnePlace /\ [Next]_vars => EachInOnePlace'
  BY NextInOnePlace
<1>3. TypeOK /\ EachInOnePlace => AppliedAtMostSubmitted
  BY AppliedIsSaid
<1> QED
  BY <1>1, <1>2, <1>3, TypeCorrect, PTL DEF Spec

=============================================================================
