------------------------- MODULE PaxosStableProofs -------------------------
(***************************************************************************)
(* One candidate: all nodes apply the same commands, and never rewrite     *)
(* what they applied (paxos.cpp), for every number of nodes, on every      *)
(* network; a quorum stands behind each commit; and with followers that    *)
(* restart with nothing the nodes still implement a replicated log.  With  *)
(* two candidates all of this is false.                                    *)
(*                                                                         *)
(* The argument: nobody knows of a ballot above the candidate's, so once   *)
(* it leads it leads for ever, and all entries anywhere are of its one     *)
(* ballot, which gives a slot one command.                                 *)
(***************************************************************************)
EXTENDS PaxosStable, PaxosHistoryProofs

(***************************************************************************)
(* Ballots: nothing in the system is above b.                              *)
(***************************************************************************)

Numbered == {"Prepare", "Promise", "Accept", "Accepted", "Commit", "Heartbeat"}

\* The messages of n are of ballots up to b.
NetBelow(n, b) ==
  \A c \in Channel : \A x \in Range(n[c]) : x.type \in Numbered => x.ballot <= b

Below(b) ==
  /\ \A k \in Node : promised_ballot[k] <= b /\ active_ballot[k] <= b
  /\ NetBelow(net, b)

\* A leader of b goes on leading.
Stays(b) ==
  \A k \in Node : is_leader[k] /\ active_ballot[k] = b => is_leader'[k] /\ active_ballot'[k] = b

\* A candidate for the next ballots, or a step below b.
LEMMA StepDownBelow ==
  ASSUME TypeOK, NEW b \in Int, Below(b), NEW i \in Node, NEW a \in Int, a <= b,
         StepDownIfStale(i, a)
  PROVE  (\A k \in Node : active_ballot'[k] <= b) /\ Stays(b)
<1>1. /\ active_ballot' = [active_ballot EXCEPT ![i] = MaxOf(a, active_ballot[i])]
      /\ is_leader' = [is_leader EXCEPT ![i] = is_leader[i] /\ a <= active_ballot[i]]
  BY DEF StepDownIfStale
<1>2. \A k \in Node : active_ballot[k] \in Int /\ active_ballot[k] <= b
  BY BallotsAreInts DEF Below
<1>3. /\ \A k \in Node \ {i} : active_ballot'[k] = active_ballot[k] /\ is_leader'[k] = is_leader[k]
      /\ active_ballot'[i] = MaxOf(a, active_ballot[i])
      /\ is_leader'[i] = (is_leader[i] /\ a <= active_ballot[i])
  BY <1>1 DEF TypeOK
<1>4. active_ballot'[i] <= b /\ (active_ballot[i] = b => active_ballot'[i] = b)
  BY <1>2, <1>3 DEF MaxOf
<1>5. is_leader[i] /\ active_ballot[i] = b => is_leader'[i]
  BY <1>2, <1>3
<1> QED
  BY <1>2, <1>3, <1>4, <1>5 DEF Stays

\* Leaving the votes alone.
LEMMA VotesBelow ==
  ASSUME TypeOK, NEW b \in Int, Below(b), UNCHANGED <<is_leader, active_ballot>>
  PROVE  (\A k \in Node : active_ballot'[k] <= b) /\ Stays(b)
BY DEF Below, Stays

\* Promising a ballot up to b.
LEMMA PromiseBelow ==
  ASSUME TypeOK, NEW b \in Int, Below(b), NEW i \in Node, NEW a \in Int, a <= b,
         promised_ballot' = [promised_ballot EXCEPT ![i] = a]
  PROVE  \A k \in Node : promised_ballot'[k] <= b
BY DEF Below, TypeOK

\* Taking a message, and sending one of a ballot up to b.
LEMMA RemainingBelow ==
  ASSUME NEW b, NetBelow(net, b), NEW n, Remaining(n)
  PROVE  NetBelow(n, b)
BY DEF NetBelow, Remaining

LEMMA AddedBelow ==
  ASSUME NEW b, NetBelow(net, b), NEW n, Remaining(n), NEW i, NEW m, Added(net', n, i, m),
         m.type \in Numbered => m.ballot <= b
  PROVE  NetBelow(net', b)
BY DEF NetBelow, Remaining, Added

LEMMA SentBelow ==
  ASSUME NEW b, NetBelow(net, b), NEW n, Remaining(n), NEW i \in Node, NEW to, NEW m \in Message,
         net' = Emit(n, i, Unicast(to, m)),
         m.type \in Numbered => m.ballot <= b
  PROVE  NetBelow(net', b)
BY SendType, AddedBelow DEF Remaining

LEMMA AnnouncedBelow ==
  ASSUME NEW b, NetBelow(net, b), NEW n, Remaining(n), NEW a, a <= b, NEW cmds,
         Announced(net', n, a, cmds)
  PROVE  NetBelow(net', b)
BY DEF NetBelow, Remaining, Announced

\* What Below is made of, one step later.
LEMMA BelowParts ==
  ASSUME NEW b,
         \A k \in Node : promised_ballot'[k] <= b,
         \A k \in Node : active_ballot'[k] <= b,
         NetBelow(net', b)
  PROVE  Below(b)'
BY DEF Below, NetBelow

\* The ballot of a message is a number.
LEMMA MessageBallot ==
  ASSUME NEW m \in Message, m.type \in Numbered
  PROVE  m.ballot \in Ballot /\ m.ballot \in Int
BY MessageFields, BallotOwner DEF Numbered

\* The handlers stay below the ballots they are told.
LEMMA OnPrepareBelow ==
  ASSUME TypeOK, NEW b \in Int, Below(b), NEW i \in Node, NEW j \in Node,
         NEW m \in Message, m.type = "Prepare", m.ballot <= b,
         NEW n, Remaining(n), OnPrepare(i, j, m, n)
  PROVE  Below(b)' /\ Stays(b)
<1> DEFINE ok == m.ballot >= promised_ballot[i]
           reply == [type |-> "Promise", ballot |-> m.ballot, ok |-> ok,
                     entries |-> IF ok THEN CollectAcceptedEntries(i) ELSE {}]
<1>1. m.ballot \in Ballot /\ m.ballot \in Int
  BY MessageBallot DEF Numbered
<1>2. reply \in Message /\ reply.ballot <= b
  BY <1>1, CollectType DEF Message
<1>3. net' = Emit(n, i, Unicast(j, reply))
  BY DEF OnPrepare
<1> HIDE DEF reply
<1>4. NetBelow(net', b)
  BY <1>2, <1>3, SentBelow DEF Below
<1>5. CASE ok
  <2>1. promised_ballot' = [promised_ballot EXCEPT ![i] = m.ballot] /\ StepDownIfStale(i, m.ballot)
    BY <1>5 DEF OnPrepare
  <2> QED
    BY <1>1, <1>4, <2>1, PromiseBelow, StepDownBelow, BelowParts
<1>6. CASE ~ok
  <2>1. UNCHANGED voteVars
    BY <1>6 DEF OnPrepare
  <2>2. UNCHANGED <<is_leader, active_ballot>> /\ \A k \in Node : promised_ballot'[k] <= b
    BY <2>1 DEF voteVars, Below
  <2> QED
    BY <1>4, <2>2, VotesBelow, BelowParts
<1> QED
  BY <1>5, <1>6

LEMMA OnAcceptRequestBelow ==
  ASSUME TypeOK, NEW b \in Int, Below(b), NEW i \in Node, NEW j \in Node,
         NEW m \in Message, m.type = "Accept", m.ballot <= b,
         NEW n, Remaining(n), OnAcceptRequest(i, j, m, n)
  PROVE  Below(b)' /\ Stays(b)
<1> DEFINE ok == m.ballot >= promised_ballot[i]
           reply == [type |-> "Accepted", slot |-> m.slot,
                     ballot |-> IF ok THEN m.ballot ELSE promised_ballot[i]]
<1>1. m.ballot \in Ballot /\ m.ballot \in Int /\ m.slot \in Slot
  BY MessageBallot, MessageFields DEF Numbered
<1>2. reply \in Message /\ reply.ballot <= b
  <2>1. ~ok => promised_ballot[i] \in Ballot
    BY <1>1, BallotOwner DEF TypeOK
  <2> QED
    BY <1>1, <2>1 DEF Message, Below
<1>3. net' = Emit(n, i, Unicast(j, reply))
  BY DEF OnAcceptRequest
<1> HIDE DEF reply
<1>4. NetBelow(net', b)
  BY <1>2, <1>3, SentBelow DEF Below
<1>5. CASE ok
  <2>1. promised_ballot' = [promised_ballot EXCEPT ![i] = m.ballot] /\ StepDownIfStale(i, m.ballot)
    BY <1>5 DEF OnAcceptRequest
  <2> QED
    BY <1>1, <1>4, <2>1, PromiseBelow, StepDownBelow, BelowParts
<1>6. CASE ~ok
  <2>1. UNCHANGED voteVars
    BY <1>6 DEF OnAcceptRequest
  <2>2. UNCHANGED <<is_leader, active_ballot>> /\ \A k \in Node : promised_ballot'[k] <= b
    BY <2>1 DEF voteVars, Below
  <2> QED
    BY <1>4, <2>2, VotesBelow, BelowParts
<1> QED
  BY <1>5, <1>6

LEMMA OnCommitBelow ==
  ASSUME TypeOK, NEW b \in Int, Below(b), NEW i \in Node, NEW j \in Node,
         NEW m \in Message, m.type = "Commit", m.ballot <= b,
         NEW n, Remaining(n), OnCommit(i, j, m, n)
  PROVE  Below(b)' /\ Stays(b)
<1>1. m.ballot \in Int
  BY MessageBallot DEF Numbered
<1> DEFINE a == MaxOf(m.ballot, promised_ballot[i])
<1>2. promised_ballot' = [promised_ballot EXCEPT ![i] = a]
      /\ StepDownIfStale(i, m.ballot) /\ net' = n
  BY DEF OnCommit, TypeOK
<1>3. a \in Int /\ a <= b
  BY <1>1, BallotsAreInts DEF MaxOf, Below
<1> HIDE DEF a
<1>4. NetBelow(net', b)
  BY <1>2, RemainingBelow DEF Below
<1>5. \A k \in Node : promised_ballot'[k] <= b
  BY <1>2, <1>3, PromiseBelow
<1> QED
  BY <1>1, <1>2, <1>4, <1>5, StepDownBelow, BelowParts

LEMMA OnHeartbeatBelow ==
  ASSUME TypeOK, NEW b \in Int, Below(b), NEW i \in Node, NEW j \in Node,
         NEW m \in Message, m.type = "Heartbeat", m.ballot <= b,
         NEW n, Remaining(n), OnHeartbeat(i, j, m, n)
  PROVE  Below(b)' /\ Stays(b)
<1> DEFINE ask == [type |-> "SyncRequest", slot |-> CommitIndex(i) + 1]
<1>1. m.ballot \in Int /\ m.committed \in 0..MaxSlot
  BY MessageBallot, MessageFields DEF Numbered
<1>2. NetBelow(net', b)
  <2>1. CASE m.committed > CommitIndex(i)
    <3>1. CommitIndex(i) \in Nat
      BY DEF TypeOK, CommitIndex
    <3>2. ask.slot \in Slot
      BY <1>1, <2>1, <3>1, BoundAssumption DEF Slot
    <3>3. ask \in Message /\ ask.type \notin Numbered
      BY <3>2 DEF Message, Numbered
    <3>4. net' = Emit(n, i, Unicast(j, ask))
      BY <2>1 DEF OnHeartbeat
    <3> HIDE DEF ask
    <3> QED
      BY <3>3, <3>4, SentBelow DEF Below
  <2>2. CASE ~(m.committed > CommitIndex(i))
    <3>1. net' = n
      BY <2>2 DEF OnHeartbeat
    <3> QED
      BY <3>1, RemainingBelow DEF Below
  <2> QED
    BY <2>1, <2>2
<1>3. CASE m.ballot >= promised_ballot[i]
  <2>1. /\ promised_ballot' = [promised_ballot EXCEPT ![i] = m.ballot]
        /\ StepDownIfStale(i, m.ballot) \/ UNCHANGED <<is_leader, active_ballot>>
    BY <1>3 DEF OnHeartbeat
  <2>2. (\A k \in Node : active_ballot'[k] <= b) /\ Stays(b)
    BY <1>1, <2>1, StepDownBelow, VotesBelow
  <2> QED
    BY <1>1, <1>2, <2>1, <2>2, PromiseBelow, BelowParts
<1>4. CASE ~(m.ballot >= promised_ballot[i])
  <2>1. UNCHANGED voteVars
    BY <1>4 DEF OnHeartbeat
  <2>2. UNCHANGED <<is_leader, active_ballot>> /\ \A k \in Node : promised_ballot'[k] <= b
    BY <2>1 DEF voteVars, Below
  <2> QED
    BY <1>2, <2>2, VotesBelow, BelowParts
<1> QED
  BY <1>3, <1>4

\* Sync data carry no ballot of their own.
LEMMA OnSyncRequestBelow ==
  ASSUME TypeOK, NEW b \in Int, Below(b), NEW i \in Node, NEW j \in Node,
         NEW m \in Message, m.type = "SyncRequest",
         NEW n, Remaining(n), OnSyncRequest(i, j, m, n)
  PROVE  Below(b)' /\ Stays(b)
<1> DEFINE found == {s \in m.slot .. CommitIndex(i) : log[i][s].committed}
           es    == {[slot |-> s, ballot |-> log[i][s].ballot, command |-> log[i][s].command] :
                       s \in found}
           data  == [type |-> "SyncData", entries |-> es]
<1>1. es \in SUBSET RecoveredEntry
  <2>1. found \subseteq Slot
    <3>1. MaxSlot \in Nat /\ CommitIndex(i) \in Nat /\ CommitIndex(i) <= MaxSlot
      BY BoundAssumption DEF TypeOK, CommitIndex
    <3>2. m.slot \in Slot
      BY MessageFields
    <3> QED
      BY <3>1, <3>2 DEF Slot
  <2>2. /\ log[i] \in [Slot -> AcceptedValue]
        /\ \A s \in Slot : log[i][s].ballot = -1 => log[i][s] = NoEntry
    BY DEF TypeOK
  <2>3. ASSUME NEW s \in found
        PROVE  s \in Slot /\ log[i][s].ballot \in Ballot /\ log[i][s].command \in Value
    BY <2>1, <2>2 DEF NoEntry, AcceptedValue
  <2> QED
    BY <2>3 DEF RecoveredEntry
<1>2. net' \in {n, Emit(n, i, Unicast(j, data))} /\ UNCHANGED voteVars
  BY DEF OnSyncRequest
<1>3. data \in Message /\ data.type \notin Numbered
  <2> HIDE DEF es
  <2> QED
    BY <1>1 DEF Message, Numbered
<1> HIDE DEF data
<1>4. NetBelow(net', b)
  BY <1>2, <1>3, SentBelow, RemainingBelow DEF Below
<1>5. UNCHANGED <<is_leader, active_ballot>> /\ \A k \in Node : promised_ballot'[k] <= b
  BY <1>2 DEF voteVars, Below
<1> QED
  BY <1>4, <1>5, VotesBelow, BelowParts

LEMMA OnSyncDataBelow ==
  ASSUME TypeOK, NEW b \in Int, Below(b), NEW i \in Node, NEW j \in Node,
         NEW m \in Message, NEW n, Remaining(n), OnSyncData(i, j, m, n)
  PROVE  Below(b)' /\ Stays(b)
<1>1. NetBelow(net', b)
  BY RemainingBelow DEF OnSyncData, Below
<1>2. UNCHANGED <<is_leader, active_ballot>> /\ \A k \in Node : promised_ballot'[k] <= b
  BY DEF OnSyncData, voteVars, Below
<1> QED
  BY <1>1, <1>2, VotesBelow, BelowParts

\* A leader proposes at its ballot; a forwarded command carries none.
LEMMA SubmitBelow ==
  ASSUME TypeOK, NEW b \in Int, Below(b), NEW i \in Node, NEW cmd \in Value,
         NEW n, Remaining(n), SubmitCommand(i, cmd, n)
  PROVE  Below(b)' /\ Stays(b)
<1>1. UNCHANGED <<is_leader, active_ballot, promised_ballot>>
  BY DEF SubmitCommand, voteVars
<1>2. NetBelow(net', b)
  <2>1. CASE is_leader[i]
    <3>1. PICK s \in Slot : ProposeSlots(i, active_ballot[i], [t \in {s} |-> cmd], n)
      BY <2>1 DEF SubmitCommand
    <3> DEFINE a    == active_ballot[i]
               cmds == [t \in {s} |-> cmd]
    <3>2. a \in Ballot /\ {s} \in SUBSET Slot /\ cmds \in [{s} -> Value]
      BY <2>1 DEF TypeOK
    <3>3. ProposeSlots(i, a, cmds, n) /\ n \in [Channel -> Seq(Message)]
      BY <3>1 DEF Remaining
    <3> HIDE DEF cmds
    <3>4. Announced(net', n, a, cmds)
      BY <3>2, <3>3, ProposeSlotsEffect
    <3> QED
      BY <3>4, AnnouncedBelow DEF Below
  <2>2. CASE ~is_leader[i]
    <3> DEFINE sent == [type |-> "Forward", command |-> cmd]
    <3>1. sent \in Message /\ sent.type \notin Numbered
      BY DEF Message, Numbered
    <3>2. net' = Emit(n, i, Unicast(ForwardTo(i), sent))
      BY <2>2 DEF SubmitCommand
    <3> HIDE DEF sent
    <3> QED
      BY <3>1, <3>2, SentBelow DEF Below
  <2> QED
    BY <2>1, <2>2
<1>3. \A k \in Node : promised_ballot'[k] <= b
  BY <1>1 DEF Below
<1> QED
  BY <1>1, <1>2, <1>3, VotesBelow, BelowParts

LEMMA OnAcceptedBelow ==
  ASSUME TypeOK, NEW b \in Int, Below(b), NEW i \in Node, NEW j \in Node,
         NEW m \in Message, m.type = "Accepted", m.ballot <= b,
         NEW n, Remaining(n), OnAccepted(i, j, m, n)
  PROVE  Below(b)' /\ Stays(b)
<1> DEFINE counted == /\ is_leader[i]
                      /\ m.ballot = active_ballot[i]
                      /\ proposals[i][m.slot].accepts # {}
<1>1. m.ballot \in Int /\ m.slot \in Slot
  BY MessageBallot, MessageFields DEF Numbered
<1>2. NetBelow(net', b)
  <2>1. CASE ~counted
    <3>1. net' = n
      BY <2>1 DEF OnAccepted
    <3> QED
      BY <3>1, RemainingBelow DEF Below
  <2>2. CASE counted
    <3> DEFINE a     == active_ballot[i]
               props == [proposals[i] EXCEPT ![m.slot].accepts = @ \cup {j}]
               done  == Committable(props, {m.slot})
               said  == CommitMessages(a, props, done)
    <3>1. PICK commits \in SetToSeqs(said) : net' = Emit(n, i, Broadcast(commits))
      BY <2>2 DEF OnAccepted
    <3>2. a \in Ballot /\ a <= b
      BY <2>2 DEF TypeOK, Below
    <3>3. props \in [Slot -> SlotProposal] /\ done \in SUBSET Slot
      <4>1. proposals[i] \in [Slot -> SlotProposal]
        BY DEF TypeOK
      <4>2. props \in [Slot -> SlotProposal]
        BY <1>1, <4>1 DEF SlotProposal
      <4> QED
        BY <1>1, <4>2 DEF Committable
    <3> HIDE DEF props, done
    <3>4. said \in SUBSET Message /\ IsFiniteSet(said) /\ \A x \in said : x.ballot = a
      BY <3>2, <3>3, CommitMessagesType
    <3> HIDE DEF said
    <3>5. commits \in Seq(Message) /\ Range(commits) \subseteq said
      BY <3>1, <3>4, OrderType
    <3> DEFINE out == Broadcast(commits)
    <3>6. out \in [Node -> Seq(Message)] /\ \A k \in Node : Range(out[k]) = Range(commits)
      BY <3>5, BroadcastType
    <3>7. n \in [Channel -> Seq(Message)] /\ \A c \in Channel : c[2] \in Node
      BY DEF Remaining, Channel
    <3>8. net' = Emit(n, i, out)
      BY <3>1
    <3> HIDE DEF out
    <3>9. \A c \in Channel : \A x \in Range(net'[c]) : x \in Range(n[c]) \/ x \in said
      <4>1. \A c \in Channel : \A x \in Range(net'[c]) :
              x \in Range(n[c]) \/ (c[1] = i /\ x \in Range(out[c[2]]))
        BY <3>6, <3>7, <3>8, EmitType
      <4> QED
        BY <3>5, <3>6, <3>7, <4>1
    <3>10. NetBelow(n, b)
      BY RemainingBelow DEF Below
    <3> QED
      BY <3>2, <3>4, <3>9, <3>10 DEF NetBelow
  <2> QED
    BY <2>1, <2>2
<1>3. UNCHANGED promised_ballot /\ (StepDownIfStale(i, m.ballot) \/ UNCHANGED <<is_leader, active_ballot>>)
  BY DEF OnAccepted
<1>4. (\A k \in Node : active_ballot'[k] <= b) /\ Stays(b)
  BY <1>1, <1>3, StepDownBelow, VotesBelow
<1>5. \A k \in Node : promised_ballot'[k] <= b
  BY <1>3 DEF Below
<1> QED
  BY <1>2, <1>4, <1>5, BelowParts

\* A promise counts for a ballot prepared, which is known already.
LEMMA OnPromiseBelow ==
  ASSUME TypeOK, Elected, NEW b \in Int, Below(b), NEW i \in Node, NEW j \in Node,
         NEW m \in Message, m.type = "Promise", m.ballot <= b,
         NEW n, Remaining(n), OnPromise(i, j, m, n)
  PROVE  Below(b)' /\ Stays(b)
<1> DEFINE prep == [prepare[i] EXCEPT !.from = @ \cup {j}, !.entries[j] = m.entries]
           won  == /\ ~prepare[i].completed /\ prepare[i].ballot = m.ballot
                   /\ m.ok /\ Cardinality(prep.from) >= Quorum
           a    == m.ballot
<1>1. a \in Ballot /\ a \in Int
  BY MessageBallot DEF Numbered
<1>2. \A k \in Node : active_ballot[k] \in Int /\ promised_ballot[k] \in Int
  BY BallotsAreInts
<1>3. CASE ~won
  <2>1. /\ net' = n /\ UNCHANGED promised_ballot
        /\ StepDownIfStale(i, m.ballot) \/ UNCHANGED <<is_leader, active_ballot>>
    BY <1>3 DEF OnPromise
  <2>2. NetBelow(net', b) /\ \A k \in Node : promised_ballot'[k] <= b
    BY <2>1, RemainingBelow DEF Below
  <2>3. (\A k \in Node : active_ballot'[k] <= b) /\ Stays(b)
    BY <1>1, <2>1, StepDownBelow, VotesBelow
  <2> QED
    BY <2>2, <2>3, BelowParts
<1>4. CASE won
  <2>1. BecomeLeader(i, a, prep, n)
    BY <1>4 DEF OnPromise
  <2>2. m.entries \in SUBSET RecoveredEntry
    BY MessageFields
  <2> HIDE DEF prep
  <2>3. /\ is_leader' = [is_leader EXCEPT ![i] = TRUE]
        /\ active_ballot' = [active_ballot EXCEPT ![i] = a]
        /\ promised_ballot' = [promised_ballot EXCEPT ![i] = MaxOf(@, a)]
    BY <2>1 DEF BecomeLeader
  <2>4. PICK D \in SUBSET Slot : \E f \in [D -> Value] : ProposeSlots(i, a, f, n)
    BY <2>1, <2>2, BecomeLeaderProposes DEF prep
  <2>5. PICK cmds \in [D -> Value] : ProposeSlots(i, a, cmds, n) /\ n \in [Channel -> Seq(Message)]
    BY <2>4 DEF Remaining
  <2>6. Announced(net', n, a, cmds)
    BY <1>1, <2>5, ProposeSlotsEffect
  <2>7. NetBelow(net', b)
    BY <2>6, AnnouncedBelow DEF Below
  <2>8. /\ \A k \in Node : active_ballot'[k] = IF k = i THEN a ELSE active_ballot[k]
        /\ \A k \in Node : is_leader'[k] = IF k = i THEN TRUE ELSE is_leader[k]
    BY <2>3 DEF TypeOK
  <2>9. \A k \in Node : promised_ballot'[k] <= b
    <3> DEFINE p == MaxOf(promised_ballot[i], a)
    <3>1. p \in Int /\ p <= b
      BY <1>1, <1>2 DEF MaxOf, Below
    <3>2. promised_ballot' = [promised_ballot EXCEPT ![i] = p]
      BY <2>3
    <3> HIDE DEF p
    <3> QED
      BY <3>1, <3>2, PromiseBelow
  <2>10. \A k \in Node : active_ballot'[k] <= b
    BY <2>8 DEF Below
  <2>11. ~is_leader[i]
    BY <1>4 DEF Elected, LeaderWon
  <2>12. Stays(b)
    BY <2>8, <2>11 DEF Stays
  <2> QED
    BY <2>7, <2>9, <2>10, <2>12, BelowParts
<1> QED
  BY <1>3, <1>4

\* A heartbeat is of the leader's ballot.
LEMMA SendHeartbeatBelow ==
  ASSUME TypeOK, NEW b \in Int, Below(b), NEW i \in Node, SendHeartbeat(i)
  PROVE  Below(b)' /\ Stays(b)
<1> DEFINE beat == [type |-> "Heartbeat", ballot |-> active_ballot[i],
                    committed |-> CommitIndex(i)]
<1>1. active_ballot[i] \in Ballot /\ CommitIndex(i) \in 0..MaxSlot
  BY BoundAssumption DEF TypeOK, CommitIndex, SendHeartbeat, BroadcastHeartbeat
<1>2. beat \in Message /\ beat.ballot <= b
  BY <1>1 DEF Message, Below
<1>3. /\ net' = Emit(net, i, Broadcast(<<beat>>))
      /\ UNCHANGED <<is_leader, active_ballot, promised_ballot>>
  BY DEF SendHeartbeat, BroadcastHeartbeat, voteVars
<1> HIDE DEF beat
<1>4. NetBelow(net', b)
  <2>1. net \in [Channel -> Seq(Message)]
    BY DEF TypeOK
  <2>2. Added(net', net, i, beat)
    BY <1>2, <1>3, <2>1, BroadcastOneType
  <2> QED
    BY <1>2, <2>2 DEF Added, NetBelow, Below
<1>5. \A k \in Node : promised_ballot'[k] <= b
  BY <1>3 DEF Below
<1> QED
  BY <1>3, <1>4, <1>5, VotesBelow, BelowParts

\* Only an election goes beyond the ballots that are known.
LEMMA OnlyElectionsRise ==
  ASSUME TypeOK, Elected, NEW b \in Int, Below(b), Next,
         ~\E i \in Candidate : StartElection(i)
  PROVE  Below(b)' /\ Stays(b)
<1> DEFINE Goal == Below(b)' /\ Stays(b)
<1>1. ASSUME NEW i \in Node, StartElection(i) PROVE Goal
  BY <1>1 DEF StartElection
<1>2. ASSUME NEW i \in Node, SendHeartbeat(i) PROVE Goal
  BY <1>2, SendHeartbeatBelow
<1>3. ASSUME NEW i \in Node, NEW cmd \in Command, ClientSubmit(i, cmd) PROVE Goal
  <2>1. SubmitCommand(i, cmd, net) /\ cmd \in Value /\ Remaining(net)
    BY <1>3 DEF ClientSubmit, Value, Remaining, TypeOK
  <2> QED
    BY <2>1, SubmitBelow
<1>4. ASSUME NEW i \in Node, NEW j \in Node, NEW k \in Deliverable(<<j, i>>), Receive(j, i, k)
      PROVE  Goal
  <2> DEFINE c == <<j, i>>
             m == net[c][k]
             n == Taken(c, k)
  <2>1. c \in Channel /\ k \in DOMAIN net[c]
    BY DEF Channel, Deliverable
  <2>2. /\ n \in [Channel -> Seq(Message)]
        /\ \A d \in Channel : \A x \in Range(n[d]) : x \in Range(net[d])
        /\ m \in Message /\ m \in Range(net[c])
    <3> HIDE DEF c
    <3> QED
      BY <2>1, TakenType DEF TypeOK
  <2>3. Remaining(n)
    BY <2>2 DEF Remaining
  <2>4. m.type \in Numbered => m.ballot <= b
    BY <2>1, <2>2 DEF Below, NetBelow
  <2>5. \/ m.type = "Prepare"     /\ OnPrepare(i, j, m, n)
        \/ m.type = "Promise"     /\ OnPromise(i, j, m, n)
        \/ m.type = "Accept"      /\ OnAcceptRequest(i, j, m, n)
        \/ m.type = "Accepted"    /\ OnAccepted(i, j, m, n)
        \/ m.type = "Commit"      /\ OnCommit(i, j, m, n)
        \/ m.type = "Heartbeat"   /\ OnHeartbeat(i, j, m, n)
        \/ m.type = "SyncRequest" /\ OnSyncRequest(i, j, m, n)
        \/ m.type = "SyncData"    /\ OnSyncData(i, j, m, n)
        \/ m.type = "Forward"     /\ OnForwardRequest(i, j, m, n)
    BY <1>4 DEF Receive, OnMessage
  <2> HIDE DEF m, n, c
  <2>6. m.type \in Numbered \/ m.type \in {"SyncRequest", "SyncData", "Forward"}
    BY <2>5 DEF Numbered
  <2>7. CASE m.type \in Numbered
    <3>1. m.ballot <= b
      BY <2>4, <2>7
    <3> QED
      BY <2>2, <2>3, <2>5, <2>7, <3>1, OnPrepareBelow, OnPromiseBelow, OnAcceptRequestBelow,
         OnAcceptedBelow, OnCommitBelow, OnHeartbeatBelow DEF Numbered
  <2>8. CASE m.type = "SyncRequest"
    BY <2>2, <2>3, <2>5, <2>8, OnSyncRequestBelow
  <2>9. CASE m.type = "SyncData"
    BY <2>2, <2>3, <2>5, <2>9, OnSyncDataBelow
  <2>10. CASE m.type = "Forward"
    <3>1. SubmitCommand(i, m.command, n) /\ m.command \in Value
      BY <2>2, <2>5, <2>10, MessageFields DEF OnForwardRequest
    <3> QED
      BY <2>3, <3>1, SubmitBelow
  <2> QED
    BY <2>6, <2>7, <2>8, <2>9, <2>10
<1> HIDE DEF Goal
<1>5. Goal
  BY <1>1, <1>2, <1>3, <1>4 DEF Next
<1> QED
  BY <1>5 DEF Goal

(***************************************************************************)
(* One ballot for everything anybody says.                                 *)
(***************************************************************************)

\* The others never prepare; the candidate's last ballot is the highest there
\* is, and once somebody speaks of a proposal the candidate leads that ballot.
OneBallot ==
  /\ \A i \in Node \ Candidate : prepare[i].ballot = -1
  /\ \A c \in Candidate :
       /\ prepare[c].ballot = promised_ballot[c]
       /\ Below(promised_ballot[c])
       /\ \A e \in Entries : is_leader[c] /\ e.ballot = active_ballot[c]

\* There is a candidate, and no other.
LEMMA TheCandidate ==
  \E c \in Node : Candidate = {c}
<1>1. IsFiniteSet(Candidate)
  BY NodesFinite, CandidateAssumption, FS_Subset
<1>2. \E c : Candidate = {c}
  BY <1>1, OneCandidateAssumption, FS_Singleton
<1> QED
  BY <1>2, CandidateAssumption

\* Only the candidate leads or can win, the ballot it promised last.
LEMMA OnlyCandidateLeads ==
  ASSUME TypeOK, Elected, OneBallot, NEW c \in Node, Candidate = {c}, NEW i \in Node,
         is_leader[i] \/ prepare[i].ballot \in Ballot
  PROVE  i = c /\ (is_leader[i] => active_ballot[i] = promised_ballot[c])
<1>1. is_leader[i] => prepare[i].ballot = active_ballot[i] /\ prepare[i].ballot # -1
  BY DEF TypeOK, Elected, LeaderWon
<1>2. prepare[i].ballot # -1
  BY <1>1, BallotOwner
<1> QED
  BY <1>1, <1>2 DEF OneBallot

\* An election is above all that was known.
LEMMA ElectionBelow ==
  ASSUME TypeOK, NEW i \in Node, Below(promised_ballot[i]), StartElection(i)
  PROVE  Below(promised_ballot[i])'
<1>1. PICK b \in Int : b = promised_ballot[i]
  BY BallotsAreInts
<1> DEFINE r == election_round[i] + 1
           a == ElectionBallot(i, r)
           ask == [type |-> "Prepare", ballot |-> a]
<1>2. /\ a < (MaxRound + 1) * 100
      /\ promised_ballot' = [promised_ballot EXCEPT ![i] = a]
      /\ active_ballot' = [active_ballot EXCEPT ![i] = a]
      /\ net' = Emit(net, i, Broadcast(<<ask>>))
  BY DEF StartElection
<1>3. a \in Ballot /\ a \in Int /\ b < a
  <2>1. r \in Nat \ {0} /\ promised_ballot[i] \in Ballot \cup {-1}
    BY DEF TypeOK
  <2> HIDE DEF r
  <2>2. a \in Ballot /\ a > promised_ballot[i]
    BY <1>2, <2>1, ElectionBallotIsNew
  <2> QED
    BY <1>1, <2>2, BallotOwner
<1> HIDE DEF r, a
<1>4. ask \in Message /\ ask.ballot = a
  BY <1>3 DEF Message
<1> HIDE DEF ask
<1>5. promised_ballot'[i] = a /\ \A k \in Node : promised_ballot'[k] <= a /\ active_ballot'[k] <= a
  <2>1. \A k \in Node : /\ promised_ballot'[k] = IF k = i THEN a ELSE promised_ballot[k]
                        /\ active_ballot'[k] = IF k = i THEN a ELSE active_ballot[k]
    BY <1>2 DEF TypeOK
  <2>2. \A k \in Node : promised_ballot[k] <= b /\ active_ballot[k] <= b
    BY <1>1 DEF Below
  <2> QED
    BY <1>1, <1>3, <2>1, <2>2, BallotsAreInts
<1>6. NetBelow(net', a)
  <2>1. ASSUME NEW c \in Channel, NEW x \in Range(net[c]), x.type \in Numbered
        PROVE  x.ballot <= a
    <3>1. net[c] \in Seq(Message)
      BY DEF TypeOK
    <3>2. x \in Message
      BY <3>1 DEF Range
    <3>3. x.ballot \in Int
      BY <2>1, <3>2, MessageBallot
    <3>4. x.ballot <= b
      BY <1>1, <2>1 DEF Below, NetBelow
    <3> QED
      BY <1>1, <1>3, <3>3, <3>4
  <2>2. Added(net', net, i, ask)
    BY <1>2, <1>4, BroadcastOneType DEF TypeOK
  <2> QED
    BY <1>3, <1>4, <2>1, <2>2 DEF Added, NetBelow
<1> QED
  BY <1>5, <1>6 DEF Below, NetBelow

\* What was said of a slot is said again with the same command only.
SlotsKept ==
  \A e \in Entries, f \in Entries' : e.slot = f.slot => e.command = f.command

\* A step other than an election keeps the one ballot and the command of each
\* slot.
LEMMA OneBallotStep ==
  ASSUME TypeOK, Elected, ValueInv, OneBallot, Next,
         ~\E i \in Candidate : StartElection(i)
  PROVE  OneBallot' /\ SlotsKept
<1>1. PICK c \in Node : Candidate = {c}
  BY TheCandidate
<1>2. PICK b \in Int : b = promised_ballot[c]
  BY BallotsAreInts
<1>3. Below(b) /\ prepare[c].ballot = b
  BY <1>1, <1>2 DEF OneBallot
<1>4. Below(b)' /\ Stays(b)
  BY <1>3, OnlyElectionsRise
<1>5. TypeOK'
  BY NextType
<1>6. \A i \in Node : is_leader[i] \/ prepare[i].ballot \in Ballot =>
        i = c /\ (is_leader[i] => active_ballot[i] = b)
  BY <1>1, <1>2, OnlyCandidateLeads
<1>7. is_leader[c] => prepare[c].completed
  BY DEF Elected, LeaderWon
<1>8. \A e \in Entries : is_leader[c] /\ e.ballot = active_ballot[c] /\ active_ballot[c] = b
  BY <1>1, <1>6 DEF OneBallot
<1>9. \A e, f \in Entries : e.slot = f.slot => e.command = f.command
  BY <1>8 DEF ValueInv, OneValuePerBallot
<1> DEFINE Prepared == /\ \A i \in Node : prepare'[i].ballot = prepare[i].ballot
                       /\ promised_ballot'[c] >= promised_ballot[c]
           Spoken1 == \A e \in Entries' : is_leader'[c] /\ e.ballot = active_ballot'[c]
           Goal == Prepared /\ Spoken1 /\ SlotsKept
<1>10. ASSUME Entries' \subseteq Entries PROVE Spoken1 /\ SlotsKept
  BY <1>8, <1>9, <1>4, <1>10 DEF Stays, SlotsKept
<1>11. ASSUME Quiet PROVE Goal
  BY <1>10, <1>11 DEF Quiet, VotesQuiet
<1>12. ASSUME NEW i \in Node, Starts(i) PROVE FALSE
  <2>1. i = c /\ promised_ballot'[c] > b
    BY <1>1, <1>2, <1>12 DEF Starts
  <2>2. promised_ballot'[c] <= b
    BY <1>4 DEF Below
  <2>3. promised_ballot'[c] \in Int
    BY <1>5, BallotOwner DEF TypeOK
  <2> QED
    BY <2>1, <2>2, <2>3
<1>13. ASSUME NEW i \in Node, NEW j \in Node, NEW m, Collects(i, j, m) PROVE Goal
  BY <1>10, <1>13 DEF Collects, VotesQuiet
<1>14. ASSUME NEW i \in Node, NEW j \in Node, NEW m, Wins(i, j, m) PROVE Goal
  <2>1. i = c /\ m.ballot = prepare[c].ballot /\ ~prepare[c].completed
    BY <1>6, <1>14 DEF Wins
  <2>2. Entries = {}
    BY <1>7, <1>8, <2>1
  <2>3. is_leader'[c] /\ active_ballot'[c] = m.ballot
    BY <1>14, <2>1 DEF Wins, TypeOK
  <2>4. PICK D, cmds : Recovers(i, m.ballot, D, cmds)
    BY <1>14 DEF Wins
  <2>5. \A e \in Entries' : e.ballot = m.ballot
    BY <2>2, <2>4 DEF Recovers, Spoken
  <2>6. Prepared
    BY <1>14, <2>1 DEF Wins
  <2> QED
    BY <2>2, <2>3, <2>5, <2>6 DEF SlotsKept
<1>15. ASSUME NEW i \in Node, NEW s \in Slot, Counts(i, s) PROVE Goal
  <2> DEFINE new == [slot |-> s, ballot |-> active_ballot[c], command |-> proposals[c][s].command]
  <2>1. /\ i = c /\ is_leader[c] /\ proposals[c][s].accepts # {}
        /\ Entries' \subseteq Entries \cup {new}
    BY <1>6, <1>15 DEF Counts
  <2>2. is_leader'[c] /\ active_ballot'[c] = active_ballot[c]
    BY <1>4, <1>6, <2>1 DEF Stays
  <2>3. Spoken1
    BY <1>8, <2>1, <2>2
  <2>4. \A e \in Entries : e.slot = s => e.command = new.command
    BY <1>8, <2>1 DEF ValueInv, LeaderKnowsItsSlots
  <2>5. SlotsKept
    BY <1>9, <2>1, <2>4 DEF SlotsKept
  <2>6. Prepared
    BY <1>15 DEF Counts, VotesQuiet
  <2> QED
    BY <2>3, <2>5, <2>6
<1>16. ASSUME NEW i \in Node, NEW s \in Slot, NEW cmd \in Value, Submits(i, s, cmd) PROVE Goal
  <2> DEFINE new == [slot |-> s, ballot |-> active_ballot[c], command |-> cmd]
  <2>1. /\ i = c /\ is_leader[c] /\ s >= next_slot[c]
        /\ Entries' \subseteq Entries \cup {new}
        /\ UNCHANGED <<voteVars, prepare>>
    BY <1>6, <1>16 DEF Submits
  <2>2. Spoken1
    BY <1>8, <2>1 DEF voteVars
  <2>3. \A e \in Entries : e.slot # s
    <3>1. \A e \in Entries : e.slot < next_slot[c] /\ e.slot \in Slot
      BY <1>8, <2>1, EntriesTyped DEF ValueInv, LeaderKnowsItsSlots, RecoveredEntry
    <3>2. next_slot[c] \in Int /\ \A t \in Slot : t \in Int
      BY BoundAssumption DEF TypeOK, Slot
    <3> QED
      BY <2>1, <3>1, <3>2
  <2>4. SlotsKept
    BY <1>9, <2>1, <2>3 DEF SlotsKept
  <2>5. Prepared
    BY <1>2, <2>1 DEF voteVars
  <2> QED
    BY <2>2, <2>4, <2>5
<1> HIDE DEF Goal
<1>17. Goal
  BY <1>11, <1>12, <1>13, <1>14, <1>15, <1>16, StepKinds
<1>18. promised_ballot'[c] = b /\ prepare'[c].ballot = b
  <2>1. promised_ballot'[c] <= b /\ promised_ballot'[c] >= b
    BY <1>2, <1>4, <1>17 DEF Below, Goal
  <2>2. promised_ballot'[c] \in Int
    BY <1>5, BallotOwner DEF TypeOK
  <2> QED
    BY <1>2, <1>3, <1>17, <2>1, <2>2 DEF Goal
<1>19. Below(promised_ballot[c])'
  BY <1>4, <1>18 DEF Below, NetBelow
<1> QED
  BY <1>1, <1>17, <1>18, <1>19 DEF OneBallot, Goal

\* An election only starts while nobody has said anything.
LEMMA OneBallotStarts ==
  ASSUME TypeOK, OneBallot, NEW c \in Node, Candidate = {c}, StartElection(c)
  PROVE  OneBallot' /\ SlotsKept
<1>1. Starts(c)
  BY StartElectionEffect
<1>2. Entries = {} /\ Entries' = {}
  BY <1>1 DEF OneBallot, Starts
<1>3. Below(promised_ballot[c])'
  BY ElectionBelow DEF OneBallot
<1>4. prepare'[c].ballot = promised_ballot'[c] /\ \A k \in Node \ {c} : prepare'[k] = prepare[k]
  BY <1>1 DEF Starts
<1> QED
  BY <1>2, <1>3, <1>4 DEF OneBallot, SlotsKept

\* What was applied stays what the log says.
LEMMA AppliedStep ==
  ASSUME TypeOK, TypeOK', AppliedMatchesLog, Grows, SlotsKept
  PROVE  AppliedMatchesLog'
<1> SUFFICES ASSUME NEW k \in Node, NEW s \in 1..Len(applied'[k])
             PROVE  log'[k][s].committed /\ log'[k][s].command = applied'[k][s]
  BY DEF AppliedMatchesLog, CommitIndex
<1>1. Len(applied[k]) \in Nat /\ Len(applied[k]) <= MaxSlot /\ Len(applied'[k]) \in Nat
  BY DEF TypeOK, CommitIndex
<1>2. CASE s > Len(applied[k])
  BY <1>1, <1>2 DEF Grows
<1>3. CASE ~(s > Len(applied[k]))
  <2>1. s \in 1..Len(applied[k]) /\ s \in Slot
    BY <1>1, <1>3, BoundAssumption DEF Slot
  <2>2. /\ log[k][s].committed /\ log[k][s].command = applied[k][s]
        /\ log'[k][s].committed /\ applied'[k][s] = applied[k][s]
    BY <2>1 DEF AppliedMatchesLog, CommitIndex, Grows, Keeps
  <2> DEFINE e == [slot |-> s, ballot |-> log[k][s].ballot, command |-> log[k][s].command]
             f == [slot |-> s, ballot |-> log'[k][s].ballot, command |-> log'[k][s].command]
  <2>3. log[k][s].ballot # -1 /\ log'[k][s].ballot # -1
    BY <2>1, <2>2 DEF TypeOK, NoEntry
  <2>4. e \in Entries /\ f \in Entries'
    <3>1. e \in LogEntries(k) /\ f \in LogEntries(k)'
      BY <2>1, <2>3 DEF LogEntries
    <3> QED
      BY <3>1 DEF Entries
  <2>5. e.slot = f.slot
    OBVIOUS
  <2>6. e.command = f.command
    BY <2>4, <2>5 DEF SlotsKept
  <2> QED
    BY <2>2, <2>6
<1> QED
  BY <1>2, <1>3

\* All of it, inductively.
StableInv == OneBallot /\ AppliedMatchesLog

LEMMA InitStable == Init => StableInv
<1> SUFFICES ASSUME Init PROVE StableInv
  OBVIOUS
<1>1. Entries = {}
  BY InitEntries
<1>2. \A k \in Node : prepare[k].ballot = -1 /\ promised_ballot[k] = -1 /\ active_ballot[k] = -1
  BY DEF Init, NoPrepare
<1>3. \A c \in Channel : Range(net[c]) = {}
  BY DEF Init, Range
<1>4. OneBallot
  BY <1>1, <1>2, <1>3, CandidateAssumption DEF OneBallot, Below, NetBelow
<1>5. AppliedMatchesLog
  BY DEF Init, AppliedMatchesLog, CommitIndex
<1> QED
  BY <1>4, <1>5 DEF StableInv

LEMMA NextStable ==
  TypeOK /\ Elected /\ ValueInv /\ StableInv /\ [Next]_vars => StableInv'
<1> SUFFICES ASSUME TypeOK, Elected, ValueInv, StableInv, [Next]_vars PROVE StableInv'
  OBVIOUS
<1>1. CASE UNCHANGED vars
  <2>1. Entries' = Entries
    BY <1>1 DEF vars, leadVars, logVars, Entries, LogEntries, InTransit, MessageEntries
  <2>2. OneBallot'
    BY <1>1, <2>1 DEF vars, voteVars, leadVars, StableInv, OneBallot, Below, NetBelow
  <2>3. AppliedMatchesLog'
    BY <1>1 DEF vars, logVars, StableInv, AppliedMatchesLog, CommitIndex
  <2> QED
    BY <2>2, <2>3 DEF StableInv
<1>2. CASE Next
  <2>1. TypeOK' /\ Grows
    BY <1>2, NextType, NextGrows
  <2>2. OneBallot' /\ SlotsKept
    <3>1. CASE ~\E i \in Candidate : StartElection(i)
      BY <1>2, <3>1, OneBallotStep DEF StableInv
    <3>2. CASE \E i \in Candidate : StartElection(i)
      BY <3>2, TheCandidate, OneBallotStarts DEF StableInv
    <3> QED
      BY <3>1, <3>2
  <2> QED
    BY <2>1, <2>2, AppliedStep DEF StableInv
<1> QED
  BY <1>1, <1>2

\* With one candidate there is one ballot for all that is ever said, and what a
\* node applied is what its log says was committed: late accepts, repeated
\* commits and sync data do not rewrite history.
THEOREM HistoryStays == Spec => []AppliedMatchesLog
<1>1. Spec => []StableInv
  BY InitStable, NextStable, ElectionElected, TypeCorrect, ElectionsAreSound, ValuesAreSound, PTL
     DEF Spec
<1>2. StableInv => AppliedMatchesLog
  BY DEF StableInv
<1> QED
  BY <1>1, <1>2, PTL

\* What two nodes applied in a slot are entries of the one ballot.
LEMMA StableAgrees ==
  ASSUME TypeOK, ValueInv, StableInv
  PROVE  Agreement
<1> SUFFICES ASSUME NEW i \in Node, NEW j \in Node, NEW s \in Slot,
                    s <= CommitIndex(i), s <= CommitIndex(j)
             PROVE  applied[i][s] = applied[j][s]
  BY DEF Agreement
<1> DEFINE said(k) == [slot |-> s, ballot |-> log[k][s].ballot, command |-> log[k][s].command]
<1>1. ASSUME NEW k \in Node, s <= CommitIndex(k)
      PROVE  said(k) \in Entries /\ applied[k][s] = log[k][s].command
  <2>1. s \in 1..CommitIndex(k)
    BY <1>1, BoundAssumption DEF TypeOK, CommitIndex, Slot
  <2>2. log[k][s].committed /\ log[k][s].command = applied[k][s]
    BY <2>1 DEF StableInv, AppliedMatchesLog
  <2>3. log[k][s].ballot # -1
    BY <2>2 DEF TypeOK, NoEntry
  <2> QED
    BY <2>2, <2>3, EntriesKnown
<1>2. PICK c \in Node : Candidate = {c}
  BY TheCandidate
<1>3. \A k \in Node : s <= CommitIndex(k) => said(k) \in Entries
  BY <1>1
<1>4. said(i).ballot = active_ballot[c] /\ said(j).ballot = active_ballot[c]
  BY <1>2, <1>3 DEF StableInv, OneBallot
<1>5. said(i).command = said(j).command
  <2>1. \A a, b \in Entries : a.slot = b.slot /\ a.ballot = b.ballot => a.command = b.command
    BY DEF ValueInv, OneValuePerBallot
  <2>2. said(i).slot = s /\ said(j).slot = s
    OBVIOUS
  <2>3. said(i) \in Entries /\ said(j) \in Entries
    BY <1>3
  <2> HIDE DEF said
  <2> QED
    BY <1>4, <2>1, <2>2, <2>3
<1> QED
  BY <1>1, <1>5

\* With one candidate any two nodes applied the same commands, as far as both
\* have got.
THEOREM NodesAgree == Spec => []Agreement
<1>1. Spec => []StableInv
  BY InitStable, NextStable, ElectionElected, TypeCorrect, ElectionsAreSound, ValuesAreSound, PTL
     DEF Spec
<1>2. TypeOK /\ ValueInv /\ StableInv => Agreement
  BY StableAgrees
<1> QED
  BY <1>1, <1>2, TypeCorrect, ValuesAreSound, PTL

(***************************************************************************)
(* What stands behind a commit (try_commit_slot of paxos.cpp): a slot is   *)
(* committed anywhere, or said to be, only after a quorum stored it.       *)
(*                                                                         *)
(* An accept that is counted is the leader's own entry or was said by a    *)
(* node that has stored the entry, and entries are never dropped; the rest *)
(* of the commits repeats one that was there before.                       *)
(***************************************************************************)

\* The nodes with an entry in slot s.
Holders(s) == {j \in Node : log[j][s].ballot # -1}

\* Message x says that slot s is committed.
Tells(x, s) ==
  \/ x.type = "Commit" /\ x.slot = s
  \/ x.type = "SyncData" /\ \E e \in x.entries : e.slot = s

\* Slot s is committed in a log, or said to be by a message in transit.
Sure(s) ==
  \/ \E k \in Node : log[k][s].committed
  \/ \E c \in Channel : \E x \in Range(net[c]) : Tells(x, s)

\* The nodes from which k may hold an accept of slot s after a step: it held it
\* before, it was on its way, or the node has the entry now.
Backs(k, s) ==
  proposals[k][s].accepts
    \cup {j \in Node : \E x \in Range(net[<<j, k>>]) : x.type = "Accepted" /\ x.slot = s}
    \cup Holders(s)'

\* A leader commits slot s with a quorum of such accepts.
Commits(s) ==
  \E i \in Node :
    /\ is_leader'[i] /\ log'[i][s].committed
    /\ \E A \in SUBSET Backs(i, s) : Cardinality(A) >= Quorum

\* What a step counts, commits and says has a reason.
CountsBacked ==
  \A k \in Node, s \in Slot : proposals'[k][s].accepts \subseteq Backs(k, s)

LogBacked ==
  \A k \in Node, s \in Slot : log'[k][s].committed => Sure(s) \/ Commits(s)

NetBacked ==
  \A c \in Channel : \A x \in Range(net'[c]) :
    \/ x \in Range(net[c])
    \/ /\ \A s \in Slot : Tells(x, s) => Sure(s) \/ Commits(s)
       /\ x.type = "Accepted" => c[1] \in Holders(x.slot)'

Backed == CountsBacked /\ LogBacked /\ NetBacked

(***************************************************************************)
(* Steps that count and commit nothing.                                    *)
(***************************************************************************)

LEMMA CountsSame ==
  ASSUME UNCHANGED proposals
  PROVE  CountsBacked
BY DEF CountsBacked, Backs

LEMMA LogSame ==
  ASSUME \A k \in Node, s \in Slot : log'[k][s].committed => log[k][s].committed
  PROVE  LogBacked
BY DEF LogBacked, Sure

LEMMA NetTaken ==
  ASSUME Remaining(net')
  PROVE  NetBacked
BY DEF NetBacked, Remaining

\* Messages that neither accept nor commit.
LEMMA NetAdded ==
  ASSUME NEW n, Remaining(n), NEW i, NEW m, Added(net', n, i, m),
         m.type \notin {"Commit", "SyncData", "Accepted"}
  PROVE  NetBacked
BY DEF NetBacked, Remaining, Added, Tells

LEMMA Unbacked ==
  ASSUME UNCHANGED <<log, proposals>>, NetBacked
  PROVE  Backed
BY CountsSame, LogSame DEF Backed

LEMMA StartElectionBacked ==
  ASSUME TypeOK, NEW i \in Node, StartElection(i)
  PROVE  Backed
<1> DEFINE b   == ElectionBallot(i, election_round[i] + 1)
           ask == [type |-> "Prepare", ballot |-> b]
<1>1. /\ b < (MaxRound + 1) * 100
      /\ net' = Emit(net, i, Broadcast(<<ask>>))
      /\ UNCHANGED <<log, proposals>>
  BY DEF StartElection, logVars
<1>2. election_round[i] + 1 \in Nat \ {0} /\ promised_ballot[i] \in Ballot \cup {-1}
  BY DEF TypeOK
<1>3. b \in Ballot
  BY <1>1, <1>2, ElectionBallotIsNew
<1> HIDE DEF b
<1>4. ask \in Message /\ ask.type = "Prepare"
  BY <1>3 DEF Message
<1> HIDE DEF ask
<1>5. Remaining(net)
  BY DEF Remaining, TypeOK
<1>6. Added(net', net, i, ask)
  BY <1>1, <1>4, <1>5, BroadcastOneType DEF Remaining
<1> QED
  BY <1>1, <1>4, <1>5, <1>6, NetAdded, Unbacked

LEMMA SendHeartbeatBacked ==
  ASSUME TypeOK, NEW i \in Node, SendHeartbeat(i)
  PROVE  Backed
<1> DEFINE beat == [type |-> "Heartbeat", ballot |-> active_ballot[i], committed |-> CommitIndex(i)]
<1>1. is_leader[i] /\ net' = Emit(net, i, Broadcast(<<beat>>)) /\ UNCHANGED <<log, proposals>>
  BY DEF SendHeartbeat, BroadcastHeartbeat, logVars, leadVars
<1>2. active_ballot[i] \in Ballot /\ CommitIndex(i) \in 0..MaxSlot
  BY <1>1, BoundAssumption DEF TypeOK, CommitIndex
<1>3. beat \in Message /\ beat.type = "Heartbeat"
  BY <1>2 DEF Message
<1> HIDE DEF beat
<1>4. Remaining(net)
  BY DEF Remaining, TypeOK
<1>5. Added(net', net, i, beat)
  BY <1>1, <1>3, <1>4, BroadcastOneType DEF Remaining
<1> QED
  BY <1>1, <1>3, <1>4, <1>5, NetAdded, Unbacked

LEMMA OnPrepareBacked ==
  ASSUME TypeOK, NEW i \in Node, NEW j \in Node, NEW m \in Message, m.type = "Prepare",
         NEW n, Remaining(n), OnPrepare(i, j, m, n)
  PROVE  Backed
<1> DEFINE ok    == m.ballot >= promised_ballot[i]
           reply == [type |-> "Promise", ballot |-> m.ballot, ok |-> ok,
                     entries |-> IF ok THEN CollectAcceptedEntries(i) ELSE {}]
<1>1. net' = Emit(n, i, Unicast(j, reply)) /\ UNCHANGED <<log, proposals>>
  BY DEF OnPrepare, logVars, leadVars
<1>2. m.ballot \in Ballot /\ CollectAcceptedEntries(i) \in SUBSET RecoveredEntry
  BY MessageFields, CollectType
<1>3. reply \in Message /\ reply.type = "Promise"
  BY <1>2 DEF Message
<1> HIDE DEF reply
<1>4. Added(net', n, i, reply)
  BY <1>1, <1>3, SendType DEF Remaining
<1> QED
  BY <1>1, <1>3, <1>4, NetAdded, Unbacked

LEMMA OnHeartbeatBacked ==
  ASSUME TypeOK, NEW i \in Node, NEW j \in Node, NEW m \in Message, m.type = "Heartbeat",
         NEW n, Remaining(n), OnHeartbeat(i, j, m, n)
  PROVE  Backed
<1> DEFINE ask == [type |-> "SyncRequest", slot |-> CommitIndex(i) + 1]
<1>1. UNCHANGED <<log, proposals>>
  BY DEF OnHeartbeat, logVars, leadVars
<1>2. CASE m.committed > CommitIndex(i) /\ net' = Emit(n, i, Unicast(j, ask))
  <2>1. m.committed \in 0..MaxSlot /\ CommitIndex(i) \in Nat
    BY MessageFields DEF TypeOK, CommitIndex
  <2>2. CommitIndex(i) + 1 \in Slot
    BY <1>2, <2>1, BoundAssumption DEF Slot
  <2>3. ask \in Message /\ ask.type = "SyncRequest"
    BY <2>2 DEF Message
  <2> HIDE DEF ask
  <2>4. Added(net', n, i, ask)
    BY <1>2, <2>3, SendType DEF Remaining
  <2> QED
    BY <1>1, <2>3, <2>4, NetAdded, Unbacked
<1>3. CASE net' = n
  BY <1>1, <1>3, NetTaken, Unbacked
<1> QED
  BY <1>2, <1>3 DEF OnHeartbeat

LEMMA ForwardBacked ==
  ASSUME TypeOK, NEW i \in Node, NEW cmd \in Value, NEW n, Remaining(n),
         SubmitCommand(i, cmd, n), ~is_leader[i]
  PROVE  Backed
<1> DEFINE sent == [type |-> "Forward", command |-> cmd]
<1>1. net' = Emit(n, i, Unicast(ForwardTo(i), sent)) /\ UNCHANGED <<log, proposals>>
  BY DEF SubmitCommand, logVars, leadVars
<1>2. sent \in Message /\ sent.type = "Forward"
  BY DEF Message
<1> HIDE DEF sent
<1>3. Added(net', n, i, sent)
  BY <1>1, <1>2, SendType DEF Remaining
<1> QED
  BY <1>1, <1>2, <1>3, NetAdded, Unbacked

(***************************************************************************)
(* An accept, and what is learnt from others.                              *)
(***************************************************************************)

\* A node that accepts, and does not reject, has the entry.
LEMMA OnAcceptRequestBacked ==
  ASSUME TypeOK, NEW i \in Node, NEW j \in Node, NEW m \in Message, m.type = "Accept",
         m.ballot >= promised_ballot[i],
         NEW n, Remaining(n), OnAcceptRequest(i, j, m, n)
  PROVE  Backed
<1> DEFINE keep  == log[i][m.slot].committed /\ log[i][m.slot].command # Empty
           entry == [ballot |-> m.ballot, command |-> m.command,
                     committed |-> log[i][m.slot].committed]
           reply == [type |-> "Accepted", slot |-> m.slot, ballot |-> m.ballot]
<1>1. /\ log' = IF keep THEN log ELSE [log EXCEPT ![i][m.slot] = entry]
      /\ net' = Emit(n, i, Unicast(j, reply))
      /\ UNCHANGED proposals
  BY DEF OnAcceptRequest, leadVars
<1>2. m.ballot \in Ballot /\ m.slot \in Slot /\ m.ballot # -1
  BY MessageFields, BallotOwner
<1>3. reply \in Message /\ reply.type = "Accepted" /\ reply.slot = m.slot
  BY <1>2 DEF Message
<1>4. /\ entry.ballot # -1 /\ entry.committed = log[i][m.slot].committed
      /\ log[i][m.slot].committed => log[i][m.slot].ballot # -1
  BY <1>2 DEF TypeOK, NoEntry
<1>5. /\ \A k \in Node, s \in Slot : log'[k][s].committed => log[k][s].committed
      /\ log'[i][m.slot].ballot # -1
  <2>1. CASE keep
    BY <1>1, <1>4, <2>1
  <2>2. CASE ~keep
    <3>1. log' = [log EXCEPT ![i][m.slot] = entry]
      BY <1>1, <2>2
    <3>2. log \in [Node -> [Slot -> AcceptedValue]]
      BY DEF TypeOK
    <3> HIDE DEF entry
    <3>3. \A k \in Node, s \in Slot :
            log'[k][s] = IF k = i /\ s = m.slot THEN entry ELSE log[k][s]
      BY <1>2, <3>1, <3>2
    <3> QED
      BY <1>2, <1>4, <3>3
  <2> QED
    BY <2>1, <2>2
<1> HIDE DEF reply, entry, keep
<1>6. Added(net', n, i, reply)
  BY <1>1, <1>3, SendType DEF Remaining
<1>7. i \in Holders(reply.slot)' /\ \A s \in Slot : ~Tells(reply, s)
  BY <1>3, <1>5 DEF Holders, Tells
<1>8. NetBacked
  BY <1>6, <1>7 DEF NetBacked, Added, Remaining
<1> QED
  BY <1>1, <1>5, <1>8, CountsSame, LogSame DEF Backed

\* Commits learnt from a message were known.
LEMMA LearnCommittedBacked ==
  ASSUME TypeOK, NEW i \in Node, NEW es \in SUBSET RecoveredEntry, \A e \in es : Sure(e.slot),
         LearnCommitted(i, es), UNCHANGED proposals, Remaining(net')
  PROVE  Backed
<1> DEFINE lg == StoreCommitted(log[i], es)
<1>1. log' = [log EXCEPT ![i] = lg]
  BY DEF LearnCommitted
<1>2. ASSUME NEW s \in Slot PROVE lg[s] = log[i][s] \/ Sure(s)
  BY DEF StoreCommitted
<1> HIDE DEF lg
<1>3. LogBacked
  <2> SUFFICES ASSUME NEW k \in Node, NEW s \in Slot, log'[k][s].committed
               PROVE  Sure(s)
    BY DEF LogBacked
  <2>1. log'[k] = log[k] \/ (k = i /\ log'[k] = lg)
    BY <1>1 DEF TypeOK
  <2>2. log'[k][s] = log[k][s] \/ Sure(s)
    BY <1>2, <2>1
  <2> QED
    BY <2>2 DEF Sure
<1> QED
  BY <1>3, CountsSame, NetTaken DEF Backed

LEMMA OnCommitBacked ==
  ASSUME TypeOK, NEW i \in Node, NEW j \in Node, NEW m \in Range(net[<<j, i>>]),
         m \in Message, m.type = "Commit",
         NEW n, Remaining(n), OnCommit(i, j, m, n)
  PROVE  Backed
<1> DEFINE e == [slot |-> m.slot, ballot |-> m.ballot, command |-> m.command]
<1>1. e \in RecoveredEntry /\ e.slot = m.slot
  BY MessageFields DEF RecoveredEntry
<1>2. LearnCommitted(i, {e}) /\ net' = n /\ UNCHANGED proposals
  BY DEF OnCommit, leadVars
<1> HIDE DEF e
<1>3. Sure(m.slot)
  <2>1. <<j, i>> \in Channel
    BY DEF Channel
  <2> QED
    BY <2>1 DEF Sure, Tells
<1>4. \A f \in {e} : Sure(f.slot)
  BY <1>1, <1>3
<1>5. {e} \in SUBSET RecoveredEntry
  BY <1>1
<1> QED
  BY <1>2, <1>4, <1>5, LearnCommittedBacked

LEMMA OnSyncDataBacked ==
  ASSUME TypeOK, NEW i \in Node, NEW j \in Node, NEW m \in Range(net[<<j, i>>]),
         m \in Message, m.type = "SyncData",
         NEW n, Remaining(n), OnSyncData(i, j, m, n)
  PROVE  Backed
<1>1. m.entries \in SUBSET RecoveredEntry
  BY MessageFields
<1>2. LearnCommitted(i, m.entries) /\ net' = n /\ UNCHANGED proposals
  BY DEF OnSyncData, leadVars
<1>3. \A e \in m.entries : Sure(e.slot)
  <2>1. <<j, i>> \in Channel
    BY DEF Channel
  <2> QED
    BY <2>1 DEF Sure, Tells
<1> QED
  BY <1>1, <1>2, <1>3, LearnCommittedBacked

\* Sync data are read from the committed log.
LEMMA OnSyncRequestBacked ==
  ASSUME TypeOK, NEW i \in Node, NEW j \in Node, NEW m \in Message, m.type = "SyncRequest",
         NEW n, Remaining(n), OnSyncRequest(i, j, m, n)
  PROVE  Backed
<1> DEFINE found == {s \in m.slot .. CommitIndex(i) : log[i][s].committed}
           es    == {[slot |-> s, ballot |-> log[i][s].ballot, command |-> log[i][s].command] :
                       s \in found}
           data  == [type |-> "SyncData", entries |-> es]
<1>1. UNCHANGED <<log, proposals>> /\ (net' = n \/ net' = Emit(n, i, Unicast(j, data)))
  BY DEF OnSyncRequest, logVars, leadVars
<1>2. found \in SUBSET Slot
  <2>1. m.slot \in Slot /\ CommitIndex(i) \in Nat /\ CommitIndex(i) <= MaxSlot
    BY MessageFields DEF TypeOK, CommitIndex
  <2> QED
    BY <2>1, BoundAssumption DEF Slot
<1>3. es \in SUBSET RecoveredEntry
  <2>1. ASSUME NEW s \in found
        PROVE  log[i][s].ballot \in Ballot /\ log[i][s].command \in Value
    <3>1. log[i][s] \in AcceptedValue /\ log[i][s].committed
      BY <1>2 DEF TypeOK
    <3>2. log[i][s].ballot # -1
      BY <1>2, <3>1 DEF TypeOK, NoEntry
    <3> QED
      BY <3>1, <3>2 DEF AcceptedValue
  <2> HIDE DEF found
  <2> QED
    BY <1>2, <2>1 DEF RecoveredEntry
<1>4. \A e \in es : Sure(e.slot)
  BY DEF Sure
<1> HIDE DEF es
<1>5. data \in Message /\ data.type = "SyncData" /\ data.entries = es
  BY <1>3 DEF Message
<1> HIDE DEF data
<1>6. CASE net' = n
  BY <1>1, <1>6, NetTaken, Unbacked
<1>7. CASE net' = Emit(n, i, Unicast(j, data))
  <2>1. Added(net', n, i, data)
    BY <1>5, <1>7, SendType DEF Remaining
  <2>2. \A s \in Slot : Tells(data, s) => Sure(s)
    BY <1>4, <1>5 DEF Tells
  <2>3. NetBacked
    BY <1>5, <2>1, <2>2 DEF NetBacked, Added, Remaining
  <2> QED
    BY <1>1, <2>3, Unbacked
<1> QED
  BY <1>1, <1>6, <1>7


(***************************************************************************)
(* A leader counts and commits.                                            *)
(***************************************************************************)

\* try_commit_slot of leader i: every accept of props has a reason, and every
\* slot of S has a quorum of them.
LEMMA CommitSlotsBacked ==
  ASSUME TypeOK, NEW i \in Node, is_leader'[i], NEW b \in Ballot,
         NEW props \in [Slot -> SlotProposal],
         \A s \in Slot : props[s].accepts \subseteq Backs(i, s),
         NEW lg, LogOK(lg), \A s \in Slot : lg[s].committed => log[i][s].committed,
         NEW S \in SUBSET Slot, \A s \in S : Cardinality(props[s].accepts) >= Quorum,
         CommitSlots(i, b, props, lg, S)
  PROVE  CountsBacked /\ LogBacked /\ \A s \in S : Commits(s)
<1> DEFINE lg1 == [s \in Slot |-> IF s \in S
                     THEN [ballot |-> b, command |-> props[s].command, committed |-> TRUE]
                     ELSE lg[s]]
<1>1. log' = [log EXCEPT ![i] = lg1]
  BY DEF CommitSlots
<1>2. \A s \in Slot : lg1[s].committed => log[i][s].committed \/ s \in S
  OBVIOUS
<1>3. \A s \in S : lg1[s].committed
  OBVIOUS
<1> HIDE DEF lg1
<1>4. log'[i] = lg1 /\ \A k \in Node \ {i} : log'[k] = log[k]
  BY <1>1 DEF TypeOK
<1>5. \A s \in S : Commits(s)
  <2>1. \A s \in S : log'[i][s].committed
    BY <1>3, <1>4
  <2>2. \A s \in S : props[s].accepts \in SUBSET Backs(i, s)
    OBVIOUS
  <2> QED
    BY <2>1, <2>2 DEF Commits
<1>6. LogBacked
  <2>1. ASSUME NEW k \in Node, NEW s \in Slot, log'[k][s].committed
        PROVE  log[k][s].committed \/ s \in S
    BY <1>2, <1>4, <2>1
  <2>2. \A k \in Node, s \in Slot : log[k][s].committed => Sure(s)
    BY DEF Sure
  <2> QED
    BY <1>5, <2>1, <2>2 DEF LogBacked
<1>7. CountsBacked
  <2>1. /\ \A k \in Node \ {i} : proposals'[k] = proposals[k]
        /\ \A s \in S : proposals'[i][s] = NoProposal
        /\ \A s \in Slot \ S : proposals'[i][s] = props[s]
    BY CommitSlotsEffect
  <2>2. \A s \in Slot : proposals'[i][s].accepts \subseteq Backs(i, s)
    BY <2>1 DEF NoProposal
  <2>3. \A k \in Node \ {i}, s \in Slot : proposals'[k][s].accepts \subseteq Backs(k, s)
    BY <2>1 DEF Backs
  <2> QED
    BY <2>2, <2>3 DEF CountsBacked
<1> QED
  BY <1>5, <1>6, <1>7

\* A broadcast adds its messages.
LEMMA BroadcastAdds ==
  ASSUME NEW n \in [Channel -> Seq(Message)], NEW i \in Node, NEW q \in Seq(Message)
  PROVE  \A c \in Channel : \A x \in Range(Emit(n, i, Broadcast(q))[c]) :
           x \in Range(n[c]) \/ x \in Range(q)
<1>1. /\ Broadcast(q) \in [Node -> Seq(Message)]
      /\ \A j \in Node : Range(Broadcast(q)[j]) = Range(q)
  BY BroadcastType
<1> DEFINE out == Broadcast(q)
<1>2. out \in [Node -> Seq(Message)] /\ \A j \in Node : Range(out[j]) = Range(q)
  BY <1>1
<1>3. \A c \in Channel : c[2] \in Node
  BY DEF Channel
<1> HIDE DEF out
<1>4. \A c \in Channel : \A x \in Range(Emit(n, i, out)[c]) :
        x \in Range(n[c]) \/ (c[1] = i /\ x \in Range(out[c[2]]))
  BY <1>2, EmitType
<1>5. \A c \in Channel : \A x \in Range(Emit(n, i, out)[c]) :
        x \in Range(n[c]) \/ x \in Range(q)
  BY <1>2, <1>3, <1>4
<1> QED
  BY <1>5 DEF out

\* The commits of a broadcast are of slots that the leader just committed.
LEMMA CommitsBacked ==
  ASSUME TypeOK, NEW n, Remaining(n), NEW i \in Node, NEW q \in Seq(Message),
         net' = Emit(n, i, Broadcast(q)),
         \A x \in Range(q) : \/ x.type = "Accept"
                             \/ x.type = "Commit" /\ Commits(x.slot)
  PROVE  NetBacked
<1>1. \A c \in Channel : \A x \in Range(net'[c]) : x \in Range(n[c]) \/ x \in Range(q)
  BY BroadcastAdds DEF Remaining
<1>2. ASSUME NEW x \in Range(q)
      PROVE  /\ \A s \in Slot : Tells(x, s) => Commits(s)
             /\ x.type # "Accepted"
  BY DEF Tells
<1> QED
  BY <1>1, <1>2 DEF NetBacked, Remaining

\* propose_slot by leader i: its own accept is its own entry.
LEMMA ProposeSlotsBacked ==
  ASSUME TypeOK, NEW i \in Node, is_leader'[i], NEW b \in Ballot,
         NEW D \in SUBSET Slot, NEW cmds \in [D -> Value],
         NEW n, Remaining(n), ProposeSlots(i, b, cmds, n)
  PROVE  Backed
<1> DEFINE props == [s \in Slot |-> IF s \in D
                       THEN [command |-> cmds[s], accepts |-> proposals[i][s].accepts \cup {i}]
                       ELSE proposals[i][s]]
           lg    == [s \in Slot |-> IF s \in D
                       THEN [ballot |-> b, command |-> cmds[s], committed |-> log[i][s].committed]
                       ELSE log[i][s]]
           done  == Committable(props, D)
           ask   == [s \in D |-> [type |-> "Accept", ballot |-> b, slot |-> s,
                                  command |-> cmds[s]]]
           asks  == {[type |-> "Accept", ballot |-> b, slot |-> s, command |-> cmds[s]] : s \in D}
<1>1. /\ CommitSlots(i, b, props, lg, done)
      /\ \E accepts \in SetToSeqs(asks), commits \in SetToSeqs(CommitMessages(b, props, done)) :
           net' = Emit(n, i, Broadcast(accepts \o commits))
  BY DEF ProposeSlots
<1>2. /\ log[i] \in [Slot -> AcceptedValue] /\ proposals[i] \in [Slot -> SlotProposal]
      /\ LogOK(log[i])
  BY DEF TypeOK, LogOK
<1>3. props \in [Slot -> SlotProposal]
  BY <1>2 DEF SlotProposal
<1>4. LogOK(lg) /\ \A s \in Slot : lg[s].committed => log[i][s].committed
  <2>1. lg \in [Slot -> AcceptedValue]
    BY <1>2 DEF AcceptedValue
  <2>2. \A s \in Slot : lg[s].ballot = -1 => lg[s] = NoEntry
    BY <1>2, BallotOwner DEF LogOK
  <2> QED
    BY <2>1, <2>2 DEF LogOK
<1>5. \A s \in Slot : props[s].accepts \subseteq Backs(i, s)
  <2>1. n \in [Channel -> Seq(Message)]
    BY DEF Remaining
  <2>2. \A s \in Slot : /\ s \in D => props[s].accepts = proposals[i][s].accepts \cup {i}
                        /\ s \notin D => props[s].accepts = proposals[i][s].accepts
    OBVIOUS
  <2> HIDE DEF props, lg, done, asks, ask
  <2>3. /\ log' \in [Node -> [Slot -> AcceptedValue]]
        /\ LogOK(log'[i])
        /\ \A j \in Node \ {i} : log'[j] = log[j]
        /\ \A s \in D : log'[i][s].ballot = b /\ log'[i][s].command = cmds[s]
        /\ \A s \in Slot \ D : log'[i][s] = log[i][s]
        /\ proposals' \in [Node -> [Slot -> SlotProposal]]
        /\ \A j \in Node \ {i} : proposals'[j] = proposals[j]
        /\ \A s \in D : proposals'[i][s] = NoProposal \/ proposals'[i][s].command = cmds[s]
        /\ \A s \in Slot \ D : proposals'[i][s] = proposals[i][s]
        /\ AppliedOK(applied')
        /\ Announced(net', n, b, cmds)
    BY <2>1, ProposeSlotsEffect
  <2>4. \A s \in D : i \in Holders(s)'
    BY <2>3, BallotOwner DEF Holders
  <2> SUFFICES ASSUME NEW s \in Slot PROVE props[s].accepts \subseteq Backs(i, s)
    OBVIOUS
  <2>5. proposals[i][s].accepts \subseteq Backs(i, s) /\ Holders(s)' \subseteq Backs(i, s)
    BY DEF Backs
  <2> QED
    BY <2>2, <2>4, <2>5
<1>6. done \in SUBSET Slot /\ \A s \in done : Cardinality(props[s].accepts) >= Quorum
  BY DEF Committable
<1>7. asks \in SUBSET Message /\ IsFiniteSet(asks) /\ \A x \in asks : x.type = "Accept"
  <2>1. ask \in [D -> Message]
    BY DEF Message
  <2>2. asks = {ask[s] : s \in D}
    OBVIOUS
  <2>3. IsFiniteSet({ask[s] : s \in D})
    <3> HIDE DEF ask
    <3>1. IsFiniteSet(D)
      BY SlotsFinite
    <3> QED
      BY <2>1, <3>1, ImageFinite
  <2>4. \A s \in D : ask[s] \in Message
    BY <2>1
  <2> QED
    BY <2>2, <2>3, <2>4
<1> HIDE DEF props, lg, asks, done
<1>8. CountsBacked /\ LogBacked /\ \A s \in done : Commits(s)
  BY <1>1, <1>3, <1>4, <1>5, <1>6, CommitSlotsBacked
<1>9. /\ CommitMessages(b, props, done) \in SUBSET Message
      /\ IsFiniteSet(CommitMessages(b, props, done))
      /\ \A m \in CommitMessages(b, props, done) : m.type = "Commit" /\ m.slot \in done
  BY <1>3, <1>6, CommitMessagesType
<1>10. PICK accepts \in SetToSeqs(asks), commits \in SetToSeqs(CommitMessages(b, props, done)) :
         net' = Emit(n, i, Broadcast(accepts \o commits))
  BY <1>1
<1>11. /\ accepts \in Seq(Message) /\ Range(accepts) \subseteq asks
       /\ commits \in Seq(Message) /\ Range(commits) \subseteq CommitMessages(b, props, done)
  BY <1>7, <1>9, OrderType
<1>12. /\ accepts \o commits \in Seq(Message)
       /\ Range(accepts \o commits) = Range(accepts) \cup Range(commits)
  BY <1>11, RangeConcatenation
<1>13. \A x \in Range(accepts \o commits) :
         x.type = "Accept" \/ (x.type = "Commit" /\ Commits(x.slot))
  BY <1>7, <1>8, <1>9, <1>11, <1>12
<1>14. NetBacked
  <2> DEFINE q == accepts \o commits
  <2>1. q \in Seq(Message) /\ net' = Emit(n, i, Broadcast(q))
    BY <1>10, <1>12
  <2>2. \A x \in Range(q) : x.type = "Accept" \/ (x.type = "Commit" /\ Commits(x.slot))
    BY <1>13
  <2> HIDE DEF q
  <2> QED
    BY <2>1, <2>2, CommitsBacked
<1> QED
  BY <1>8, <1>14 DEF Backed

\* submit_client_command on a leader.
LEMMA SubmitBacked ==
  ASSUME TypeOK, NEW i \in Node, NEW cmd \in Value, NEW n, Remaining(n),
         SubmitCommand(i, cmd, n)
  PROVE  Backed
<1>1. CASE is_leader[i]
  <2>1. PICK s \in Slot : /\ ProposeSlots(i, active_ballot[i], [t \in {s} |-> cmd], n)
                          /\ UNCHANGED voteVars
    BY <1>1 DEF SubmitCommand
  <2> DEFINE cmds == [t \in {s} |-> cmd]
  <2>2. /\ active_ballot[i] \in Ballot /\ {s} \in SUBSET Slot /\ cmds \in [{s} -> Value]
        /\ is_leader'[i]
    BY <1>1, <2>1 DEF TypeOK, voteVars
  <2>3. ProposeSlots(i, active_ballot[i], cmds, n)
    BY <2>1
  <2> HIDE DEF cmds
  <2> QED
    BY <2>2, <2>3, ProposeSlotsBacked
<1>2. CASE ~is_leader[i]
  BY <1>2, ForwardBacked
<1> QED
  BY <1>1, <1>2

\* on_promise, with become_leader.
LEMMA OnPromiseBacked ==
  ASSUME TypeOK, NEW i \in Node, NEW j \in Node, NEW m \in Message, m.type = "Promise",
         NEW n, Remaining(n), OnPromise(i, j, m, n)
  PROVE  Backed
<1> DEFINE prep == [prepare[i] EXCEPT !.from = @ \cup {j}, !.entries[j] = m.entries]
           won  == /\ ~prepare[i].completed /\ prepare[i].ballot = m.ballot
                   /\ m.ok /\ Cardinality(prep.from) >= Quorum
<1>1. CASE ~won
  <2>1. net' = n /\ UNCHANGED <<log, proposals>>
    BY <1>1 DEF OnPromise, logVars
  <2> QED
    BY <2>1, NetTaken, Unbacked
<1>2. CASE won
  <2>1. BecomeLeader(i, m.ballot, prep, n) /\ m.ballot \in Ballot
    BY <1>2, MessageFields DEF OnPromise
  <2>2. m.entries \in SUBSET RecoveredEntry
    BY MessageFields
  <2>3. is_leader'[i]
    BY <2>1 DEF BecomeLeader, TypeOK
  <2> HIDE DEF prep
  <2>4. \E D \in SUBSET Slot : \E cmds \in [D -> Value] : ProposeSlots(i, m.ballot, cmds, n)
    BY <2>1, <2>2, BecomeLeaderProposes DEF prep
  <2> QED
    BY <2>1, <2>3, <2>4, ProposeSlotsBacked
<1> QED
  BY <1>1, <1>2

\* on_accepted: the accept that is counted was on its way.
LEMMA OnAcceptedBacked ==
  ASSUME TypeOK, NEW i \in Node, NEW j \in Node, NEW m \in Range(net[<<j, i>>]),
         m \in Message, m.type = "Accepted",
         NEW n, Remaining(n), OnAccepted(i, j, m, n)
  PROVE  Backed
<1> DEFINE counted == /\ is_leader[i]
                      /\ m.ballot = active_ballot[i]
                      /\ proposals[i][m.slot].accepts # {}
<1>1. CASE ~counted
  <2>1. net' = n /\ UNCHANGED <<log, proposals>>
    BY <1>1 DEF OnAccepted
  <2> QED
    BY <2>1, NetTaken, Unbacked
<1>2. CASE counted
  <2> DEFINE b     == active_ballot[i]
             props == [proposals[i] EXCEPT ![m.slot].accepts = @ \cup {j}]
             done  == Committable(props, {m.slot})
  <2>1. m.slot \in Slot /\ b \in Ballot
    BY <1>2, MessageFields
  <2>2. /\ CommitSlots(i, b, props, log[i], done)
        /\ \E commits \in SetToSeqs(CommitMessages(b, props, done)) :
             net' = Emit(n, i, Broadcast(commits))
        /\ StepDownIfStale(i, m.ballot)
    BY <1>2 DEF OnAccepted
  <2>3. is_leader'[i]
    BY <1>2, <2>2, BallotsAreInts DEF StepDownIfStale, TypeOK
  <2>4. proposals[i] \in [Slot -> SlotProposal]
    BY DEF TypeOK
  <2>5. props \in [Slot -> SlotProposal]
    BY <2>1, <2>4 DEF SlotProposal
  <2>6. \A s \in Slot : props[s].accepts =
          IF s = m.slot THEN proposals[i][s].accepts \cup {j} ELSE proposals[i][s].accepts
    BY <2>1, <2>4 DEF SlotProposal
  <2>7. \A s \in Slot : props[s].accepts \subseteq Backs(i, s)
    <3> HIDE DEF props
    <3> QED
      BY <2>6 DEF Backs
  <2>8. done \in SUBSET Slot /\ \A s \in done : Cardinality(props[s].accepts) >= Quorum
    BY <2>1 DEF Committable
  <2> HIDE DEF b, props, done
  <2>9. CountsBacked /\ LogBacked /\ \A s \in done : Commits(s)
    BY <2>1, <2>2, <2>3, <2>5, <2>7, <2>8, LogsAreOK, CommitSlotsBacked
  <2>10. /\ CommitMessages(b, props, done) \in SUBSET Message
         /\ IsFiniteSet(CommitMessages(b, props, done))
         /\ \A x \in CommitMessages(b, props, done) : x.type = "Commit" /\ x.slot \in done
    BY <2>1, <2>5, <2>8, CommitMessagesType
  <2>11. PICK commits \in SetToSeqs(CommitMessages(b, props, done)) :
           net' = Emit(n, i, Broadcast(commits))
    BY <2>2
  <2>12. commits \in Seq(Message) /\ Range(commits) \subseteq CommitMessages(b, props, done)
    BY <2>10, OrderType
  <2>13. \A x \in Range(commits) : x.type = "Commit" /\ Commits(x.slot)
    BY <2>9, <2>10, <2>12
  <2>14. NetBacked
    BY <2>11, <2>12, <2>13, CommitsBacked
  <2> QED
    BY <2>9, <2>14 DEF Backed
<1> QED
  BY <1>1, <1>2


(***************************************************************************)
(* Every step.                                                             *)
(***************************************************************************)

\* With one candidate an accept is never rejected: it is of the highest ballot.
LEMMA AcceptsAreCurrent ==
  ASSUME TypeOK, Elected, OneBallot, NEW i \in Node, NEW j \in Node,
         NEW m \in Range(net[<<j, i>>]), m \in Message, m.type = "Accept"
  PROVE  m.ballot >= promised_ballot[i]
<1>1. PICK c \in Node : Candidate = {c}
  BY TheCandidate
<1> DEFINE e == [slot |-> m.slot, ballot |-> m.ballot, command |-> m.command]
<1>2. e \in Entries
  <2>1. <<j, i>> \in Channel
    BY DEF Channel
  <2>2. MessageEntries(m) \subseteq Entries
    BY <2>1, EntriesKnown
  <2> QED
    BY <2>2, EntriesOfMessage
<1>3. is_leader[c] /\ m.ballot = active_ballot[c]
  <2>1. is_leader[c] /\ e.ballot = active_ballot[c]
    BY <1>1, <1>2 DEF OneBallot
  <2> QED
    BY <2>1
<1>4. m.ballot = promised_ballot[c]
  BY <1>1, <1>3, OnlyCandidateLeads
<1>5. promised_ballot[i] <= promised_ballot[c]
  BY <1>1 DEF OneBallot, Below
<1> QED
  BY <1>4, <1>5, BallotsAreInts

LEMMA NextBacked == ASSUME TypeOK, Elected, OneBallot, Next PROVE Backed
<1>1. ASSUME NEW i \in Node, StartElection(i) \/ SendHeartbeat(i) PROVE Backed
  BY <1>1, StartElectionBacked, SendHeartbeatBacked
<1>2. ASSUME NEW i \in Node, NEW cmd \in Command, ClientSubmit(i, cmd) PROVE Backed
  <2>1. Remaining(net) /\ cmd \in Value
    BY DEF Remaining, TypeOK, Value
  <2> QED
    BY <1>2, <2>1, SubmitBacked DEF ClientSubmit
<1>3. ASSUME NEW i \in Node, NEW j \in Node, NEW k \in Deliverable(<<j, i>>), Receive(j, i, k)
      PROVE  Backed
  <2> DEFINE m == net[<<j, i>>][k]
             n == Taken(<<j, i>>, k)
  <2>1. Remaining(n) /\ m \in Message /\ m \in Range(net[<<j, i>>])
    BY ReceivedMessage
  <2>2. \/ m.type = "Prepare"     /\ OnPrepare(i, j, m, n)
        \/ m.type = "Promise"     /\ OnPromise(i, j, m, n)
        \/ m.type = "Accept"      /\ OnAcceptRequest(i, j, m, n)
        \/ m.type = "Accepted"    /\ OnAccepted(i, j, m, n)
        \/ m.type = "Commit"      /\ OnCommit(i, j, m, n)
        \/ m.type = "Heartbeat"   /\ OnHeartbeat(i, j, m, n)
        \/ m.type = "SyncRequest" /\ OnSyncRequest(i, j, m, n)
        \/ m.type = "SyncData"    /\ OnSyncData(i, j, m, n)
        \/ m.type = "Forward"     /\ OnForwardRequest(i, j, m, n)
    BY <1>3 DEF Receive, OnMessage
  <2> HIDE DEF m, n
  <2>3. CASE m.type = "Accept" /\ OnAcceptRequest(i, j, m, n)
    BY <2>1, <2>3, AcceptsAreCurrent, OnAcceptRequestBacked
  <2>4. CASE m.type = "Forward" /\ OnForwardRequest(i, j, m, n)
    BY <2>1, <2>4, MessageFields, SubmitBacked DEF OnForwardRequest
  <2> QED
    BY <2>1, <2>2, <2>3, <2>4, OnPrepareBacked, OnPromiseBacked, OnAcceptedBacked,
       OnCommitBacked, OnHeartbeatBacked, OnSyncRequestBacked, OnSyncDataBacked
<1> QED
  BY <1>1, <1>2, <1>3 DEF Next

\* Who is counted has stored the slot, and so has who says so; what is committed
\* was stored by a quorum.
Stored ==
  /\ \A k \in Node, s \in Slot : proposals[k][s].accepts \subseteq Holders(s)
  /\ \A c \in Channel : \A x \in Range(net[c]) :
       x.type = "Accepted" => c[1] \in Holders(x.slot)
  /\ \A s \in Slot : Sure(s) => Cardinality(Holders(s)) >= Quorum

\* A set of nodes is no larger than one that contains it.
LEMMA MoreNodes ==
  ASSUME NEW A \in SUBSET Node, NEW B \in SUBSET A
  PROVE  Cardinality(A) \in Nat /\ Cardinality(B) \in Nat /\ Cardinality(B) <= Cardinality(A)
<1>1. IsFiniteSet(A)
  BY NodesFinite, FS_Subset
<1>2. IsFiniteSet(B) /\ Cardinality(B) <= Cardinality(A)
  BY <1>1, FS_Subset
<1> QED
  BY <1>1, <1>2, FS_CardinalityType

LEMMA QuorumIsNat == Quorum \in Nat
<1>1. Cardinality(Node) \in Nat
  BY NodesFinite, FS_CardinalityType
<1> QED
  BY <1>1 DEF Quorum

LEMMA StoredStep ==
  ASSUME TypeOK, TypeOK', Stored, Backed, Grows
  PROVE  Stored'
<1>1. ASSUME NEW s \in Slot PROVE Holders(s) \subseteq Holders(s)'
  BY DEF Holders, Grows, Keeps
<1>2. ASSUME NEW k \in Node, NEW s \in Slot PROVE Backs(k, s) \subseteq Holders(s)'
  <2>1. proposals[k][s].accepts \subseteq Holders(s)
    BY DEF Stored
  <2>2. ASSUME NEW j \in Node, NEW x \in Range(net[<<j, k>>]), x.type = "Accepted", x.slot = s
        PROVE  j \in Holders(s)
    <3> DEFINE c == <<j, k>>
    <3>1. c \in Channel /\ c[1] = j /\ x \in Range(net[c])
      BY DEF Channel
    <3> HIDE DEF c
    <3> QED
      BY <2>2, <3>1 DEF Stored
  <2> QED
    BY <1>1, <2>1, <2>2 DEF Backs
<1>3. \A k \in Node, s \in Slot : proposals'[k][s].accepts \subseteq Holders(s)'
  BY <1>2 DEF Backed, CountsBacked
<1>4. \A c \in Channel : \A x \in Range(net'[c]) :
        x.type = "Accepted" => c[1] \in Holders(x.slot)'
  <2> SUFFICES ASSUME NEW c \in Channel, NEW x \in Range(net'[c]), x.type = "Accepted"
               PROVE  c[1] \in Holders(x.slot)'
    OBVIOUS
  <2>1. CASE x \in Range(net[c])
    <3>1. c[1] \in Holders(x.slot)
      BY <2>1 DEF Stored
    <3>2. x.slot \in Slot
      <4>1. net[c] \in Seq(Message)
        BY DEF TypeOK
      <4>2. x \in Message
        BY <2>1, <4>1 DEF Range
      <4> QED
        BY <4>2, MessageFields
    <3> QED
      BY <1>1, <3>1, <3>2
  <2>2. CASE x \notin Range(net[c])
    BY <2>2 DEF Backed, NetBacked
  <2> QED
    BY <2>1, <2>2
<1>5. ASSUME NEW s \in Slot, Sure(s)' PROVE Cardinality(Holders(s))' >= Quorum
  <2>1. Holders(s)' \in SUBSET Node
    BY DEF Holders
  <2>2. Sure(s) \/ Commits(s)
    BY <1>5 DEF Sure, Backed, LogBacked, NetBacked
  <2>3. PICK A \in SUBSET Holders(s)' : Cardinality(A) >= Quorum
    <3>1. CASE Sure(s)
      BY <1>1, <3>1 DEF Stored
    <3>2. CASE Commits(s)
      BY <1>2, <3>2 DEF Commits
    <3> QED
      BY <2>2, <3>1, <3>2
  <2>4. Cardinality(A) \in Nat /\ Cardinality(Holders(s)') \in Nat
        /\ Cardinality(A) <= Cardinality(Holders(s)')
    BY <2>1, MoreNodes
  <2>5. Cardinality(Holders(s)') >= Quorum
    BY <2>3, <2>4, QuorumIsNat
  <2> QED
    BY <2>5
<1>6. \A s \in Slot : Sure(s)' => Cardinality(Holders(s)') >= Quorum
  BY <1>5
<1> QED
  BY <1>3, <1>4, <1>6 DEF Stored

LEMMA InitStored == Init => Stored
<1> SUFFICES ASSUME Init PROVE Stored
  OBVIOUS
<1>1. \A c \in Channel : Range(net[c]) = {}
  BY DEF Init, Range
<1>2. \A k \in Node, s \in Slot : ~log[k][s].committed /\ proposals[k][s].accepts = {}
  BY DEF Init, NoEntry, NoProposal
<1> QED
  BY <1>1, <1>2 DEF Stored, Sure

LEMMA NextStored ==
  TypeOK /\ Elected /\ StableInv /\ Stored /\ [Next]_vars => Stored'
<1> SUFFICES ASSUME TypeOK, Elected, StableInv, Stored, [Next]_vars PROVE Stored'
  OBVIOUS
<1>1. CASE Next
  <2>1. TypeOK' /\ Grows /\ Backed
    BY <1>1, NextType, NextGrows, NextBacked DEF StableInv
  <2> QED
    BY <2>1, StoredStep
<1>2. CASE UNCHANGED vars
  BY <1>2 DEF vars, logVars, leadVars, Stored, Sure, Holders
<1> QED
  BY <1>1, <1>2

\* With one candidate, what is committed anywhere, or announced to be, was stored
\* by a quorum at that ballot.  One candidate means one ballot, so no accept is
\* ever rejected (paxos.cpp:269) and no proposal is left over from an earlier one:
\* with two candidates the statement is false (run Miscounted).
THEOREM CommitsAreBacked == Spec => []CommitBackedByQuorum
<1>1. Spec => []StableInv
  BY InitStable, NextStable, ElectionElected, TypeCorrect, ElectionsAreSound, ValuesAreSound, PTL
     DEF Spec
<1>2. Spec => []Stored
  BY <1>1, InitStored, NextStored, ElectionElected, TypeCorrect, ElectionsAreSound, PTL DEF Spec
<1>3. TypeOK /\ StableInv /\ Stored => CommitBackedByQuorum
  <2> SUFFICES ASSUME TypeOK, StableInv, Stored, NEW e \in Committed
               PROVE  Cardinality({j \in Node : \/ log[j][e.slot].ballot >= e.ballot
                                                \/ log[j][e.slot].committed}) >= Quorum
    BY DEF CommitBackedByQuorum
  <2>1. PICK c \in Node : Candidate = {c}
    BY TheCandidate
  <2>2. e \in Entries /\ e.slot \in Slot /\ Sure(e.slot)
    <3>1. CASE e \in UNION {MessageEntries(m) : m \in {n \in InTransit : n.type = "Commit"}}
      <4>1. PICK m \in InTransit : m.type = "Commit" /\ e \in MessageEntries(m)
        BY <3>1
      <4>2. PICK d \in Channel : m \in Range(net[d])
        BY DEF InTransit
      <4>3. net[d] \in Seq(Message)
        BY DEF TypeOK
      <4>4. m \in Message
        BY <4>2, <4>3 DEF Range
      <4>5. e \in Entries
        BY <4>1, <4>2, EntriesKnown
      <4>6. e.slot = m.slot /\ m.slot \in Slot
        BY <4>1, <4>4, EntriesOfMessage, MessageFields
      <4>7. Tells(m, e.slot)
        BY <4>1, <4>6 DEF Tells
      <4> QED
        BY <4>2, <4>5, <4>6, <4>7 DEF Sure
    <3>2. CASE e \in UNION {{f \in LogEntries(i) : log[i][f.slot].committed} : i \in Node}
      <4>1. PICK i \in Node : e \in LogEntries(i) /\ log[i][e.slot].committed
        BY <3>2
      <4>2. e \in Entries /\ e.slot \in Slot
        BY <4>1 DEF Entries, LogEntries
      <4> QED
        BY <4>1, <4>2 DEF Sure
    <3> QED
      BY <3>1, <3>2 DEF Committed
  <2> DEFINE s == e.slot
             B == {j \in Node : log[j][s].ballot >= e.ballot \/ log[j][s].committed}
  <2>3. Holders(s) \subseteq B
    <3> SUFFICES ASSUME NEW j \in Node, log[j][s].ballot # -1
                 PROVE  log[j][s].ballot >= e.ballot
      BY DEF Holders
    <3> DEFINE f == [slot |-> s, ballot |-> log[j][s].ballot, command |-> log[j][s].command]
    <3>1. f \in Entries
      BY <2>2, EntriesKnown
    <3>2. f.ballot = active_ballot[c] /\ e.ballot = active_ballot[c]
      BY <2>1, <2>2, <3>1 DEF StableInv, OneBallot
    <3> QED
      BY <3>2, BallotsAreInts
  <2>4. Cardinality(Holders(s)) >= Quorum
    BY <2>2 DEF Stored
  <2>5. B \in SUBSET Node
    OBVIOUS
  <2> HIDE DEF B
  <2>6. Cardinality(B) >= Quorum
    BY <2>3, <2>4, <2>5, MoreNodes, QuorumIsNat
  <2> QED
    BY <2>6 DEF B
<1> QED
  BY <1>1, <1>2, <1>3, TypeCorrect, PTL

(***************************************************************************)
(* Followers that restart with nothing (main constructs a new PaxosNode):  *)
(* the nodes still implement a replicated log, for every number of nodes   *)
(* and restarts, on every network.                                         *)
(*                                                                         *)
(* A restarted follower only takes away what it knew.  No quorum need hold *)
(* a commit any longer, but the candidate, which never restarts, holds     *)
(* every commit anybody knows of, and has applied as far as anybody; so    *)
(* its applied log is the one sequence.                                    *)
(***************************************************************************)

\* Every node has applied all it can.
AllApplied == \A i \in Node : FullyApplied(i)

\* The candidate has committed whatever slot is committed, or said to be.
CandidateKnows ==
  \A c \in Candidate, s \in Slot : Sure(s) => log[c][s].committed

RestartInv ==
  /\ TypeOK /\ Elected /\ ValueInv /\ StableInv
  /\ EachInOnePlace /\ AllApplied /\ CandidateKnows

(***************************************************************************)
(* A restart.                                                              *)
(***************************************************************************)

\* What a restart of i leaves: nothing of i, the others as they were, and no
\* message that was not there.
Forgets(i) ==
  /\ ~is_leader'[i] /\ active_ballot'[i] = -1 /\ promised_ballot'[i] = -1
  /\ prepare'[i] = NoPrepare /\ next_slot'[i] = 1 /\ applied'[i] = <<>>
  /\ \A s \in Slot : log'[i][s] = NoEntry /\ proposals'[i][s] = NoProposal
  /\ \A k \in Node \ {i} :
       /\ is_leader'[k] = is_leader[k] /\ active_ballot'[k] = active_ballot[k]
       /\ promised_ballot'[k] = promised_ballot[k] /\ prepare'[k] = prepare[k]
       /\ next_slot'[k] = next_slot[k] /\ applied'[k] = applied[k]
       /\ log'[k] = log[k] /\ proposals'[k] = proposals[k]
  /\ \A c \in Channel : net'[c] = net[c] \/ net'[c] = <<>>
  /\ UNCHANGED submits

LEMMA RestartForgets ==
  ASSUME TypeOK, NEW i \in Node, Restart(i)
  PROVE  TypeOK' /\ Forgets(i) /\ i \in Restarting
<1>1. /\ is_leader' = [is_leader EXCEPT ![i] = FALSE]
      /\ active_ballot' = [active_ballot EXCEPT ![i] = -1]
      /\ promised_ballot' = [promised_ballot EXCEPT ![i] = -1]
      /\ election_round' = [election_round EXCEPT ![i] = 0]
      /\ prepare' = [prepare EXCEPT ![i] = NoPrepare]
      /\ proposals' = [proposals EXCEPT ![i] = [s \in Slot |-> NoProposal]]
      /\ log' = [log EXCEPT ![i] = [s \in Slot |-> NoEntry]]
      /\ next_slot' = [next_slot EXCEPT ![i] = 1]
      /\ applied' = [applied EXCEPT ![i] = <<>>]
      /\ net' = [net EXCEPT ![<<i, i>>] = <<>>]
      /\ UNCHANGED submits /\ i \in Restarting
  BY DEF Restart, NewNode
<1>2. NoEntry \in AcceptedValue /\ NoProposal \in SlotProposal
  BY DEF NoEntry, AcceptedValue, NoProposal, SlotProposal, Value
<1>3. NoPrepare \in PrepareState
  BY DEF NoPrepare, PrepareState
<1>4. Forgets(i)
  <2>1. \A c \in Channel : net'[c] = net[c] \/ net'[c] = <<>>
    BY <1>1 DEF TypeOK
  <2> QED
    BY <1>1, <2>1 DEF TypeOK, Forgets
<1>5. TypeOK'
  <2>1. /\ is_leader' \in [Node -> BOOLEAN]
        /\ active_ballot' \in [Node -> Ballot \cup {-1}]
        /\ promised_ballot' \in [Node -> Ballot \cup {-1}]
        /\ \A k \in Node : is_leader'[k] => active_ballot'[k] # -1
    BY <1>1 DEF TypeOK
  <2>2. election_round' \in [Node -> 0..MaxRound] /\ next_slot' \in [Node -> 1..MaxSlot + 1]
    BY <1>1, BoundAssumption DEF TypeOK
  <2>3. /\ log' \in [Node -> [Slot -> AcceptedValue]]
        /\ \A k \in Node, s \in Slot : log'[k][s].ballot = -1 => log'[k][s] = NoEntry
    BY <1>1, <1>2, <1>4 DEF TypeOK, Forgets
  <2>4. proposals' \in [Node -> [Slot -> SlotProposal]] /\ prepare' \in [Node -> PrepareState]
    BY <1>1, <1>2, <1>3 DEF TypeOK
  <2>5. net' \in [Channel -> Seq(Message)]
    <3>1. net \in [Channel -> Seq(Message)]
      BY DEF TypeOK
    <3>2. <<>> \in Seq(Message) /\ net' = [net EXCEPT ![<<i, i>>] = <<>>]
      BY <1>1
    <3> QED
      BY <3>1, <3>2
  <2>6. applied' \in [Node -> Seq(Value)] /\ \A k \in Node : Len(applied'[k]) <= MaxSlot
    <3>1. applied \in [Node -> Seq(Value)] /\ \A k \in Node : Len(applied[k]) <= MaxSlot
      BY DEF TypeOK, CommitIndex
    <3>2. <<>> \in Seq(Value) /\ Len(<<>>) <= MaxSlot
      BY BoundAssumption
    <3>3. applied' = [applied EXCEPT ![i] = <<>>]
      BY <1>1
    <3>4. applied' \in [Node -> Seq(Value)]
      BY <3>1, <3>2, <3>3
    <3>5. \A k \in Node : applied'[k] = <<>> \/ applied'[k] = applied[k]
      BY <3>1, <3>3
    <3> QED
      BY <3>1, <3>2, <3>4, <3>5
  <2> QED
    BY <1>1, <2>1, <2>2, <2>3, <2>4, <2>5, <2>6 DEF TypeOK, CommitIndex
<1> QED
  BY <1>1, <1>4, <1>5

\* No message is new.
LEMMA ForgetsNet ==
  ASSUME NEW i \in Node, Forgets(i)
  PROVE  \A c \in Channel : \A x \in Range(net'[c]) : x \in Range(net[c])
<1>1. Range(<<>>) = {}
  BY DEF Range
<1> QED
  BY <1>1 DEF Forgets

\* No entry is new.
LEMMA ForgetsEntries ==
  ASSUME TypeOK, NEW i \in Node, Forgets(i)
  PROVE  Entries' \subseteq Entries
<1>1. \A k \in Node, s \in Slot : log'[k][s].ballot # -1 =>
        [slot |-> s, ballot |-> log'[k][s].ballot, command |-> log'[k][s].command] \in Entries
  <2> SUFFICES ASSUME NEW k \in Node, NEW s \in Slot, log'[k][s].ballot # -1
               PROVE  [slot |-> s, ballot |-> log'[k][s].ballot,
                       command |-> log'[k][s].command] \in Entries
    OBVIOUS
  <2>1. log'[k][s] = log[k][s]
    BY DEF Forgets, NoEntry
  <2> QED
    BY <2>1, EntriesKnown
<1>2. \A c \in Channel : \A x \in Range(net'[c]) : MessageEntries(x) \subseteq Entries
  BY ForgetsNet, EntriesKnown
<1>3. \A k, j \in Node : prepare'[k].entries[j] \subseteq Entries
  BY EntriesKnown DEF Forgets, NoPrepare
<1> QED
  BY <1>1, <1>2, <1>3, EntriesCovered

\* The candidate does not restart.
LEMMA CandidateStays ==
  ASSUME NEW i \in Restarting, NEW c \in Candidate
  PROVE  c # i
BY OneCandidateAssumption

LEMMA RestartStable ==
  ASSUME TypeOK, TypeOK', Elected, ValueInv, StableInv, NEW i \in Restarting, i \in Node,
         Forgets(i)
  PROVE  Elected' /\ ValueInv' /\ StableInv'
<1>1. PICK c \in Node : Candidate = {c}
  BY TheCandidate
<1>2. c # i
  BY <1>1, CandidateStays
<1>3. Entries' \subseteq Entries
  BY ForgetsEntries
<1>4. Elected'
  <2>1. NoPrepare.ballot = -1
    BY DEF NoPrepare
  <2> QED
    BY <2>1 DEF Forgets, Elected, LeaderWon
<1>5. \A e \in Entries : is_leader[c] /\ e.ballot = active_ballot[c] /\ Owner(e.ballot) = c
  <2>1. is_leader[c] => Owner(active_ballot[c]) = c
    BY DEF Elected, LeaderWon, TypeOK
  <2> QED
    BY <1>1, <2>1 DEF StableInv, OneBallot
<1>6. OneValuePerBallot'
  BY <1>3 DEF ValueInv, OneValuePerBallot
<1>7. EntryBallotKnown'
  <2> SUFFICES ASSUME NEW e \in Entries', NEW k \in Node, Owner(e.ballot) = k
               PROVE  /\ e.ballot <= promised_ballot'[k]
                      /\ prepare'[k].completed \/ e.ballot # prepare'[k].ballot
    BY DEF EntryBallotKnown
  <2>1. e \in Entries /\ k = c
    BY <1>3, <1>5
  <2> QED
    BY <1>2, <2>1 DEF ValueInv, EntryBallotKnown, Forgets
<1>8. LeaderKnowsItsSlots'
  <2>1. NoProposal.accepts = {}
    BY DEF NoProposal
  <2> SUFFICES ASSUME NEW k \in Node
               PROVE  /\ is_leader'[k] => \A e \in Entries' : e.ballot = active_ballot'[k] =>
                           /\ e.slot < next_slot'[k]
                           /\ proposals'[k][e.slot].accepts # {} =>
                                proposals'[k][e.slot].command = e.command
                      /\ \A s \in Slot : proposals'[k][s].accepts # {} => s < next_slot'[k]
    BY DEF LeaderKnowsItsSlots
  <2>2. CASE k = i
    BY <2>1, <2>2 DEF Forgets
  <2>3. CASE k # i
    <3>1. /\ is_leader'[k] = is_leader[k] /\ active_ballot'[k] = active_ballot[k]
          /\ next_slot'[k] = next_slot[k] /\ proposals'[k] = proposals[k]
      BY <2>3 DEF Forgets
    <3>2. /\ is_leader[k] => \A e \in Entries : e.ballot = active_ballot[k] =>
               /\ e.slot < next_slot[k]
               /\ proposals[k][e.slot].accepts # {} => proposals[k][e.slot].command = e.command
          /\ \A s \in Slot : proposals[k][s].accepts # {} => s < next_slot[k]
      BY DEF ValueInv, LeaderKnowsItsSlots
    <3> QED
      BY <1>3, <3>1, <3>2
  <2> QED
    BY <2>2, <2>3
<1>9. OneBallot'
  <2>1. \A k \in Node \ Candidate : prepare'[k].ballot = -1
    BY DEF StableInv, OneBallot, Forgets, NoPrepare
  <2>2. prepare'[c].ballot = promised_ballot'[c] /\ promised_ballot'[c] = promised_ballot[c]
    BY <1>1, <1>2 DEF StableInv, OneBallot, Forgets
  <2>3. Below(promised_ballot[c])'
    <3>1. Below(promised_ballot[c])
      BY <1>1 DEF StableInv, OneBallot
    <3>2. -1 <= promised_ballot[c]
      <4>1. promised_ballot[c] \in Ballot \cup {-1}
        BY DEF TypeOK
      <4>2. promised_ballot[c] \in Nat \/ promised_ballot[c] = -1
        BY <4>1, BallotOwner
      <4> QED
        BY <4>2
    <3>3. \A k \in Node : /\ promised_ballot'[k] <= promised_ballot[c]
                          /\ active_ballot'[k] <= promised_ballot[c]
      BY <3>1, <3>2 DEF Below, Forgets
    <3>4. NetBelow(net', promised_ballot[c])
      BY <3>1, ForgetsNet DEF Below, NetBelow
    <3> QED
      BY <2>2, <3>3, <3>4 DEF Below, NetBelow
  <2>4. \A e \in Entries' : is_leader'[c] /\ e.ballot = active_ballot'[c]
    BY <1>2, <1>3, <1>5 DEF Forgets
  <2> QED
    BY <1>1, <2>1, <2>2, <2>3, <2>4 DEF OneBallot
<1>10. AppliedMatchesLog'
  BY DEF StableInv, AppliedMatchesLog, CommitIndex, Forgets
<1> QED
  BY <1>4, <1>6, <1>7, <1>8, <1>9, <1>10 DEF ValueInv, StableInv

\* Less is said and less is on its way.
LEMMA RestartInOnePlace ==
  ASSUME TypeOK, EachInOnePlace, NEW i \in Node, Forgets(i)
  PROVE  EachInOnePlace'
<1> SUFFICES ASSUME NEW cmd \in Command
             PROVE  /\ IsFiniteSet(Forwarded(net', cmd))
                    /\ Cardinality(Said(cmd)') + Cardinality(Forwarded(net', cmd)) <= submits'[cmd]
  BY DEF EachInOnePlace
<1>1. Forwarded(net', cmd) \subseteq Forwarded(net, cmd)
  <2>1. DOMAIN <<>> = {}
    OBVIOUS
  <2> QED
    BY <2>1 DEF Forwarded, Forgets
<1>2. Said(cmd)' \subseteq Said(cmd)
  <2>1. Entries' \subseteq Entries
    BY ForgetsEntries
  <2>2. NoProposal.accepts = {} /\ DOMAIN <<>> = {}
    BY DEF NoProposal
  <2>3. \A k \in Node, s \in Slot : proposals'[k][s].accepts # {} => proposals'[k][s] = proposals[k][s]
    BY <2>2 DEF Forgets
  <2>4. \A k \in Node, s \in Slot : s \in DOMAIN applied'[k] => applied'[k] = applied[k]
    BY <2>2 DEF Forgets
  <2> QED
    BY <2>1, <2>3, <2>4 DEF Said
<1>3. /\ IsFiniteSet(Said(cmd)) /\ IsFiniteSet(Forwarded(net, cmd))
      /\ Cardinality(Said(cmd)) + Cardinality(Forwarded(net, cmd)) <= submits[cmd]
  BY SaidFinite DEF EachInOnePlace
<1>4. submits' = submits /\ submits[cmd] \in Int
  BY DEF Forgets, TypeOK
<1> DEFINE S == Said(cmd)
           S1 == Said(cmd)'
           F == Forwarded(net, cmd)
           F1 == Forwarded(net', cmd)
<1>5. /\ IsFiniteSet(S) /\ IsFiniteSet(F) /\ S1 \in SUBSET S /\ F1 \in SUBSET F
      /\ Cardinality(S) + Cardinality(F) <= submits[cmd]
  BY <1>1, <1>2, <1>3
<1> HIDE DEF S, S1, F, F1
<1>6. /\ IsFiniteSet(F1)
      /\ Cardinality(S1) + Cardinality(F1) <= Cardinality(S) + Cardinality(F)
  BY <1>5, FewerPlaces
<1>7. /\ Cardinality(S) \in Nat /\ Cardinality(S1) \in Nat
      /\ Cardinality(F) \in Nat /\ Cardinality(F1) \in Nat
  BY <1>5, FS_Subset, FS_CardinalityType
<1>8. Cardinality(S1) + Cardinality(F1) <= submits'[cmd]
  BY <1>4, <1>5, <1>6, <1>7
<1> QED
  BY <1>6, <1>8 DEF S1, F1

\* Nothing becomes sure, and the candidate keeps its log.
LEMMA RestartKnows ==
  ASSUME TypeOK, AllApplied, CandidateKnows, NEW i \in Restarting, i \in Node, Forgets(i)
  PROVE  AllApplied' /\ CandidateKnows'
<1>1. \A s \in Slot : ~NoEntry.committed
  BY DEF NoEntry
<1>2. AllApplied'
  <2> SUFFICES ASSUME NEW k \in Node PROVE FullyApplied(k)'
    BY DEF AllApplied
  <2>1. CASE k = i
    <3>1. CommitIndex(i)' = 0
      BY DEF CommitIndex, Forgets
    <3>2. 0 < MaxSlot => 1 \in Slot
      BY BoundAssumption DEF Slot
    <3> QED
      BY <1>1, <2>1, <3>1, <3>2 DEF FullyApplied, Forgets
  <2>2. CASE k # i
    BY <2>2 DEF AllApplied, FullyApplied, CommitIndex, Forgets
  <2> QED
    BY <2>1, <2>2
<1>3. CandidateKnows'
  <2> SUFFICES ASSUME NEW c \in Candidate, NEW s \in Slot, Sure(s)'
               PROVE  log'[c][s].committed
    BY DEF CandidateKnows
  <2>1. Sure(s)
    <3>1. \A k \in Node : log'[k][s].committed => log[k][s].committed
      BY <1>1 DEF Forgets
    <3>2. \A d \in Channel : \A x \in Range(net'[d]) : x \in Range(net[d])
      BY ForgetsNet
    <3>3. \A x : Tells(x, s)' <=> Tells(x, s)
      BY DEF Tells
    <3> QED
      BY <3>1, <3>2, <3>3 DEF Sure
  <2>2. c # i /\ c \in Node
    BY CandidateStays, CandidateAssumption
  <2> QED
    BY <2>1, <2>2 DEF CandidateKnows, Forgets
<1> QED
  BY <1>2, <1>3

(***************************************************************************)
(* The invariant.                                                          *)
(***************************************************************************)

LEMMA InitRestartInv == RestartInit => RestartInv
<1> SUFFICES ASSUME Init PROVE RestartInv
  BY DEF RestartInit
<1>1. TypeOK /\ Elected /\ ValueInv /\ StableInv /\ EachInOnePlace
  BY InitType, InitElection, ElectionElected, InitValue, InitStable, InitInOnePlace
<1>2. \A k \in Node, s \in Slot : ~log[k][s].committed
  BY DEF Init, NoEntry
<1>3. AllApplied
  <2>1. \A k \in Node : CommitIndex(k) = 0
    BY DEF Init, CommitIndex
  <2>2. 0 < MaxSlot => 1 \in Slot
    BY BoundAssumption DEF Slot
  <2> QED
    BY <1>2, <2>1, <2>2 DEF AllApplied, FullyApplied
<1>4. CandidateKnows
  <2>1. \A c \in Channel : Range(net[c]) = {}
    BY DEF Init, Range
  <2> QED
    BY <1>2, <2>1 DEF CandidateKnows, Sure
<1> QED
  BY <1>1, <1>3, <1>4 DEF RestartInv

\* Whatever becomes sure is committed by a leader, and that is the candidate.
LEMMA CandidateLearns ==
  ASSUME TypeOK, TypeOK', Elected', OneBallot', CandidateKnows, Backed, Grows
  PROVE  CandidateKnows'
<1> SUFFICES ASSUME NEW c \in Candidate, NEW s \in Slot, Sure(s)'
             PROVE  log'[c][s].committed
  BY DEF CandidateKnows
<1>1. c \in Node /\ Candidate = {c}
  BY TheCandidate
<1>2. Sure(s) \/ Commits(s)
  <2>1. CASE \E k \in Node : log'[k][s].committed
    BY <2>1 DEF Backed, LogBacked
  <2>2. CASE \E d \in Channel : \E x \in Range(net'[d]) : Tells(x, s)'
    <3>0. PICK d \in Channel : \E x \in Range(net'[d]) : Tells(x, s)
      BY <2>2 DEF Tells
    <3>1. PICK x \in Range(net'[d]) : Tells(x, s)
      BY <3>0
    <3>2. CASE x \in Range(net[d])
      BY <3>1, <3>2 DEF Sure
    <3>3. CASE x \notin Range(net[d])
      BY <3>1, <3>3 DEF Backed, NetBacked
    <3> QED
      BY <3>2, <3>3
  <2> QED
    BY <2>1, <2>2 DEF Sure
<1>3. CASE Sure(s)
  BY <1>1, <1>3 DEF CandidateKnows, Grows, Keeps
<1>4. CASE Commits(s)
  <2>1. PICK i \in Node : is_leader'[i] /\ log'[i][s].committed
    BY <1>4 DEF Commits
  <2>2. prepare'[i].ballot # -1
    BY <2>1 DEF TypeOK, Elected, LeaderWon
  <2>3. i = c
    BY <1>1, <2>2 DEF OneBallot
  <2> QED
    BY <2>1, <2>3
<1> QED
  BY <1>2, <1>3, <1>4

LEMMA NextRestartInv == RestartInv /\ [RestartNext]_restartVars => RestartInv'
<1> SUFFICES ASSUME RestartInv, [RestartNext]_restartVars PROVE RestartInv'
  OBVIOUS
<1>1. /\ TypeOK /\ Elected /\ ValueInv /\ StableInv
      /\ EachInOnePlace /\ AllApplied /\ CandidateKnows
  BY DEF RestartInv
<1>2. CASE UNCHANGED vars
  <2>1. log' = log /\ applied' = applied /\ net' = net
    BY <1>2 DEF vars, logVars
  <2>2. TypeOK' /\ Elected' /\ ValueInv' /\ StableInv' /\ EachInOnePlace'
    BY <1>1, <1>2, NextType, NextElected, NextValue, NextStable, NextInOnePlace
  <2>3. AllApplied'
    BY <1>1, <2>1 DEF AllApplied, FullyApplied, CommitIndex
  <2>4. CandidateKnows'
    BY <1>1, <2>1 DEF CandidateKnows, Sure, Tells
  <2> QED
    BY <2>2, <2>3, <2>4 DEF RestartInv
<1>3. CASE Next
  <2>1. TypeOK' /\ Elected' /\ ValueInv' /\ StableInv' /\ EachInOnePlace'
    BY <1>1, <1>3, NextType, NextElected, NextValue, NextStable, NextInOnePlace
  <2>2. Grows /\ Backed
    BY <1>1, <1>3, NextGrows, NextBacked DEF StableInv
  <2>3. AllApplied'
    BY <1>1, <2>2 DEF AllApplied, Grows
  <2>4. CandidateKnows'
    <3>1. OneBallot'
      BY <2>1 DEF StableInv
    <3>2. TypeOK' /\ Elected' /\ OneBallot' /\ CandidateKnows /\ Backed /\ Grows
      BY <1>1, <2>1, <2>2, <3>1
    <3> QED
      BY <1>1, <3>2, CandidateLearns
  <2> QED
    BY <2>1, <2>3, <2>4 DEF RestartInv
<1>4. CASE \E i \in Node : Restart(i)
  <2>1. PICK i \in Node : Restart(i)
    BY <1>4
  <2>2. TypeOK' /\ Forgets(i) /\ i \in Restarting
    BY <1>1, <2>1, RestartForgets
  <2>3. Elected' /\ ValueInv' /\ StableInv'
    BY <1>1, <2>2, RestartStable
  <2>4. EachInOnePlace' /\ AllApplied' /\ CandidateKnows'
    BY <1>1, <2>2, RestartInOnePlace, RestartKnows
  <2> QED
    BY <2>2, <2>3, <2>4 DEF RestartInv
<1> QED
  BY <1>2, <1>3, <1>4 DEF RestartNext, restartVars

LEMMA RestartInvariant == RestartSpec => []RestartInv
<1> QED
  BY InitRestartInv, NextRestartInv, PTL DEF RestartSpec

\* Followers that come back with nothing rewrite no history: what a node has
\* applied since it started is what its log says was committed.
THEOREM HistorySurvivesRestarts == RestartSpec => []AppliedMatchesLog
<1>1. RestartInv => AppliedMatchesLog
  BY DEF RestartInv, StableInv
<1> QED
  BY <1>1, RestartInvariant, PTL

\* With one candidate and followers that restart, any two nodes applied the same
\* commands, as far as both have got.
THEOREM NodesAgreeAfterRestarts == RestartSpec => []Agreement
<1>1. RestartInv => Agreement
  BY StableAgrees DEF RestartInv
<1> QED
  BY <1>1, RestartInvariant, PTL

(***************************************************************************)
(* The nodes implement the replicated log.                                 *)
(***************************************************************************)

\* The candidate has applied as much as anybody, so the sequence all nodes agree
\* on is what it applied.
Shows ==
  /\ Agreement /\ AppliedAtMostSubmitted
  /\ \A c \in Candidate :
       /\ \A j \in Node : CommitIndex(j) <= CommitIndex(c)
       /\ Longest = applied[c]

\* What another node applied is committed, so the candidate knows, and it has
\* applied all it can.
LEMMA CandidateAhead ==
  ASSUME RestartInv, NEW c \in Candidate, NEW j \in Node
  PROVE  CommitIndex(j) <= CommitIndex(c)
<1>1. c \in Node
  BY CandidateAssumption
<1>2. /\ CommitIndex(c) \in Nat /\ CommitIndex(j) \in Nat
      /\ CommitIndex(j) <= MaxSlot /\ MaxSlot \in Nat
  BY <1>1, BoundAssumption DEF RestartInv, TypeOK, CommitIndex
<1> SUFFICES ASSUME CommitIndex(c) < CommitIndex(j) PROVE FALSE
  BY <1>2
<1> DEFINE s == CommitIndex(c) + 1
<1>3. s \in 1..CommitIndex(j) /\ s \in Slot /\ CommitIndex(c) < MaxSlot
  BY <1>2 DEF Slot
<1>4. log[j][s].committed
  BY <1>3 DEF RestartInv, StableInv, AppliedMatchesLog
<1>5. log[c][s].committed
  BY <1>3, <1>4 DEF RestartInv, CandidateKnows, Sure
<1> QED
  BY <1>1, <1>3, <1>5 DEF RestartInv, AllApplied, FullyApplied

LEMMA InvShows == RestartInv => Shows
<1> SUFFICES ASSUME RestartInv PROVE Shows
  OBVIOUS
<1>1. TypeOK /\ Agreement /\ AppliedAtMostSubmitted
  BY StableAgrees, AppliedIsSaid DEF RestartInv
<1>2. ASSUME NEW c \in Candidate PROVE Longest = applied[c]
  <2> DEFINE w == CHOOSE i \in Node : \A j \in Node : CommitIndex(j) <= CommitIndex(i)
  <2>1. c \in Node
    BY CandidateAssumption
  <2>2. w \in Node /\ \A j \in Node : CommitIndex(j) <= CommitIndex(w)
    BY <2>1, CandidateAhead
  <2>3. Longest = applied[w]
    BY DEF Longest
  <2> HIDE DEF w
  <2>4. /\ applied[w] \in Seq(Value) /\ applied[c] \in Seq(Value)
        /\ CommitIndex(w) = Len(applied[w]) /\ CommitIndex(c) = Len(applied[c])
        /\ Len(applied[c]) <= MaxSlot /\ MaxSlot \in Nat
    BY <1>1, <2>1, <2>2, BoundAssumption DEF TypeOK, CommitIndex
  <2>5. CommitIndex(c) <= CommitIndex(w) /\ CommitIndex(w) <= CommitIndex(c)
    BY <2>1, <2>2, CandidateAhead
  <2>6. Len(applied[w]) = Len(applied[c])
    BY <2>4, <2>5
  <2>7. \A s \in 1..Len(applied[c]) : applied[w][s] = applied[c][s]
    <3> SUFFICES ASSUME NEW s \in 1..Len(applied[c]) PROVE applied[w][s] = applied[c][s]
      OBVIOUS
    <3>1. s \in Slot /\ s <= CommitIndex(c) /\ s <= CommitIndex(w)
      BY <2>4, <2>6 DEF Slot
    <3> QED
      BY <1>1, <2>1, <2>2, <3>1 DEF Agreement
  <2>8. applied[w] = applied[c]
    BY <2>4, <2>6, <2>7
  <2> QED
    BY <2>3, <2>8
<1> QED
  BY <1>1, <1>2, CandidateAhead DEF Shows

\* A leader alone is no quorum: a command that is submitted is not applied in the
\* same call.
LEMMA SubmitAppliesNothing ==
  ASSUME RestartInv, NEW i \in Node, NEW cmd \in Value, NEW n, SubmitCommand(i, cmd, n)
  PROVE  applied' = applied
<1>1. TypeOK /\ LeaderKnowsItsSlots /\ FullyApplied(i)
  BY DEF RestartInv, ValueInv, AllApplied
<1>2. CASE ~is_leader[i]
  BY <1>2 DEF SubmitCommand, logVars
<1>3. CASE is_leader[i]
  <2>1. PICK s \in Slot : /\ IsNextFree(i, s)
                          /\ ProposeSlots(i, active_ballot[i], [t \in {s} |-> cmd], n)
    BY <1>3 DEF SubmitCommand
  <2> DEFINE b     == active_ballot[i]
             props == [t \in Slot |-> IF t \in {s}
                         THEN [command |-> [u \in {s} |-> cmd][t],
                               accepts |-> proposals[i][t].accepts \cup {i}]
                         ELSE proposals[i][t]]
             lg    == [t \in Slot |-> IF t \in {s}
                         THEN [ballot |-> b, command |-> [u \in {s} |-> cmd][t],
                               committed |-> log[i][t].committed]
                         ELSE log[i][t]]
             done  == Committable(props, {s})
             lg1   == [t \in Slot |-> IF t \in done
                         THEN [ballot |-> b, command |-> props[t].command, committed |-> TRUE]
                         ELSE lg[t]]
  <2>2. ApplyCommits(i, lg1)
    BY <2>1 DEF ProposeSlots, CommitSlots
  <2>3. done = {}
    <3>1. s >= next_slot[i] /\ s \in Int /\ next_slot[i] \in Int
      BY <1>1, <2>1 DEF IsNextFree, TypeOK, Slot
    <3>2. ~(s < next_slot[i])
      BY <3>1
    <3>3. proposals[i][s].accepts = {}
      BY <1>1, <3>2 DEF LeaderKnowsItsSlots
    <3>4. props[s].accepts = {i}
      BY <3>3
    <3>5. Cardinality({i}) = 1
      BY FS_Singleton
    <3>6. Cardinality(Node) \in Nat /\ Cardinality(Node) > 1
      BY NodesFinite, FS_CardinalityType, OneCandidateAssumption
    <3>7. Quorum >= 2 /\ Quorum \in Nat
      BY <3>6 DEF Quorum
    <3> QED
      BY <3>4, <3>5, <3>7 DEF Committable
  <2>4. \A t \in Slot : lg1[t].committed = log[i][t].committed
    BY <2>3
  <2> HIDE DEF lg1
  <2> DEFINE old == Len(applied[i])
  <2>5. PICK last \in old..MaxSlot :
          /\ \A t \in old + 1 .. last : lg1[t].committed
          /\ applied' = [applied EXCEPT ![i] =
               [t \in 1..last |-> IF t <= old THEN @[t] ELSE lg1[t].command]]
    BY <2>2 DEF ApplyCommits, CommitIndex
  <2>6. old \in Nat /\ old <= MaxSlot /\ MaxSlot \in Nat
        /\ applied \in [Node -> Seq(Value)] /\ applied[i] \in Seq(Value)
    BY <1>1, BoundAssumption DEF TypeOK, CommitIndex
  <2>7. last = old
    <3> SUFFICES ASSUME old < last PROVE FALSE
      BY <2>6
    <3>1. old + 1 \in old + 1 .. last /\ old + 1 \in Slot /\ old < MaxSlot
      BY <2>6 DEF Slot
    <3>2. log[i][old + 1].committed
      BY <2>4, <2>5, <3>1
    <3> QED
      BY <1>1, <3>1, <3>2 DEF FullyApplied, CommitIndex
  <2>8. [t \in 1..old |-> IF t <= old THEN applied[i][t] ELSE lg1[t].command] = applied[i]
    BY <2>6
  <2>9. applied' = [applied EXCEPT ![i] = applied[i]]
    BY <2>5, <2>6, <2>7, <2>8
  <2> QED
    BY <2>6, <2>9
<1> QED
  BY <1>2, <1>3

\* A message makes nobody apply anything but the node that handles it.
LEMMA ReceiverApplies ==
  ASSUME TypeOK, NEW i \in Node, NEW j \in Node, NEW k \in Deliverable(<<j, i>>),
         Receive(j, i, k)
  PROVE  \A l \in Node \ {i} : applied'[l] = applied[l]
<1> DEFINE m == net[<<j, i>>][k]
           n == Taken(<<j, i>>, k)
           Goal == \A l \in Node \ {i} : applied'[l] = applied[l]
<1>1. applied \in [Node -> Seq(Value)]
  BY DEF TypeOK
<1>2. ASSUME NEW lg, ApplyCommits(i, lg) PROVE Goal
  BY <1>1, <1>2 DEF ApplyCommits
<1>3. ASSUME NEW b, NEW cmds, NEW n1, ProposeSlots(i, b, cmds, n1) PROVE Goal
  BY <1>2, <1>3 DEF ProposeSlots, CommitSlots
<1>4. ASSUME NEW es, LearnCommitted(i, es) PROVE Goal
  BY <1>2, <1>4 DEF LearnCommitted
<1>5. \/ OnPrepare(i, j, m, n) \/ OnPromise(i, j, m, n) \/ OnAcceptRequest(i, j, m, n)
      \/ OnAccepted(i, j, m, n) \/ OnCommit(i, j, m, n) \/ OnHeartbeat(i, j, m, n)
      \/ OnSyncRequest(i, j, m, n) \/ OnSyncData(i, j, m, n) \/ OnForwardRequest(i, j, m, n)
  BY DEF Receive, OnMessage
<1> HIDE DEF m, n
<1>6. CASE \/ OnPrepare(i, j, m, n) \/ OnAcceptRequest(i, j, m, n)
          \/ OnHeartbeat(i, j, m, n) \/ OnSyncRequest(i, j, m, n)
  BY <1>6 DEF OnPrepare, OnAcceptRequest, OnHeartbeat, OnSyncRequest, logVars
<1>7. CASE OnPromise(i, j, m, n)
  BY <1>3, <1>7 DEF OnPromise, BecomeLeader, logVars
<1>8. CASE OnAccepted(i, j, m, n)
  BY <1>2, <1>8 DEF OnAccepted, CommitSlots
<1>9. CASE OnCommit(i, j, m, n) \/ OnSyncData(i, j, m, n)
  BY <1>4, <1>9 DEF OnCommit, OnSyncData
<1>10. CASE OnForwardRequest(i, j, m, n)
  BY <1>3, <1>10 DEF OnForwardRequest, SubmitCommand, logVars
<1> QED
  BY <1>5, <1>6, <1>7, <1>8, <1>9, <1>10

\* Replicated's instances of the operators of the standard modules.
LEMMA SameOperators ==
  /\ \A S : Replicated!Cardinality(S) = Cardinality(S)
  /\ \A s, t : /\ Replicated!IsPrefix(s, t) <=> IsPrefix(s, t)
               /\ Replicated!IsStrictPrefix(s, t) <=> IsStrictPrefix(s, t)
<1>1. ASSUME NEW S PROVE Replicated!Cardinality(S) = Cardinality(S)
  BY DEF Replicated!Cardinality, Cardinality
<1>2. ASSUME NEW s, NEW t PROVE Replicated!IsPrefix(s, t) <=> IsPrefix(s, t)
  BY DEF Replicated!IsPrefix, IsPrefix
<1>3. ASSUME NEW s, NEW t PROVE Replicated!IsStrictPrefix(s, t) <=> IsStrictPrefix(s, t)
  BY <1>2 DEF Replicated!IsStrictPrefix, IsStrictPrefix
<1> QED
  BY <1>1, <1>2, <1>3

\* What the step of one node adds to its log is a step of the replicated log.
LEMMA AppliesShows ==
  ASSUME RestartInv, RestartInv', Shows, Shows', Grows, NEW i \in Node,
         \A l \in Node \ {i} : applied'[l] = applied[l], UNCHANGED submits
  PROVE  [Replicated!Next]_(Replicated!vars)
<1>1. PICK c \in Node : Candidate = {c}
  BY TheCandidate
<1>2. /\ applied \in [Node -> Seq(Value)] /\ applied' \in [Node -> Seq(Value)]
      /\ \A k \in Node : Len(applied'[k]) <= MaxSlot
      /\ MaxSlot \in Nat
  BY BoundAssumption DEF RestartInv, TypeOK, CommitIndex
<1>3. Longest = applied[c] /\ Longest' = applied'[c]
  BY <1>1 DEF Shows
<1>4. CASE applied' = applied
  BY <1>3, <1>4 DEF Replicated!vars
<1>5. CASE applied' # applied
  <2>1. \A k \in Node : /\ applied[k] \in Seq(Value) /\ applied'[k] \in Seq(Value)
                         /\ IsPrefix(applied[k], applied'[k])
    <3> SUFFICES ASSUME NEW k \in Node PROVE IsPrefix(applied[k], applied'[k])
      BY <1>2
    <3>1. applied[k] \in Seq(Value) /\ applied'[k] \in Seq(Value)
      BY <1>2
    <3>2. /\ Len(applied[k]) <= Len(applied'[k])
          /\ \A s \in 1..Len(applied[k]) : applied'[k][s] = applied[k][s]
      BY DEF Grows
    <3> QED
      BY <3>1, <3>2, PrefixElts
  <2>2. IsPrefix(Longest, Longest')
    BY <1>3, <2>1
  <2>3. IsStrictPrefix(applied[i], applied'[i])
    <3>1. applied[i] # applied'[i]
      BY <1>2, <1>5
    <3> QED
      BY <2>1, <3>1 DEF IsStrictPrefix
  <2>4. IsPrefix(applied'[i], Longest')
    <3>1. Len(applied'[i]) <= Len(applied'[c])
      BY <1>1 DEF Shows, CommitIndex
    <3>2. \A s \in 1..Len(applied'[i]) : applied'[c][s] = applied'[i][s]
      <4> SUFFICES ASSUME NEW s \in 1..Len(applied'[i]) PROVE applied'[c][s] = applied'[i][s]
        OBVIOUS
      <4>1. /\ Len(applied'[i]) \in Nat /\ Len(applied'[c]) \in Nat
            /\ Len(applied'[i]) <= MaxSlot
        BY <1>2
      <4>2. s \in Slot /\ s <= Len(applied'[i]) /\ s <= Len(applied'[c])
        BY <1>2, <3>1, <4>1 DEF Slot
      <4> QED
        BY <4>2 DEF Shows, Agreement, CommitIndex
    <3> QED
      BY <1>3, <2>1, <3>1, <3>2, PrefixElts
  <2>5. \A cmd \in Command : Replicated!Occurrences(Longest', cmd) <= submits[cmd]
    <3> SUFFICES ASSUME NEW cmd \in Command
                 PROVE  Cardinality({k \in DOMAIN applied'[c] : applied'[c][k] = cmd})
                          <= submits[cmd]
      BY <1>3, SameOperators DEF Replicated!Occurrences
    <3>1. DOMAIN applied'[c] = 1..Len(applied'[c])
      BY <1>2
    <3>2. Cardinality({k \in 1..Len(applied'[c]) : applied'[c][k] = cmd}) <= submits[cmd]
      BY DEF Shows, AppliedAtMostSubmitted, CommitIndex
    <3> QED
      BY <3>1, <3>2
  <2>6. Replicated!Apply(i)
    BY <2>2, <2>3, <2>4, <2>5, SameOperators DEF Replicated!Apply
  <2> QED
    BY <2>6 DEF Replicated!Next
<1> QED
  BY <1>4, <1>5

\* Every step is one of the replicated log or changes nothing it shows.
LEMMA StepShows ==
  ASSUME RestartInv, RestartInv', Shows, Shows', [RestartNext]_restartVars
  PROVE  [Replicated!Next]_(Replicated!vars)
<1>1. PICK c \in Node : Candidate = {c}
  BY TheCandidate
<1>2. Longest = applied[c] /\ Longest' = applied'[c]
  BY <1>1 DEF Shows
<1>3. UNCHANGED <<applied, submits>> => UNCHANGED Replicated!vars
  BY <1>2 DEF Replicated!vars
<1>4. CASE UNCHANGED vars
  BY <1>3, <1>4 DEF vars, logVars
<1>5. ASSUME NEW i \in Node, StartElection(i) \/ SendHeartbeat(i)
      PROVE  [Replicated!Next]_(Replicated!vars)
  BY <1>3, <1>5 DEF StartElection, SendHeartbeat, BroadcastHeartbeat, logVars
<1>6. ASSUME NEW i \in Node, NEW cmd \in Command, ClientSubmit(i, cmd)
      PROVE  [Replicated!Next]_(Replicated!vars)
  <2>1. applied' = applied
    BY <1>6, SubmitAppliesNothing DEF ClientSubmit, Value
  <2>2. Replicated!Submit(cmd)
    BY <1>2, <1>6, <2>1 DEF ClientSubmit, Replicated!Submit
  <2> QED
    BY <2>2 DEF Replicated!Next
<1>7. ASSUME NEW i \in Node, NEW j \in Node, NEW k \in Deliverable(<<j, i>>), Receive(j, i, k)
      PROVE  [Replicated!Next]_(Replicated!vars)
  <2>1. TypeOK /\ Next
    BY <1>7 DEF RestartInv, Next
  <2>2. Grows
    BY <2>1, NextGrows
  <2>3. \A l \in Node \ {i} : applied'[l] = applied[l]
    BY <1>7, <2>1, ReceiverApplies
  <2>4. UNCHANGED submits
    BY <1>7 DEF Receive, OnMessage
  <2> QED
    BY <2>2, <2>3, <2>4, AppliesShows
<1>8. ASSUME NEW i \in Node, Restart(i) PROVE [Replicated!Next]_(Replicated!vars)
  <2>1. /\ applied' = [applied EXCEPT ![i] = <<>>]
        /\ UNCHANGED submits /\ i \in Restarting
    BY <1>8 DEF Restart, NewNode
  <2>2. c # i
    BY <1>1, <2>1, CandidateStays
  <2>3. applied'[c] = applied[c]
    BY <2>1, <2>2 DEF RestartInv, TypeOK
  <2>4. Replicated!Forget(i)
    BY <1>2, <2>1, <2>3 DEF Replicated!Forget
  <2> QED
    BY <2>1, <2>4 DEF Replicated!Next
<1> QED
  BY <1>4, <1>5, <1>6, <1>7, <1>8 DEF RestartNext, restartVars, Next

\* With one candidate and followers that restart, the nodes implement the
\* replicated log: what they applied are prefixes of one growing sequence that
\* holds no command more often than it was submitted, and only a restart takes
\* anything away from anybody.
THEOREM ReplicatesOneLog == RestartSpec => ImplementsReplicatedLog
<1>1. RestartSpec => [](RestartInv /\ Shows)
  BY RestartInvariant, InvShows, PTL
<1>2. RestartInit /\ Shows => Replicated!Init
  <2> SUFFICES ASSUME RestartInit, Shows PROVE Replicated!Init
    OBVIOUS
  <2>1. PICK c \in Node : Candidate = {c}
    BY TheCandidate
  <2>2. Longest = applied[c]
    BY <2>1 DEF Shows
  <2> QED
    BY <2>2 DEF RestartInit, Init, Replicated!Init
<1>3. RestartInv /\ Shows /\ RestartInv' /\ Shows' /\ [RestartNext]_restartVars
        => [Replicated!Next]_(Replicated!vars)
  BY StepShows
<1> QED
  BY <1>1, <1>2, <1>3, PTL DEF RestartSpec, ImplementsReplicatedLog, Replicated!Spec

=============================================================================
