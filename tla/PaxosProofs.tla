---------------------------- MODULE PaxosProofs ----------------------------
(***************************************************************************)
(* Theorems about Paxos, for every cluster, every network and every bound. *)
(***************************************************************************)
EXTENDS Paxos, FiniteSetTheorems, SequenceTheorems, TLAPS

(***************************************************************************)
(* Ballots.                                                                *)
(***************************************************************************)

\* A ballot is a positive number that carries the id of its owner.
LEMMA BallotOwner ==
  ASSUME NEW b \in Ballot
  PROVE  b \in Nat /\ b # -1 /\ Owner(b) \in Node
<1>1. PICK r \in 1..MaxRound, i \in Node : b = r * 100 + i
  BY DEF Ballot
<1>2. i \in 1..99 /\ r \in Nat
  BY NodeAssumption, BoundAssumption
<1>3. (r * 100 + i) % 100 = i
  BY <1>2
<1> QED
  BY <1>1, <1>2, <1>3 DEF Owner

\* Both branches of maybe_start_election build a ballot of the node's own,
\* above everything it has promised.
LEMMA ElectionBallotIsNew ==
  ASSUME NEW i \in Node, NEW r \in Nat \ {0},
         promised_ballot[i] \in Ballot \cup {-1},
         ElectionBallot(i, r) < (MaxRound + 1) * 100
  PROVE  /\ ElectionBallot(i, r) \in Ballot
         /\ Owner(ElectionBallot(i, r)) = i
         /\ ElectionBallot(i, r) > promised_ballot[i]
         /\ r <= MaxRound
<1> DEFINE p == promised_ballot[i]
           b == ElectionBallot(i, r)
<1>1. i \in 1..99 /\ MaxRound \in Nat
  BY NodeAssumption, BoundAssumption
<1>2. p \in Int /\ p < (MaxRound + 1) * 100
  <2>1. CASE p = -1
    BY <1>1, <2>1
  <2>2. CASE p \in Ballot
    <3>1. PICK q \in 1..MaxRound, k \in Node : p = q * 100 + k
      BY <2>2 DEF Ballot
    <3>2. k \in 1..99
      BY NodeAssumption
    <3> QED
      BY <1>1, <3>1, <3>2
  <2> QED
    BY <2>1, <2>2
<1>3. \E s \in 1..MaxRound : b = s * 100 + i /\ b > p /\ r <= MaxRound
  <2>1. CASE r * 100 + i > p
    <3>1. b = r * 100 + i
      BY <1>1, <1>2, <2>1 DEF ElectionBallot
    <3>2. r \in 1..MaxRound
      BY <1>1, <3>1
    <3> QED
      BY <2>1, <3>1, <3>2
  <2>2. CASE r * 100 + i <= p
    <3> DEFINE s == p \div 100 + 1
    <3>1. b = s * 100 + i
      BY <2>2 DEF ElectionBallot
    <3>2. s \in Int /\ p < s * 100 /\ s > 1
      BY <1>1, <1>2, <2>2
    <3>3. s \in 1..MaxRound /\ r <= MaxRound
      BY <1>1, <1>2, <2>2, <3>1, <3>2
    <3> QED
      BY <1>1, <1>2, <3>1, <3>2, <3>3
  <2> QED
    BY <1>1, <1>2, <2>1, <2>2
<1>4. PICK s \in 1..MaxRound : b = s * 100 + i /\ b > p /\ r <= MaxRound
  BY <1>3
<1>5. b \in Ballot
  BY <1>4 DEF Ballot
<1>6. (s * 100 + i) % 100 = i
  BY <1>1
<1> QED
  BY <1>4, <1>5, <1>6 DEF Owner

(***************************************************************************)
(* The network.                                                            *)
(***************************************************************************)

\* Sending appends well-formed messages, and only those.
LEMMA EmitType ==
  ASSUME NEW n \in [Channel -> Seq(Message)], NEW i \in Node,
         NEW out \in [Node -> Seq(Message)]
  PROVE  /\ Emit(n, i, out) \in [Channel -> Seq(Message)]
         /\ \A c \in Channel : \A m \in Range(Emit(n, i, out)[c]) :
              m \in Range(n[c]) \/ (c[1] = i /\ m \in Range(out[c[2]]))
<1>1. \A c \in Channel : c[2] \in Node
  BY DEF Channel
<1>2. \A c \in Channel : n[c] \in Seq(Message) /\ out[c[2]] \in Seq(Message)
  BY <1>1
<1>3. \A c \in Channel : n[c] \o out[c[2]] \in Seq(Message)
  BY <1>2
<1>4. \A c \in Channel : Range(n[c] \o out[c[2]]) = Range(n[c]) \cup Range(out[c[2]])
  BY <1>2, RangeConcatenation
<1> QED
  BY <1>2, <1>3, <1>4 DEF Emit

\* Taking a message leaves messages that were there.
LEMMA TakenType ==
  ASSUME net \in [Channel -> Seq(Message)],
         NEW c \in Channel, NEW k \in DOMAIN net[c]
  PROVE  /\ Taken(c, k) \in [Channel -> Seq(Message)]
         /\ \A d \in Channel : \A m \in Range(Taken(c, k)[d]) : m \in Range(net[d])
         /\ net[c][k] \in Message
         /\ net[c][k] \in Range(net[c])
<1> DEFINE s == net[c]
           before == SubSeq(s, 1, k - 1)
           after == SubSeq(s, k + 1, Len(s))
<1>1. s \in Seq(Message) /\ k \in 1..Len(s)
  OBVIOUS
<1>2. before \in Seq(Message) /\ after \in Seq(Message)
  BY <1>1
<1>3. \A x \in Range(before) : x \in Range(s)
  BY <1>1, <1>2 DEF Range
<1>4. \A x \in Range(after) : x \in Range(s)
  BY <1>1, <1>2 DEF Range
<1>5. /\ before \o after \in Seq(Message)
      /\ Range(before \o after) = Range(before) \cup Range(after)
  <2> HIDE DEF before, after
  <2>1. before \o after \in Seq(Message)
    BY <1>2
  <2> QED
    BY <1>2, <2>1, RangeConcatenation
<1>6. /\ Taken(c, k)[c] \in {before \o after, after}
      /\ \A d \in Channel \ {c} : Taken(c, k)[d] = net[d]
      /\ Taken(c, k) = [d \in Channel |-> Taken(c, k)[d]]
  BY DEF Taken
<1>7. s[k] \in Message /\ s[k] \in Range(s)
  BY <1>1 DEF Range
<1> HIDE DEF before, after
<1> QED
  BY <1>1, <1>2, <1>3, <1>4, <1>5, <1>6, <1>7

\* Unicast puts its one message into one channel and nothing into the others.
LEMMA UnicastType ==
  ASSUME NEW m \in Message, NEW to
  PROVE  /\ Unicast(to, m) \in [Node -> Seq(Message)]
         /\ \A j \in Node : Range(Unicast(to, m)[j]) \subseteq {m}
<1>1. <<m>> \in Seq(Message) /\ <<>> \in Seq(Message)
  OBVIOUS
<1>2. Range(<<m>>) = {m} /\ Range(<<>>) = {}
  BY DEF Range
<1> QED
  BY <1>1, <1>2 DEF Unicast

\* Broadcast puts the same messages into every channel.
LEMMA BroadcastType ==
  ASSUME NEW ms \in Seq(Message)
  PROVE  /\ Broadcast(ms) \in [Node -> Seq(Message)]
         /\ \A j \in Node : Range(Broadcast(ms)[j]) = Range(ms)
BY DEF Broadcast

\* An order of the messages of a set holds these messages.
LEMMA OrderType ==
  ASSUME NEW S \in SUBSET Message, IsFiniteSet(S), NEW q \in SetToSeqs(S)
  PROVE  q \in Seq(Message) /\ Range(q) \subseteq S
<1>1. Cardinality(S) \in Nat
  BY FS_CardinalityType
<1>2. q \in [1..Cardinality(S) -> S]
  BY DEF SetToSeqs
<1>3. q \in Seq(S)
  BY <1>1, <1>2
<1> QED
  BY <1>2, <1>3 DEF Range

(***************************************************************************)
(* The helpers of the handlers: what they leave in the log, the proposals, *)
(* the applied commands and the channels.                                  *)
(***************************************************************************)

LogOK(lg) ==
  /\ lg \in [Slot -> AcceptedValue]
  /\ \A s \in Slot : lg[s].ballot = -1 => lg[s] = NoEntry

AppliedOK(ap) ==
  /\ ap \in [Node -> Seq(Value)]
  /\ \A i \in Node : Len(ap[i]) <= MaxSlot

\* apply_commits lengthens an applied log by commands, within the slots.
LEMMA ApplyCommitsType ==
  ASSUME TypeOK, NEW i \in Node, NEW lg \in [Slot -> AcceptedValue],
         ApplyCommits(i, lg)
  PROVE  AppliedOK(applied')
<1>1. MaxSlot \in Nat /\ applied \in [Node -> Seq(Value)]
      /\ \A j \in Node : Len(applied[j]) <= MaxSlot
  BY BoundAssumption DEF TypeOK, CommitIndex
<1>2. PICK last \in CommitIndex(i)..MaxSlot :
        applied' = [applied EXCEPT ![i] =
          [s \in 1..last |-> IF s <= CommitIndex(i) THEN @[s] ELSE lg[s].command]]
  BY DEF ApplyCommits
<1>3. CommitIndex(i) \in Nat /\ last \in Nat /\ last <= MaxSlot
  BY <1>1, <1>2 DEF CommitIndex
<1> DEFINE q == [s \in 1..last |-> IF s <= CommitIndex(i) THEN applied[i][s] ELSE lg[s].command]
<1>4. applied' = [applied EXCEPT ![i] = q]
  BY <1>2
<1>5. ASSUME NEW s \in 1..last PROVE q[s] \in Value
  <2>1. CASE s <= CommitIndex(i)
    BY <1>1, <1>3, <2>1 DEF CommitIndex
  <2>2. CASE ~(s <= CommitIndex(i))
    <3>1. s \in Slot
      BY <1>1, <1>3 DEF Slot
    <3> QED
      BY <2>2, <3>1 DEF AcceptedValue
  <2> QED
    BY <2>1, <2>2
<1>6. q \in Seq(Value) /\ Len(q) = last
  <2>1. q \in [1..last -> Value]
    BY <1>5
  <2> HIDE DEF q
  <2> QED
    BY <1>3, <2>1
<1> HIDE DEF q
<1> QED
  BY <1>1, <1>3, <1>4, <1>6 DEF AppliedOK

\* Committing slots stores the proposed commands at ballot b, and leaves the
\* other slots alone.
LEMMA CommitSlotsEffect ==
  ASSUME TypeOK, NEW i \in Node, NEW b \in Ballot,
         NEW props \in [Slot -> SlotProposal], NEW lg, LogOK(lg),
         NEW S \in SUBSET Slot, CommitSlots(i, b, props, lg, S)
  PROVE  /\ log' \in [Node -> [Slot -> AcceptedValue]]
         /\ LogOK(log'[i])
         /\ \A j \in Node \ {i} : log'[j] = log[j]
         /\ \A s \in S : log'[i][s].ballot = b /\ log'[i][s].command = props[s].command
         /\ \A s \in Slot \ S : log'[i][s] = lg[s]
         /\ proposals' \in [Node -> [Slot -> SlotProposal]]
         /\ \A j \in Node \ {i} : proposals'[j] = proposals[j]
         /\ \A s \in S : proposals'[i][s] = NoProposal
         /\ \A s \in Slot \ S : proposals'[i][s] = props[s]
         /\ AppliedOK(applied')
<1> DEFINE lg1 == [s \in Slot |-> IF s \in S
                     THEN [ballot |-> b, command |-> props[s].command, committed |-> TRUE]
                     ELSE lg[s]]
           pr1 == [s \in Slot |-> IF s \in S THEN NoProposal ELSE props[s]]
<1>1. /\ log' = [log EXCEPT ![i] = lg1]
      /\ proposals' = [proposals EXCEPT ![i] = pr1]
      /\ ApplyCommits(i, lg1)
  BY DEF CommitSlots
<1>2. lg1 \in [Slot -> AcceptedValue]
  BY DEF AcceptedValue, SlotProposal, LogOK
<1>3. LogOK(lg1)
  <2>1. \A s \in Slot : lg1[s].ballot = -1 => lg1[s] = NoEntry
    BY BallotOwner DEF LogOK
  <2> QED
    BY <1>2, <2>1 DEF LogOK
<1>4. pr1 \in [Slot -> SlotProposal]
  BY DEF SlotProposal, NoProposal, Value
<1>5. AppliedOK(applied')
  BY <1>1, <1>2, ApplyCommitsType
<1>6. /\ log \in [Node -> [Slot -> AcceptedValue]]
      /\ proposals \in [Node -> [Slot -> SlotProposal]]
  BY DEF TypeOK
<1>7. /\ \A s \in S : lg1[s].ballot = b /\ lg1[s].command = props[s].command
      /\ \A s \in Slot \ S : lg1[s] = lg[s]
      /\ \A s \in S : pr1[s] = NoProposal
      /\ \A s \in Slot \ S : pr1[s] = props[s]
  OBVIOUS
<1> HIDE DEF lg1, pr1
<1> QED
  BY <1>1, <1>2, <1>3, <1>4, <1>5, <1>6, <1>7

\* Slots are finite in number.
LEMMA SlotsFinite ==
  ASSUME NEW S \in SUBSET Slot
  PROVE  IsFiniteSet(S)
<1>1. MaxSlot \in Int
  BY BoundAssumption
<1>2. IsFiniteSet(Slot)
  BY <1>1, FS_Interval DEF Slot
<1> QED
  BY <1>2, FS_Subset

\* The image of a finite set is finite.
LEMMA ImageFinite ==
  ASSUME NEW S, IsFiniteSet(S), NEW T, NEW f \in [S -> T]
  PROVE  IsFiniteSet({f[x] : x \in S})
<1>1. f \in Surjection(S, {f[x] : x \in S})
  BY DEF Surjection
<1> QED
  BY <1>1, FS_Surjection

\* The messages try_commit_slot sends are Commits of the proposals' commands.
LEMMA CommitMessagesType ==
  ASSUME NEW b \in Ballot, NEW props \in [Slot -> SlotProposal], NEW S \in SUBSET Slot
  PROVE  /\ CommitMessages(b, props, S) \in SUBSET Message
         /\ IsFiniteSet(CommitMessages(b, props, S))
         /\ \A m \in CommitMessages(b, props, S) :
              /\ m.type = "Commit" /\ m.ballot = b /\ m.slot \in S
              /\ m.command = props[m.slot].command
<1> DEFINE f == [s \in S |-> [type |-> "Commit", ballot |-> b, slot |-> s,
                              command |-> props[s].command]]
<1>1. \A s \in S : f[s] \in Message
  BY DEF Message, SlotProposal
<1>2. CommitMessages(b, props, S) = {f[s] : s \in S}
  BY DEF CommitMessages
<1>3. f \in [S -> Message]
  BY <1>1
<1>4. IsFiniteSet({f[s] : s \in S})
  <2> HIDE DEF f
  <2>1. IsFiniteSet(S)
    BY SlotsFinite
  <2> QED
    BY <1>3, <2>1, ImageFinite
<1> QED
  BY <1>1, <1>2, <1>4

\* n1 is n with the same accepts and commits sent by a node to every node.
Told(n1, n) ==
  \E i \in Node : \E q \in Seq(Message) :
    /\ n1 = Emit(n, i, Broadcast(q))
    /\ \A m \in Range(q) : m.type \in {"Accept", "Commit"}

\* n1 is n and accepts and commits of cmds at ballot b.
Announced(n1, n, b, cmds) ==
  /\ Told(n1, n)
  /\ n1 \in [Channel -> Seq(Message)]
  /\ \A c \in Channel : \A m \in Range(n1[c]) :
       \/ m \in Range(n[c])
       \/ /\ m.type \in {"Accept", "Commit"}
          /\ m.ballot = b /\ m.slot \in DOMAIN cmds /\ m.command = cmds[m.slot]

\* Proposing stores the commands at ballot b and announces nothing else.
LEMMA ProposeSlotsEffect ==
  ASSUME TypeOK, NEW i \in Node, NEW b \in Ballot,
         NEW D \in SUBSET Slot, NEW cmds \in [D -> Value],
         NEW n \in [Channel -> Seq(Message)], ProposeSlots(i, b, cmds, n)
  PROVE  /\ log' \in [Node -> [Slot -> AcceptedValue]]
         /\ LogOK(log'[i])
         /\ \A j \in Node \ {i} : log'[j] = log[j]
         /\ \A s \in D : log'[i][s].ballot = b /\ log'[i][s].command = cmds[s]
         /\ \A s \in Slot \ D : log'[i][s] = log[i][s]
         /\ proposals' \in [Node -> [Slot -> SlotProposal]]
         /\ \A j \in Node \ {i} : proposals'[j] = proposals[j]
         /\ \A s \in D : proposals'[i][s] = NoProposal \/ proposals'[i][s].command = cmds[s]
         /\ \A s \in Slot \ D : proposals'[i][s] = proposals[i][s]
         /\ AppliedOK(applied')
         /\ Announced(net', n, b, cmds)
<1> DEFINE props == [s \in Slot |-> IF s \in D
                       THEN [command |-> cmds[s], accepts |-> proposals[i][s].accepts \cup {i}]
                       ELSE proposals[i][s]]
           lg    == [s \in Slot |-> IF s \in D
                       THEN [ballot |-> b, command |-> cmds[s], committed |-> log[i][s].committed]
                       ELSE log[i][s]]
           done  == Committable(props, D)
           ask   == [s \in D |-> [type |-> "Accept", ballot |-> b, slot |-> s,
                                  command |-> cmds[s]]]
           asks  == {[type |-> "Accept", ballot |-> b, slot |-> s, command |-> cmds[s]] : s \in D}
<1>1. DOMAIN cmds = D
  OBVIOUS
<1>2. /\ CommitSlots(i, b, props, lg, done)
      /\ \E accepts \in SetToSeqs(asks), commits \in SetToSeqs(CommitMessages(b, props, done)) :
           net' = Emit(n, i, Broadcast(accepts \o commits))
  BY <1>1 DEF ProposeSlots
<1>3. /\ log[i] \in [Slot -> AcceptedValue] /\ proposals[i] \in [Slot -> SlotProposal]
      /\ LogOK(log[i])
  BY DEF TypeOK, LogOK
<1>4. props \in [Slot -> SlotProposal]
  BY <1>3 DEF SlotProposal
<1>5. LogOK(lg)
  <2>1. lg \in [Slot -> AcceptedValue]
    BY <1>3 DEF AcceptedValue
  <2>2. \A s \in Slot : lg[s].ballot = -1 => lg[s] = NoEntry
    BY <1>3, BallotOwner DEF LogOK
  <2> QED
    BY <2>1, <2>2 DEF LogOK
<1>6. done \in SUBSET D
  BY DEF Committable
<1>7. /\ \A s \in D : props[s].command = cmds[s] /\ lg[s].ballot = b /\ lg[s].command = cmds[s]
      /\ \A s \in Slot \ D : props[s] = proposals[i][s] /\ lg[s] = log[i][s]
  OBVIOUS
<1>8. asks \in SUBSET Message /\ IsFiniteSet(asks)
  <2>1. \A s \in D : ask[s] \in Message
    BY DEF Message
  <2>2. ask \in [D -> Message]
    BY <2>1
  <2>3. asks = {ask[s] : s \in D}
    OBVIOUS
  <2>4. IsFiniteSet({ask[s] : s \in D})
    <3> HIDE DEF ask
    <3>1. IsFiniteSet(D)
      BY SlotsFinite
    <3> QED
      BY <2>2, <3>1, ImageFinite
  <2> QED
    BY <2>1, <2>3, <2>4
<1>9. \A m \in asks : m.type = "Accept" /\ m.ballot = b /\ m.slot \in D /\ m.command = cmds[m.slot]
  OBVIOUS
<1> HIDE DEF props, lg, asks
<1>10. /\ CommitMessages(b, props, done) \in SUBSET Message
       /\ IsFiniteSet(CommitMessages(b, props, done))
       /\ \A m \in CommitMessages(b, props, done) :
            /\ m.type = "Commit" /\ m.ballot = b /\ m.slot \in D
            /\ m.command = cmds[m.slot]
  <2>1. done \in SUBSET Slot
    BY <1>6
  <2> HIDE DEF done
  <2> QED
    BY <1>4, <1>6, <1>7, <2>1, CommitMessagesType
<1> HIDE DEF done
<1>11. PICK accepts \in SetToSeqs(asks), commits \in SetToSeqs(CommitMessages(b, props, done)) :
         net' = Emit(n, i, Broadcast(accepts \o commits))
  BY <1>2
<1>12. /\ accepts \in Seq(Message) /\ Range(accepts) \subseteq asks
       /\ commits \in Seq(Message) /\ Range(commits) \subseteq CommitMessages(b, props, done)
  BY <1>8, <1>10, OrderType
<1>13. /\ accepts \o commits \in Seq(Message)
       /\ Range(accepts \o commits) = Range(accepts) \cup Range(commits)
  BY <1>12, RangeConcatenation
<1>14. /\ Broadcast(accepts \o commits) \in [Node -> Seq(Message)]
       /\ \A j \in Node : Range(Broadcast(accepts \o commits)[j]) = Range(accepts \o commits)
  BY <1>13, BroadcastType
<1>15. /\ net' \in [Channel -> Seq(Message)]
       /\ \A c \in Channel : \A m \in Range(net'[c]) :
            m \in Range(n[c]) \/ m \in Range(accepts \o commits)
  <2> DEFINE out == Broadcast(accepts \o commits)
  <2>1. \A c \in Channel : c[2] \in Node
    BY DEF Channel
  <2>2. out \in [Node -> Seq(Message)] /\ net' = Emit(n, i, out)
    BY <1>11, <1>14
  <2>3. \A j \in Node : Range(out[j]) = Range(accepts \o commits)
    BY <1>14
  <2> HIDE DEF out
  <2>4. /\ net' \in [Channel -> Seq(Message)]
        /\ \A c \in Channel : \A m \in Range(net'[c]) :
             m \in Range(n[c]) \/ (c[1] = i /\ m \in Range(out[c[2]]))
    BY <2>2, EmitType
  <2> QED
    BY <2>1, <2>3, <2>4
<1>16. \A c \in Channel : \A m \in Range(net'[c]) :
         \/ m \in Range(n[c])
         \/ /\ m.type \in {"Accept", "Commit"}
            /\ m.ballot = b /\ m.slot \in D /\ m.command = cmds[m.slot]
  BY <1>9, <1>10, <1>12, <1>13, <1>15
<1>17. /\ log' \in [Node -> [Slot -> AcceptedValue]]
       /\ LogOK(log'[i])
       /\ \A j \in Node \ {i} : log'[j] = log[j]
       /\ \A s \in done : log'[i][s].ballot = b /\ log'[i][s].command = props[s].command
       /\ \A s \in Slot \ done : log'[i][s] = lg[s]
       /\ proposals' \in [Node -> [Slot -> SlotProposal]]
       /\ \A j \in Node \ {i} : proposals'[j] = proposals[j]
       /\ \A s \in done : proposals'[i][s] = NoProposal
       /\ \A s \in Slot \ done : proposals'[i][s] = props[s]
       /\ AppliedOK(applied')
  <2>1. done \in SUBSET Slot
    BY <1>6
  <2> QED
    BY <1>2, <1>4, <1>5, <2>1, CommitSlotsEffect
<1>18. /\ \A s \in D : log'[i][s].ballot = b /\ log'[i][s].command = cmds[s]
       /\ \A s \in Slot \ D : log'[i][s] = log[i][s]
       /\ \A s \in D : proposals'[i][s] = NoProposal \/ proposals'[i][s].command = cmds[s]
       /\ \A s \in Slot \ D : proposals'[i][s] = proposals[i][s]
  BY <1>6, <1>7, <1>17
<1>19. Told(net', n)
  <2>1. \A m \in Range(accepts \o commits) : m.type \in {"Accept", "Commit"}
    BY <1>9, <1>10, <1>12, <1>13
  <2> QED
    BY <1>11, <1>13, <2>1 DEF Told
<1>20. Announced(net', n, b, cmds)
  BY <1>1, <1>15, <1>16, <1>19 DEF Announced
<1> QED
  BY <1>17, <1>18, <1>20

\* The fields of a message, by its type.
LEMMA MessageFields ==
  ASSUME NEW m \in Message
  PROVE  /\ m.type \in {"Prepare", "Promise", "Accept", "Accepted", "Commit", "Heartbeat"}
              => m.ballot \in Ballot
         /\ m.type = "Promise" => m.ok \in BOOLEAN /\ m.entries \in SUBSET RecoveredEntry
         /\ m.type \in {"Accept", "Accepted", "Commit", "SyncRequest"} => m.slot \in Slot
         /\ m.type \in {"Accept", "Commit", "Forward"} => m.command \in Value
         /\ m.type = "Heartbeat" => m.committed \in 0..MaxSlot
         /\ m.type = "SyncData" => m.entries \in SUBSET RecoveredEntry
BY DEF Message

\* n1 is n and, in the channels from i, copies of m.
Added(n1, n, i, m) ==
  /\ n1 \in [Channel -> Seq(Message)]
  /\ \A c \in Channel : \A x \in Range(n1[c]) :
       x \in Range(n[c]) \/ (c[1] = i /\ x = m)

\* Sending one message to one node, or to all, adds just that.
LEMMA SendType ==
  ASSUME NEW n \in [Channel -> Seq(Message)], NEW i \in Node, NEW to, NEW m \in Message
  PROVE  Added(Emit(n, i, Unicast(to, m)), n, i, m)
<1>1. /\ Unicast(to, m) \in [Node -> Seq(Message)]
      /\ \A j \in Node : Range(Unicast(to, m)[j]) \subseteq {m}
  BY UnicastType
<1>2. \A c \in Channel : c[2] \in Node
  BY DEF Channel
<1>3. /\ Emit(n, i, Unicast(to, m)) \in [Channel -> Seq(Message)]
      /\ \A c \in Channel : \A x \in Range(Emit(n, i, Unicast(to, m))[c]) :
           x \in Range(n[c]) \/ (c[1] = i /\ x \in Range(Unicast(to, m)[c[2]]))
  BY <1>1, EmitType
<1> QED
  BY <1>1, <1>2, <1>3 DEF Added

\* A broadcast of one message adds only copies of it.
LEMMA BroadcastOneType ==
  ASSUME NEW n \in [Channel -> Seq(Message)], NEW i \in Node, NEW m \in Message
  PROVE  Added(Emit(n, i, Broadcast(<<m>>)), n, i, m)
<1>1. <<m>> \in Seq(Message) /\ Range(<<m>>) = {m}
  BY DEF Range
<1>2. /\ Broadcast(<<m>>) \in [Node -> Seq(Message)]
      /\ \A j \in Node : Range(Broadcast(<<m>>)[j]) = {m}
  BY <1>1, BroadcastType
<1>3. \A c \in Channel : c[2] \in Node
  BY DEF Channel
<1>4. /\ Emit(n, i, Broadcast(<<m>>)) \in [Channel -> Seq(Message)]
      /\ \A c \in Channel : \A x \in Range(Emit(n, i, Broadcast(<<m>>))[c]) :
           x \in Range(n[c]) \/ (c[1] = i /\ x \in Range(Broadcast(<<m>>)[c[2]]))
  BY <1>2, EmitType
<1> QED
  BY <1>2, <1>3, <1>4 DEF Added

\* A promise reports entries of the node's own log.
LEMMA CollectType ==
  ASSUME TypeOK, NEW i \in Node
  PROVE  /\ CollectAcceptedEntries(i) \in SUBSET RecoveredEntry
         /\ CollectAcceptedEntries(i) \subseteq LogEntries(i)
<1>1. /\ log[i] \in [Slot -> AcceptedValue]
      /\ \A s \in Slot : log[i][s].ballot = -1 => log[i][s] = NoEntry
  BY DEF TypeOK
<1>2. \A s \in Slot : log[i][s].command # Empty => log[i][s].ballot # -1
  BY <1>1 DEF NoEntry
<1> QED
  BY <1>1, <1>2 DEF CollectAcceptedEntries, LogEntries, RecoveredEntry, AcceptedValue

\* step_down_if_stale ends leaderships and starts none; who still leads, leads the
\* same ballot.
LEMMA StepDownType ==
  ASSUME TypeOK, NEW i \in Node, NEW b \in Ballot, StepDownIfStale(i, b)
  PROVE  /\ is_leader' \in [Node -> BOOLEAN]
         /\ active_ballot' \in [Node -> Ballot \cup {-1}]
         /\ \A k \in Node : is_leader'[k] =>
              is_leader[k] /\ active_ballot'[k] = active_ballot[k] /\ active_ballot[k] # -1
<1>1. /\ is_leader \in [Node -> BOOLEAN]
      /\ active_ballot \in [Node -> Ballot \cup {-1}]
      /\ \A k \in Node : is_leader[k] => active_ballot[k] # -1
  BY DEF TypeOK
<1>2. \A k \in Node : active_ballot[k] \in Int
  BY <1>1, BallotOwner
<1>3. b \in Int
  BY BallotOwner
<1>4. /\ active_ballot' = [active_ballot EXCEPT ![i] = MaxOf(b, active_ballot[i])]
      /\ is_leader' = [is_leader EXCEPT ![i] = is_leader[i] /\ b <= active_ballot[i]]
  BY DEF StepDownIfStale
<1>5. MaxOf(b, active_ballot[i]) \in Ballot \cup {-1}
  BY <1>1 DEF MaxOf
<1>6. is_leader[i] /\ b <= active_ballot[i] => MaxOf(b, active_ballot[i]) = active_ballot[i]
  BY <1>2, <1>3 DEF MaxOf
<1>7. is_leader' \in [Node -> BOOLEAN]
  BY <1>1, <1>4
<1>8. active_ballot' \in [Node -> Ballot \cup {-1}]
  BY <1>1, <1>4, <1>5
<1>9. ASSUME NEW k \in Node, is_leader'[k]
      PROVE  is_leader[k] /\ active_ballot'[k] = active_ballot[k] /\ active_ballot[k] # -1
  <2>1. CASE k = i
    BY <1>1, <1>4, <1>6, <1>9, <2>1
  <2>2. CASE k # i
    BY <1>1, <1>4, <1>9, <2>2
  <2> QED
    BY <2>1, <2>2
<1> QED
  BY <1>7, <1>8, <1>9

\* Learning commits stores entries of the message, and raises the next slot.
LEMMA LearnCommittedEffect ==
  ASSUME TypeOK, NEW i \in Node, NEW es \in SUBSET RecoveredEntry, LearnCommitted(i, es)
  PROVE  /\ log' \in [Node -> [Slot -> AcceptedValue]]
         /\ LogOK(log'[i])
         /\ \A j \in Node \ {i} : log'[j] = log[j]
         /\ \A s \in Slot : \/ log'[i][s] = log[i][s]
                            \/ \E e \in es : /\ e.slot = s
                                             /\ log'[i][s].ballot = e.ballot
                                             /\ log'[i][s].command = e.command
         /\ next_slot' \in [Node -> 1..MaxSlot + 1]
         /\ \A k \in Node : next_slot'[k] >= next_slot[k]
         /\ AppliedOK(applied')
<1> DEFINE lg == StoreCommitted(log[i], es)
           tops == {next_slot[i]} \cup {e.slot + 1 : e \in es}
<1>1. /\ log' = [log EXCEPT ![i] = lg]
      /\ \E top \in tops : /\ \A t \in tops : t <= top
                           /\ next_slot' = [next_slot EXCEPT ![i] = top]
      /\ ApplyCommits(i, lg)
  BY DEF LearnCommitted
<1>2. /\ log \in [Node -> [Slot -> AcceptedValue]] /\ LogOK(log[i])
      /\ next_slot \in [Node -> 1..MaxSlot + 1]
      /\ MaxSlot \in Nat
  BY BoundAssumption DEF TypeOK, LogOK
<1>3. ASSUME NEW s \in Slot
      PROVE  /\ lg[s] \in AcceptedValue
             /\ lg[s].ballot = -1 => lg[s] = NoEntry
             /\ \/ lg[s] = log[i][s]
                \/ \E e \in es : /\ e.slot = s
                                 /\ lg[s].ballot = e.ballot
                                 /\ lg[s].command = e.command
  <2>1. CASE \E e \in es : e.slot = s
    <3> DEFINE e == CHOOSE x \in es : x.slot = s
    <3>1. e \in es /\ e.slot = s
      BY <2>1
    <3>2. lg[s] = [ballot |-> e.ballot, command |-> e.command, committed |-> TRUE]
      BY <2>1 DEF StoreCommitted
    <3>3. e.ballot \in Ballot /\ e.command \in Value
      BY <3>1 DEF RecoveredEntry
    <3>4. e.ballot # -1
      BY <3>3, BallotOwner
    <3> HIDE DEF e, lg
    <3> QED
      BY <3>1, <3>2, <3>3, <3>4 DEF AcceptedValue
  <2>2. CASE ~\E e \in es : e.slot = s
    <3>1. lg[s] = log[i][s]
      BY <2>2 DEF StoreCommitted
    <3> QED
      BY <1>2, <3>1 DEF LogOK
  <2> QED
    BY <2>1, <2>2
<1>4. lg \in [Slot -> AcceptedValue]
  <2>1. lg = [s \in Slot |-> lg[s]]
    BY DEF StoreCommitted
  <2> HIDE DEF lg
  <2> QED
    BY <1>3, <2>1
<1>5. AppliedOK(applied')
  BY <1>1, <1>4, ApplyCommitsType
<1>6. tops \subseteq 1..MaxSlot + 1 /\ next_slot[i] \in tops
  BY <1>2 DEF RecoveredEntry, Slot
<1>7. /\ next_slot' \in [Node -> 1..MaxSlot + 1]
      /\ \A k \in Node : next_slot'[k] >= next_slot[k]
  <2>1. PICK top \in tops : /\ \A t \in tops : t <= top
                            /\ next_slot' = [next_slot EXCEPT ![i] = top]
    BY <1>1
  <2> HIDE DEF tops
  <2> QED
    BY <1>2, <1>6, <2>1
<1> HIDE DEF lg, tops
<1> QED
  BY <1>1, <1>2, <1>3, <1>4, <1>5, <1>7 DEF LogOK

(***************************************************************************)
(* Most handlers are quiet: they move the votes up, hand on entries that   *)
(* were known before, and leave elections and proposals alone.             *)
(***************************************************************************)

VotesQuiet ==
  /\ is_leader' \in [Node -> BOOLEAN]
  /\ active_ballot' \in [Node -> Ballot \cup {-1}]
  /\ promised_ballot' \in [Node -> Ballot \cup {-1}]
  /\ \A k \in Node : promised_ballot'[k] >= promised_ballot[k]
  /\ \A k \in Node : is_leader'[k] =>
       is_leader[k] /\ active_ballot'[k] = active_ballot[k] /\ active_ballot[k] # -1

LogsQuiet ==
  /\ log' \in [Node -> [Slot -> AcceptedValue]]
  /\ \A k \in Node : LogOK(log'[k])
  /\ \A k \in Node, s \in Slot :
       \/ log'[k][s].ballot = log[k][s].ballot /\ log'[k][s].command = log[k][s].command
       \/ [slot |-> s, ballot |-> log'[k][s].ballot, command |-> log'[k][s].command] \in Entries
  /\ AppliedOK(applied')
  /\ next_slot' \in [Node -> 1..MaxSlot + 1]
  /\ \A k \in Node : next_slot'[k] >= next_slot[k]

NetQuiet ==
  /\ net' \in [Channel -> Seq(Message)]
  /\ \A c \in Channel : \A x \in Range(net'[c]) :
       \/ x \in Range(net[c])
       \/ /\ MessageEntries(x) \subseteq Entries
          /\ x.type = "Promise" /\ x.ok => promised_ballot'[c[1]] >= x.ballot

Quiet ==
  /\ TypeOK'
  /\ VotesQuiet /\ LogsQuiet /\ NetQuiet
  /\ UNCHANGED <<prepare, proposals>>
  /\ Entries' \subseteq Entries

\* The channels after a message was taken.
Remaining(n) ==
  /\ n \in [Channel -> Seq(Message)]
  /\ \A c \in Channel : \A x \in Range(n[c]) : x \in Range(net[c])

\* What the logs, the messages and the collected promises hold is all there is.
LEMMA EntriesCovered ==
  ASSUME NEW E,
         \A k \in Node, s \in Slot : log'[k][s].ballot # -1 =>
           [slot |-> s, ballot |-> log'[k][s].ballot, command |-> log'[k][s].command] \in E,
         \A c \in Channel : \A x \in Range(net'[c]) : MessageEntries(x) \subseteq E,
         \A k, j \in Node : prepare'[k].entries[j] \subseteq E
  PROVE  Entries' \subseteq E
<1>1. \A x : MessageEntries(x)' = MessageEntries(x)
  BY DEF MessageEntries
<1>2. (InTransit)' = UNION {Range(net'[c]) : c \in Channel}
  BY DEF InTransit
<1>3. \A k \in Node : LogEntries(k)' \subseteq E
  BY DEF LogEntries
<1>4. UNION {LogEntries(k)' : k \in Node} \subseteq E
  BY <1>3
<1>5. UNION {MessageEntries(x)' : x \in InTransit'} \subseteq E
  BY <1>1, <1>2
<1>6. UNION {UNION {prepare'[k].entries[j] : j \in Node} : k \in Node} \subseteq E
  OBVIOUS
<1> QED
  BY <1>4, <1>5, <1>6 DEF Entries

\* Entries of logs, of messages in transit and of collected promises are known.
LEMMA EntriesKnown ==
  /\ \A k \in Node, s \in Slot : log[k][s].ballot # -1 =>
       [slot |-> s, ballot |-> log[k][s].ballot, command |-> log[k][s].command] \in Entries
  /\ \A c \in Channel : \A x \in Range(net[c]) : MessageEntries(x) \subseteq Entries
  /\ \A k, j \in Node : prepare[k].entries[j] \subseteq Entries
<1>1. \A k \in Node, s \in Slot : log[k][s].ballot # -1 =>
        [slot |-> s, ballot |-> log[k][s].ballot, command |-> log[k][s].command] \in LogEntries(k)
  BY DEF LogEntries
<1>2. \A k \in Node : LogEntries(k) \subseteq Entries
  BY DEF Entries
<1>3. \A c \in Channel : \A x \in Range(net[c]) : x \in InTransit
  BY DEF InTransit
<1>4. \A x \in InTransit : MessageEntries(x) \subseteq Entries
  BY DEF Entries
<1>5. \A k, j \in Node : prepare[k].entries[j] \subseteq Entries
  BY DEF Entries
<1> QED
  BY <1>1, <1>2, <1>3, <1>4, <1>5

\* The parts of a quiet step make one.
LEMMA QuietParts ==
  ASSUME TypeOK, VotesQuiet, LogsQuiet, NetQuiet,
         UNCHANGED <<election_round, prepare, proposals>>,
         submits' \in [Command -> 0..MaxSubmits]
  PROVE  Quiet
<1>1. TypeOK'
  BY DEF TypeOK, VotesQuiet, LogsQuiet, NetQuiet, LogOK, AppliedOK, CommitIndex
<1>2. \A k \in Node, s \in Slot : log'[k][s].ballot # -1 =>
        [slot |-> s, ballot |-> log'[k][s].ballot, command |-> log'[k][s].command] \in Entries
  BY EntriesKnown DEF LogsQuiet
<1>3. \A c \in Channel : \A x \in Range(net'[c]) : MessageEntries(x) \subseteq Entries
  BY EntriesKnown DEF NetQuiet
<1>4. \A k, j \in Node : prepare'[k].entries[j] \subseteq Entries
  BY EntriesKnown
<1>5. Entries' \subseteq Entries
  BY <1>2, <1>3, <1>4, EntriesCovered
<1> QED
  BY <1>1, <1>5 DEF Quiet

\* Ballots are integers, also before the first one is known.
LEMMA BallotsAreInts ==
  ASSUME TypeOK
  PROVE  \A k \in Node : promised_ballot[k] \in Int /\ active_ballot[k] \in Int
BY BallotOwner DEF TypeOK

\* A handler that leaves the votes alone is quiet about them ...
LEMMA VotesUnchanged ==
  ASSUME TypeOK, UNCHANGED voteVars
  PROVE  VotesQuiet
BY BallotsAreInts DEF TypeOK, VotesQuiet, voteVars

\* ... and one that leaves the logs alone is quiet about those.
LEMMA LogsUnchanged ==
  ASSUME TypeOK, UNCHANGED logVars
  PROVE  LogsQuiet
<1>1. \A k \in Node : next_slot[k] \in Int
  BY BoundAssumption DEF TypeOK
<1> QED
  BY <1>1 DEF TypeOK, LogsQuiet, logVars, LogOK, AppliedOK, CommitIndex

\* A handler that sends nothing says nothing new.
LEMMA NetRemaining ==
  ASSUME NEW n, Remaining(n), net' = n
  PROVE  NetQuiet
BY DEF Remaining, NetQuiet

\* One message more, that says nothing new and promises what is promised.
LEMMA NetSent ==
  ASSUME NEW n, Remaining(n), NEW i \in Node, NEW to, NEW m \in Message,
         net' = Emit(n, i, Unicast(to, m)),
         MessageEntries(m) \subseteq Entries,
         m.type = "Promise" /\ m.ok => promised_ballot'[i] >= m.ballot
  PROVE  NetQuiet
<1>1. n \in [Channel -> Seq(Message)]
  BY DEF Remaining
<1>2. Added(net', n, i, m)
  BY <1>1, SendType
<1> QED
  BY <1>2 DEF Added, Remaining, NetQuiet

\* Promising a ballot that is not below the last one, and following it.
LEMMA PromiseQuiet ==
  ASSUME TypeOK, NEW i \in Node, NEW b \in Ballot, b >= promised_ballot[i],
         promised_ballot' = [promised_ballot EXCEPT ![i] = b],
         \/ StepDownIfStale(i, b)
         \/ UNCHANGED <<is_leader, active_ballot>>
  PROVE  VotesQuiet
<1>1. /\ is_leader' \in [Node -> BOOLEAN]
      /\ active_ballot' \in [Node -> Ballot \cup {-1}]
      /\ \A k \in Node : is_leader'[k] =>
           is_leader[k] /\ active_ballot'[k] = active_ballot[k] /\ active_ballot[k] # -1
  <2>1. CASE StepDownIfStale(i, b)
    BY <2>1, StepDownType
  <2>2. CASE UNCHANGED <<is_leader, active_ballot>>
    BY <2>2 DEF TypeOK
  <2> QED
    BY <2>1, <2>2
<1>2. promised_ballot' \in [Node -> Ballot \cup {-1}]
  BY DEF TypeOK
<1>3. \A k \in Node : promised_ballot'[k] >= promised_ballot[k]
  BY BallotsAreInts DEF TypeOK
<1> QED
  BY <1>1, <1>2, <1>3 DEF VotesQuiet

\* The entries of a well-formed message are what its fields say.
LEMMA EntriesOfMessage ==
  ASSUME NEW m \in Message
  PROVE  /\ MessageEntries(m) \in SUBSET RecoveredEntry
         /\ m.type \in {"Promise", "SyncData"} => MessageEntries(m) = m.entries
         /\ m.type \in {"Accept", "Commit"} =>
              MessageEntries(m) = {[slot |-> m.slot, ballot |-> m.ballot, command |-> m.command]}
         /\ m.type \notin {"Promise", "SyncData", "Accept", "Commit"} => MessageEntries(m) = {}
<1>1. /\ m.type \in {"Promise", "SyncData"} => m.entries \in SUBSET RecoveredEntry
      /\ m.type \in {"Accept", "Commit"} =>
           m.slot \in Slot /\ m.ballot \in Ballot /\ m.command \in Value
  BY MessageFields
<1> QED
  BY <1>1 DEF MessageEntries, RecoveredEntry

\* The log of every node is well formed.
LEMMA LogsAreOK ==
  ASSUME TypeOK
  PROVE  \A k \in Node : LogOK(log[k])
BY DEF TypeOK, LogOK

\* Learning entries that were known leaves nothing unknown in the log.
LEMMA LearnQuiet ==
  ASSUME TypeOK, NEW i \in Node, NEW es \in SUBSET RecoveredEntry, es \subseteq Entries,
         LearnCommitted(i, es)
  PROVE  LogsQuiet
<1>1. /\ log' \in [Node -> [Slot -> AcceptedValue]]
      /\ LogOK(log'[i])
      /\ \A k \in Node \ {i} : log'[k] = log[k]
      /\ \A s \in Slot : \/ log'[i][s] = log[i][s]
                         \/ \E e \in es : /\ e.slot = s
                                          /\ log'[i][s].ballot = e.ballot
                                          /\ log'[i][s].command = e.command
      /\ next_slot' \in [Node -> 1..MaxSlot + 1]
      /\ \A k \in Node : next_slot'[k] >= next_slot[k]
      /\ AppliedOK(applied')
  BY LearnCommittedEffect
<1>2. \A k \in Node : LogOK(log'[k])
  <2>1. \A k \in Node : LogOK(log[k])
    BY LogsAreOK
  <2> QED
    BY <1>1, <2>1
<1>3. \A e \in es : [slot |-> e.slot, ballot |-> e.ballot, command |-> e.command] \in Entries
  <2>1. \A e \in es : e = [slot |-> e.slot, ballot |-> e.ballot, command |-> e.command]
    BY DEF RecoveredEntry
  <2> QED
    BY <2>1
<1>4. \A s \in Slot :
        \/ log'[i][s].ballot = log[i][s].ballot /\ log'[i][s].command = log[i][s].command
        \/ [slot |-> s, ballot |-> log'[i][s].ballot, command |-> log'[i][s].command] \in Entries
  BY <1>1, <1>3
<1> QED
  BY <1>1, <1>2, <1>4 DEF LogsQuiet

\* on_prepare is quiet: its promise reports the node's own log.
LEMMA OnPrepareQuiet ==
  ASSUME TypeOK, NEW i \in Node, NEW j \in Node, NEW m \in Message, m.type = "Prepare",
         NEW n, Remaining(n), OnPrepare(i, j, m, n), UNCHANGED submits
  PROVE  Quiet
<1> DEFINE ok    == m.ballot >= promised_ballot[i]
           reply == [type |-> "Promise", ballot |-> m.ballot, ok |-> ok,
                     entries |-> IF ok THEN CollectAcceptedEntries(i) ELSE {}]
<1>1. m.ballot \in Ballot
  BY MessageFields
<1>2. VotesQuiet
  <2>1. CASE ok
    BY <1>1, <2>1, PromiseQuiet DEF OnPrepare
  <2>2. CASE ~ok
    BY <2>2, VotesUnchanged DEF OnPrepare
  <2> QED
    BY <2>1, <2>2
<1>3. LogsQuiet
  BY LogsUnchanged DEF OnPrepare
<1>4. reply \in Message /\ MessageEntries(reply) \subseteq Entries
  <2>1. /\ CollectAcceptedEntries(i) \in SUBSET RecoveredEntry
        /\ CollectAcceptedEntries(i) \subseteq LogEntries(i)
    BY CollectType
  <2>2. LogEntries(i) \subseteq Entries
    BY DEF Entries
  <2>3. reply.entries \in SUBSET RecoveredEntry /\ reply.entries \subseteq Entries
    BY <2>1, <2>2
  <2>4. reply \in Message
    BY <1>1, <2>3 DEF Message
  <2> QED
    BY <2>3, <2>4, EntriesOfMessage
<1>5. reply.ok => promised_ballot'[i] >= reply.ballot
  <2>1. ASSUME ok PROVE promised_ballot'[i] = m.ballot
    BY <2>1 DEF OnPrepare, TypeOK
  <2>2. m.ballot \in Int
    BY <1>1, BallotOwner
  <2>3. CASE ok
    BY <2>1, <2>2, <2>3
  <2>4. CASE ~ok
    BY <2>4
  <2> QED
    BY <2>3, <2>4
<1>6. net' = Emit(n, i, Unicast(j, reply))
  BY DEF OnPrepare
<1>7. NetQuiet
  <2> HIDE DEF reply
  <2> QED
    BY <1>4, <1>5, <1>6, NetSent
<1>8. UNCHANGED <<election_round, prepare, proposals>> /\ submits' \in [Command -> 0..MaxSubmits]
  BY DEF OnPrepare, leadVars, TypeOK
<1> QED
  BY <1>2, <1>3, <1>7, <1>8, QuietParts

\* on_accept_request is quiet: it stores the entry of the message.
LEMMA OnAcceptRequestQuiet ==
  ASSUME TypeOK, NEW i \in Node, NEW j \in Node, NEW m \in Message, m.type = "Accept",
         MessageEntries(m) \subseteq Entries,
         NEW n, Remaining(n), OnAcceptRequest(i, j, m, n), UNCHANGED submits
  PROVE  Quiet
<1> DEFINE ok    == m.ballot >= promised_ballot[i]
           entry == [ballot |-> m.ballot, command |-> m.command,
                     committed |-> log[i][m.slot].committed]
           reply == [type |-> "Accepted", slot |-> m.slot,
                     ballot |-> IF ok THEN m.ballot ELSE promised_ballot[i]]
<1>1. m.ballot \in Ballot /\ m.slot \in Slot /\ m.command \in Value
  BY MessageFields
<1>2. VotesQuiet
  <2>1. CASE ok
    BY <1>1, <2>1, PromiseQuiet DEF OnAcceptRequest
  <2>2. CASE ~ok
    BY <2>2, VotesUnchanged DEF OnAcceptRequest
  <2> QED
    BY <2>1, <2>2
<1>3. LogsQuiet
  <2>1. CASE UNCHANGED log
    BY <2>1, LogsUnchanged DEF OnAcceptRequest, logVars
  <2>2. CASE log' = [log EXCEPT ![i][m.slot] = entry]
    <3>1. /\ log \in [Node -> [Slot -> AcceptedValue]]
          /\ \A k \in Node : LogOK(log[k])
          /\ AppliedOK(applied)
          /\ next_slot \in [Node -> 1..MaxSlot + 1]
          /\ \A k \in Node : next_slot[k] \in Int
      BY BoundAssumption DEF TypeOK, LogOK, AppliedOK, CommitIndex
    <3>2. /\ entry \in AcceptedValue /\ entry.ballot # -1
          /\ entry.ballot = m.ballot /\ entry.command = m.command
      <4>1. log[i][m.slot] \in AcceptedValue
        BY <1>1, <3>1
      <4>2. m.ballot # -1
        BY <1>1, BallotOwner
      <4>3. log[i][m.slot].committed \in BOOLEAN
        BY <4>1 DEF AcceptedValue
      <4> QED
        BY <1>1, <4>2, <4>3 DEF AcceptedValue
    <3> HIDE DEF entry
    <3>3. log' \in [Node -> [Slot -> AcceptedValue]]
      BY <1>1, <2>2, <3>1, <3>2
    <3>4. \A k \in Node, s \in Slot :
            log'[k][s] = IF k = i /\ s = m.slot THEN entry ELSE log[k][s]
      BY <1>1, <2>2, <3>1
    <3>5. \A k \in Node : LogOK(log'[k])
      <4>1. ASSUME NEW k \in Node
            PROVE  /\ log'[k] \in [Slot -> AcceptedValue]
                   /\ \A s \in Slot : log'[k][s].ballot = -1 => log'[k][s] = NoEntry
        <5>1. log'[k] \in [Slot -> AcceptedValue]
          BY <3>3
        <5>2. ASSUME NEW s \in Slot, log'[k][s].ballot = -1
              PROVE  log'[k][s] = NoEntry
          <6>1. log'[k][s] = IF k = i /\ s = m.slot THEN entry ELSE log[k][s]
            BY <3>4
          <6>2. log'[k][s] = log[k][s]
            BY <3>2, <5>2, <6>1
          <6>3. LogOK(log[k])
            BY <3>1
          <6> QED
            BY <5>2, <6>2, <6>3 DEF LogOK
        <5> QED
          BY <5>1, <5>2
      <4> QED
        BY <4>1 DEF LogOK
    <3>6. [slot |-> m.slot, ballot |-> entry.ballot, command |-> entry.command] \in Entries
      BY <3>2, EntriesOfMessage
    <3>7. \A k \in Node, s \in Slot :
            \/ log'[k][s].ballot = log[k][s].ballot /\ log'[k][s].command = log[k][s].command
            \/ [slot |-> s, ballot |-> log'[k][s].ballot, command |-> log'[k][s].command] \in Entries
      BY <3>4, <3>6
    <3>8. UNCHANGED <<applied, next_slot>>
      BY DEF OnAcceptRequest
    <3> QED
      BY <3>1, <3>3, <3>5, <3>7, <3>8 DEF LogsQuiet, AppliedOK
  <2> QED
    BY <2>1, <2>2 DEF OnAcceptRequest
<1>4. reply \in Message /\ MessageEntries(reply) \subseteq Entries
  <2>1. reply.ballot \in Ballot
    <3>1. CASE ok
      BY <1>1, <3>1
    <3>2. CASE ~ok
      <4>1. promised_ballot[i] \in Ballot \cup {-1}
        BY DEF TypeOK
      <4>2. promised_ballot[i] # -1
        BY <1>1, <3>2, BallotOwner
      <4> QED
        BY <3>2, <4>1, <4>2
    <3> QED
      BY <3>1, <3>2
  <2>2. reply \in Message
    BY <1>1, <2>1 DEF Message
  <2> QED
    BY <2>2, EntriesOfMessage
<1>5. net' = Emit(n, i, Unicast(j, reply)) /\ reply.type # "Promise"
  BY DEF OnAcceptRequest
<1>6. NetQuiet
  <2> HIDE DEF reply
  <2> QED
    BY <1>4, <1>5, NetSent
<1>7. UNCHANGED <<election_round, prepare, proposals>> /\ submits' \in [Command -> 0..MaxSubmits]
  BY DEF OnAcceptRequest, leadVars, TypeOK
<1> QED
  BY <1>2, <1>3, <1>6, <1>7, QuietParts

\* on_commit is quiet.
LEMMA OnCommitQuiet ==
  ASSUME TypeOK, NEW i \in Node, NEW j \in Node, NEW m \in Message, m.type = "Commit",
         MessageEntries(m) \subseteq Entries,
         NEW n, Remaining(n), OnCommit(i, j, m, n), UNCHANGED submits
  PROVE  Quiet
<1> DEFINE b == MaxOf(m.ballot, promised_ballot[i])
<1>1. m.ballot \in Ballot
  BY MessageFields
<1>2. VotesQuiet
  <2>1. StepDownIfStale(i, m.ballot) /\ promised_ballot' = [promised_ballot EXCEPT ![i] = b]
    BY DEF OnCommit
  <2>2. b \in Ballot /\ b >= promised_ballot[i]
    <3>1. m.ballot \in Nat /\ promised_ballot[i] \in Int
      BY <1>1, BallotsAreInts, BallotOwner
    <3>2. promised_ballot[i] \in Ballot \cup {-1}
      BY DEF TypeOK
    <3> QED
      BY <1>1, <3>1, <3>2 DEF MaxOf
  <2>3. /\ is_leader' \in [Node -> BOOLEAN]
        /\ active_ballot' \in [Node -> Ballot \cup {-1}]
        /\ \A k \in Node : is_leader'[k] =>
             is_leader[k] /\ active_ballot'[k] = active_ballot[k] /\ active_ballot[k] # -1
    BY <1>1, <2>1, StepDownType
  <2>4. /\ promised_ballot' \in [Node -> Ballot \cup {-1}]
        /\ \A k \in Node : promised_ballot'[k] >= promised_ballot[k]
    <3> HIDE DEF b
    <3> QED
      BY <2>1, <2>2, BallotsAreInts DEF TypeOK
  <2> QED
    BY <2>3, <2>4 DEF VotesQuiet
<1>3. LogsQuiet
  BY EntriesOfMessage, LearnQuiet DEF OnCommit
<1>4. NetQuiet
  BY NetRemaining DEF OnCommit
<1>5. UNCHANGED <<election_round, prepare, proposals>> /\ submits' \in [Command -> 0..MaxSubmits]
  BY DEF OnCommit, leadVars, TypeOK
<1> QED
  BY <1>2, <1>3, <1>4, <1>5, QuietParts

\* on_heartbeat is quiet.
LEMMA OnHeartbeatQuiet ==
  ASSUME TypeOK, NEW i \in Node, NEW j \in Node, NEW m \in Message, m.type = "Heartbeat",
         NEW n, Remaining(n), OnHeartbeat(i, j, m, n), UNCHANGED submits
  PROVE  Quiet
<1> DEFINE ask == [type |-> "SyncRequest", slot |-> CommitIndex(i) + 1]
<1>1. m.ballot \in Ballot /\ m.committed \in 0..MaxSlot
  BY MessageFields
<1>2. VotesQuiet
  <2>1. CASE m.ballot >= promised_ballot[i]
    BY <1>1, <2>1, PromiseQuiet DEF OnHeartbeat
  <2>2. CASE ~(m.ballot >= promised_ballot[i])
    BY <2>2, VotesUnchanged DEF OnHeartbeat
  <2> QED
    BY <2>1, <2>2
<1>3. LogsQuiet
  BY LogsUnchanged DEF OnHeartbeat
<1>4. NetQuiet
  <2>1. CASE m.committed > CommitIndex(i)
    <3>1. CommitIndex(i) + 1 \in Slot
      <4>1. MaxSlot \in Nat /\ CommitIndex(i) \in Nat
        BY BoundAssumption DEF TypeOK, CommitIndex
      <4> QED
        BY <1>1, <2>1, <4>1 DEF Slot
    <3>2. ask \in Message
      BY <3>1 DEF Message
    <3>3. MessageEntries(ask) = {}
      BY <3>2, EntriesOfMessage
    <3>4. net' = Emit(n, i, Unicast(j, ask)) /\ ask.type # "Promise"
      BY <2>1 DEF OnHeartbeat
    <3> HIDE DEF ask
    <3> QED
      BY <3>2, <3>3, <3>4, NetSent
  <2>2. CASE ~(m.committed > CommitIndex(i))
    BY <2>2, NetRemaining DEF OnHeartbeat
  <2> QED
    BY <2>1, <2>2
<1>5. UNCHANGED <<election_round, prepare, proposals>> /\ submits' \in [Command -> 0..MaxSubmits]
  BY DEF OnHeartbeat, leadVars, TypeOK
<1> QED
  BY <1>2, <1>3, <1>4, <1>5, QuietParts

\* on_sync_request is quiet: it hands out entries of the node's own log.
LEMMA OnSyncRequestQuiet ==
  ASSUME TypeOK, NEW i \in Node, NEW j \in Node, NEW m \in Message, m.type = "SyncRequest",
         NEW n, Remaining(n), OnSyncRequest(i, j, m, n), UNCHANGED submits
  PROVE  Quiet
<1> DEFINE found == {s \in m.slot .. CommitIndex(i) : log[i][s].committed}
           es    == {[slot |-> s, ballot |-> log[i][s].ballot, command |-> log[i][s].command] :
                       s \in found}
           data  == [type |-> "SyncData", entries |-> es]
<1>1. found \subseteq Slot
  <2>1. MaxSlot \in Nat /\ CommitIndex(i) \in Nat /\ CommitIndex(i) <= MaxSlot
    BY BoundAssumption DEF TypeOK, CommitIndex
  <2>2. m.slot \in Slot
    BY MessageFields
  <2> QED
    BY <2>1, <2>2 DEF Slot
<1>2. /\ log[i] \in [Slot -> AcceptedValue]
      /\ \A s \in Slot : log[i][s].ballot = -1 => log[i][s] = NoEntry
  BY DEF TypeOK
<1>3. ASSUME NEW s \in found
      PROVE  [slot |-> s, ballot |-> log[i][s].ballot, command |-> log[i][s].command]
               \in RecoveredEntry \cap Entries
  <2>1. s \in Slot /\ log[i][s].committed
    BY <1>1
  <2>2. log[i][s].ballot # -1
    BY <1>2, <2>1 DEF NoEntry
  <2>3. log[i][s].ballot \in Ballot /\ log[i][s].command \in Value
    BY <1>2, <2>1, <2>2 DEF AcceptedValue
  <2> QED
    BY <2>1, <2>2, <2>3, EntriesKnown DEF RecoveredEntry
<1>4. es \in SUBSET RecoveredEntry /\ es \subseteq Entries
  BY <1>3
<1>5. data \in Message /\ MessageEntries(data) \subseteq Entries
  <2> HIDE DEF es
  <2>1. data \in Message
    BY <1>4 DEF Message
  <2> QED
    BY <1>4, <2>1, EntriesOfMessage
<1>6. net' \in {n, Emit(n, i, Unicast(j, data))}
  BY DEF OnSyncRequest
<1>7. data.type # "Promise"
  OBVIOUS
<1>8. NetQuiet
  <2> HIDE DEF data
  <2> QED
    BY <1>5, <1>6, <1>7, NetSent, NetRemaining
<1>9. VotesQuiet /\ LogsQuiet
  BY VotesUnchanged, LogsUnchanged DEF OnSyncRequest
<1>10. UNCHANGED <<election_round, prepare, proposals>> /\ submits' \in [Command -> 0..MaxSubmits]
  BY DEF OnSyncRequest, leadVars, TypeOK
<1> QED
  BY <1>8, <1>9, <1>10, QuietParts

\* on_sync_data is quiet.
LEMMA OnSyncDataQuiet ==
  ASSUME TypeOK, NEW i \in Node, NEW j \in Node, NEW m \in Message, m.type = "SyncData",
         MessageEntries(m) \subseteq Entries,
         NEW n, Remaining(n), OnSyncData(i, j, m, n), UNCHANGED submits
  PROVE  Quiet
<1>1. m.entries \in SUBSET RecoveredEntry /\ m.entries \subseteq Entries
  BY EntriesOfMessage
<1>2. LogsQuiet
  BY <1>1, LearnQuiet DEF OnSyncData
<1>3. VotesQuiet /\ NetQuiet
  BY VotesUnchanged, NetRemaining DEF OnSyncData
<1>4. UNCHANGED <<election_round, prepare, proposals>> /\ submits' \in [Command -> 0..MaxSubmits]
  BY DEF OnSyncData, leadVars, TypeOK
<1> QED
  BY <1>2, <1>3, <1>4, QuietParts

\* A node that does not lead only passes the command on.
LEMMA ForwardQuiet ==
  ASSUME TypeOK, NEW i \in Node, NEW cmd \in Value, ~is_leader[i],
         NEW n, Remaining(n), SubmitCommand(i, cmd, n),
         submits' \in [Command -> 0..MaxSubmits]
  PROVE  Quiet
<1> DEFINE sent == [type |-> "Forward", command |-> cmd]
<1>1. sent \in Message
  BY DEF Message
<1>2. MessageEntries(sent) = {}
  BY <1>1, EntriesOfMessage
<1>3. /\ net' = Emit(n, i, Unicast(ForwardTo(i), sent))
      /\ UNCHANGED <<voteVars, leadVars, logVars>>
  BY DEF SubmitCommand
<1>4. NetQuiet
  <2>1. sent.type # "Promise"
    OBVIOUS
  <2> HIDE DEF sent
  <2> QED
    BY <1>1, <1>2, <1>3, <2>1, NetSent
<1>5. VotesQuiet /\ LogsQuiet
  BY <1>3, VotesUnchanged, LogsUnchanged
<1>6. UNCHANGED <<election_round, prepare, proposals>>
  BY <1>3 DEF leadVars
<1> QED
  BY <1>4, <1>5, <1>6, QuietParts

\* The heartbeat loop is quiet.
LEMMA BroadcastHeartbeatQuiet ==
  ASSUME TypeOK, NEW i \in Node, BroadcastHeartbeat(i)
  PROVE  Quiet
<1> DEFINE beat == [type |-> "Heartbeat", ballot |-> active_ballot[i],
                    committed |-> CommitIndex(i)]
<1>1. active_ballot[i] \in Ballot /\ CommitIndex(i) \in 0..MaxSlot
  BY BoundAssumption DEF TypeOK, CommitIndex, BroadcastHeartbeat
<1>2. beat \in Message
  BY <1>1 DEF Message
<1>3. MessageEntries(beat) = {} /\ beat.type # "Promise"
  BY <1>2, EntriesOfMessage
<1>4. /\ net' = Emit(net, i, Broadcast(<<beat>>))
      /\ UNCHANGED <<voteVars, leadVars, logVars, submits>>
  BY DEF BroadcastHeartbeat
<1>5. NetQuiet
  <2> HIDE DEF beat
  <2>1. net \in [Channel -> Seq(Message)]
    BY DEF TypeOK
  <2>2. Added(net', net, i, beat)
    BY <1>2, <1>4, <2>1, BroadcastOneType
  <2> QED
    BY <1>3, <2>2 DEF Added, NetQuiet
<1>6. VotesQuiet /\ LogsQuiet
  BY <1>4, VotesUnchanged, LogsUnchanged
<1>7. UNCHANGED <<election_round, prepare, proposals>> /\ submits' \in [Command -> 0..MaxSubmits]
  BY <1>4 DEF leadVars, TypeOK
<1> QED
  BY <1>5, <1>6, <1>7, QuietParts

(***************************************************************************)
(* The steps that are not quiet: an election starts, a promise is          *)
(* collected, a leader proposes or commits.                                *)
(***************************************************************************)

\* Only old messages, and messages that promise nothing.
NoPromiseAdded ==
  \A c \in Channel : \A x \in Range(net'[c]) : x \in Range(net[c]) \/ x.type # "Promise"

\* What an election leaves: a ballot of the node's own that is new.
Starts(i) ==
  /\ TypeOK' /\ NoPromiseAdded /\ Entries' \subseteq Entries
  /\ i \in Candidate /\ ~is_leader[i] /\ UNCHANGED <<is_leader, proposals, next_slot>>
  /\ \A k \in Node : promised_ballot'[k] >= promised_ballot[k]
  /\ \A k \in Node \ {i} : active_ballot'[k] = active_ballot[k] /\ prepare'[k] = prepare[k]
  /\ prepare'[i].ballot > promised_ballot[i]
  /\ prepare'[i].ballot = promised_ballot'[i]
  /\ Owner(prepare'[i].ballot) = i
  /\ prepare'[i].from = {i} /\ ~prepare'[i].completed

\* maybe_start_election begins such an election.
LEMMA StartElectionEffect ==
  ASSUME TypeOK, NEW i \in Node, StartElection(i)
  PROVE  Starts(i)
<1> DEFINE r  == election_round[i] + 1
           b  == ElectionBallot(i, r)
           es == CollectAcceptedEntries(i)
           pr == [ballot |-> b, completed |-> FALSE, from |-> {i},
                  entries |-> [j \in Node |-> IF j = i THEN es ELSE {}]]
           ask == [type |-> "Prepare", ballot |-> b]
<1>1. /\ i \in Candidate /\ ~is_leader[i] /\ b < (MaxRound + 1) * 100
      /\ election_round' = [election_round EXCEPT ![i] = r]
      /\ promised_ballot' = [promised_ballot EXCEPT ![i] = b]
      /\ active_ballot' = [active_ballot EXCEPT ![i] = b]
      /\ prepare' = [prepare EXCEPT ![i] = pr]
      /\ net' = Emit(net, i, Broadcast(<<ask>>))
      /\ UNCHANGED <<is_leader, proposals, logVars, submits>>
  BY DEF StartElection
<1>2. r \in Nat \ {0} /\ promised_ballot[i] \in Ballot \cup {-1}
  BY BoundAssumption DEF TypeOK
<1>3. b \in Ballot /\ Owner(b) = i /\ b > promised_ballot[i] /\ r <= MaxRound
  <2> HIDE DEF r
  <2> QED
    BY <1>1, <1>2, ElectionBallotIsNew
<1>4. es \in SUBSET RecoveredEntry /\ es \subseteq Entries
  BY CollectType DEF Entries
<1>5. /\ pr \in PrepareState
      /\ pr.ballot = b /\ pr.from = {i} /\ ~pr.completed
      /\ \A j \in Node : pr.entries[j] \subseteq Entries
  <2> HIDE DEF b, es
  <2> QED
    BY <1>3, <1>4 DEF PrepareState
<1>6. ask \in Message /\ MessageEntries(ask) = {} /\ ask.type = "Prepare"
  <2>1. ask \in Message
    BY <1>3 DEF Message
  <2> QED
    BY <2>1, EntriesOfMessage
<1> HIDE DEF r, b, es, pr, ask
<1>7. Added(net', net, i, ask)
  BY <1>1, <1>6, BroadcastOneType DEF TypeOK
<1>8. \A k \in Node : promised_ballot'[k] >= promised_ballot[k]
  <2>1. b \in Int
    BY <1>3, BallotOwner
  <2>2. \A k \in Node : promised_ballot'[k] = IF k = i THEN b ELSE promised_ballot[k]
    BY <1>1 DEF TypeOK
  <2> QED
    BY <1>3, <2>1, <2>2, BallotsAreInts
<1>9. TypeOK'
  <2>1. /\ is_leader' \in [Node -> BOOLEAN]
        /\ active_ballot' \in [Node -> Ballot \cup {-1}]
        /\ promised_ballot' \in [Node -> Ballot \cup {-1}]
        /\ \A k \in Node : is_leader'[k] => active_ballot'[k] # -1
    BY <1>1, <1>3 DEF TypeOK
  <2>2. election_round' \in [Node -> 0..MaxRound]
    BY <1>1, <1>2, <1>3, BoundAssumption DEF TypeOK
  <2>3. prepare' \in [Node -> PrepareState]
    BY <1>1, <1>5 DEF TypeOK
  <2>4. net' \in [Channel -> Seq(Message)]
    BY <1>7 DEF Added
  <2> QED
    BY <1>1, <2>1, <2>2, <2>3, <2>4 DEF TypeOK, logVars, CommitIndex
<1>10. Entries' \subseteq Entries
  <2>1. \A k \in Node, s \in Slot : log'[k][s].ballot # -1 =>
          [slot |-> s, ballot |-> log'[k][s].ballot, command |-> log'[k][s].command] \in Entries
    BY <1>1, EntriesKnown DEF logVars
  <2>2. \A c \in Channel : \A x \in Range(net'[c]) : MessageEntries(x) \subseteq Entries
    BY <1>6, <1>7, EntriesKnown DEF Added
  <2>3. \A k, j \in Node : prepare'[k].entries[j] \subseteq Entries
    BY <1>1, <1>5, EntriesKnown DEF TypeOK
  <2> QED
    BY <2>1, <2>2, <2>3, EntriesCovered
<1>11. NoPromiseAdded
  BY <1>6, <1>7 DEF Added, NoPromiseAdded
<1>12. /\ prepare'[i] = pr /\ promised_ballot'[i] = b
       /\ \A k \in Node \ {i} : active_ballot'[k] = active_ballot[k] /\ prepare'[k] = prepare[k]
  BY <1>1 DEF TypeOK
<1> QED
  BY <1>1, <1>3, <1>5, <1>8, <1>9, <1>10, <1>11, <1>12 DEF logVars, Starts

\* What a leader at ballot b says when it proposes cmds.
Spoken(b, cmds) == {[slot |-> s, ballot |-> b, command |-> cmds[s]] : s \in DOMAIN cmds}

\* A proposal keeps the types, and adds just what it says.
LEMMA ProposeType ==
  ASSUME TypeOK, NEW i \in Node, NEW b \in Ballot,
         NEW D \in SUBSET Slot, NEW cmds \in [D -> Value],
         NEW n, Remaining(n), ProposeSlots(i, b, cmds, n),
         is_leader' \in [Node -> BOOLEAN],
         active_ballot' \in [Node -> Ballot \cup {-1}],
         promised_ballot' \in [Node -> Ballot \cup {-1}],
         \A k \in Node : is_leader'[k] => active_ballot'[k] # -1,
         next_slot' \in [Node -> 1..MaxSlot + 1],
         prepare' \in [Node -> PrepareState],
         \A k, j \in Node : prepare'[k].entries[j] \subseteq Entries,
         UNCHANGED election_round,
         submits' \in [Command -> 0..MaxSubmits]
  PROVE  /\ TypeOK' /\ NoPromiseAdded
         /\ Entries' \subseteq Entries \cup Spoken(b, cmds)
         /\ \A k \in Node \ {i} : proposals'[k] = proposals[k]
         /\ \A s \in D : proposals'[i][s] = NoProposal \/ proposals'[i][s].command = cmds[s]
         /\ \A s \in Slot \ D : proposals'[i][s] = proposals[i][s]
<1>1. n \in [Channel -> Seq(Message)]
  BY DEF Remaining
<1>2. /\ log' \in [Node -> [Slot -> AcceptedValue]]
      /\ LogOK(log'[i])
      /\ \A j \in Node \ {i} : log'[j] = log[j]
      /\ \A s \in D : log'[i][s].ballot = b /\ log'[i][s].command = cmds[s]
      /\ \A s \in Slot \ D : log'[i][s] = log[i][s]
      /\ proposals' \in [Node -> [Slot -> SlotProposal]]
      /\ \A j \in Node \ {i} : proposals'[j] = proposals[j]
      /\ \A s \in D : proposals'[i][s] = NoProposal \/ proposals'[i][s].command = cmds[s]
      /\ \A s \in Slot \ D : proposals'[i][s] = proposals[i][s]
      /\ AppliedOK(applied')
      /\ Announced(net', n, b, cmds)
  BY <1>1, ProposeSlotsEffect
<1>3. \A k \in Node : LogOK(log'[k])
  BY <1>2, LogsAreOK
<1>4. TypeOK'
  BY <1>2, <1>3 DEF Announced, TypeOK, LogOK, AppliedOK, CommitIndex
<1>5. NoPromiseAdded
  BY <1>2 DEF Announced, NoPromiseAdded, Remaining
<1>6. Entries' \subseteq Entries \cup Spoken(b, cmds)
  <2> DEFINE E == Entries \cup Spoken(b, cmds)
  <2>1. ASSUME NEW s \in D
        PROVE  [slot |-> s, ballot |-> b, command |-> cmds[s]] \in E
    BY DEF Spoken
  <2>2. \A k \in Node, s \in Slot : log'[k][s].ballot # -1 =>
          [slot |-> s, ballot |-> log'[k][s].ballot, command |-> log'[k][s].command] \in E
    <3> SUFFICES ASSUME NEW k \in Node, NEW s \in Slot, log'[k][s].ballot # -1
                 PROVE  [slot |-> s, ballot |-> log'[k][s].ballot,
                         command |-> log'[k][s].command] \in E
      OBVIOUS
    <3>1. CASE k = i /\ s \in D
      BY <1>2, <2>1, <3>1
    <3>2. CASE ~(k = i /\ s \in D)
      <4>1. log'[k][s] = log[k][s]
        BY <1>2, <3>2
      <4> QED
        BY <4>1, EntriesKnown
    <3> QED
      BY <3>1, <3>2
  <2>3. ASSUME NEW c \in Channel, NEW x \in Range(net'[c])
        PROVE  MessageEntries(x) \subseteq E
    <3>1. CASE x \in Range(n[c])
      BY <3>1, EntriesKnown DEF Remaining
    <3>2. CASE /\ x.type \in {"Accept", "Commit"}
               /\ x.ballot = b /\ x.slot \in D /\ x.command = cmds[x.slot]
      BY <2>1, <3>2 DEF MessageEntries
    <3> QED
      BY <1>2, <3>1, <3>2 DEF Announced
  <2>4. \A k, j \in Node : prepare'[k].entries[j] \subseteq E
    OBVIOUS
  <2> HIDE DEF E
  <2>5. Entries' \subseteq E
    BY <2>2, <2>3, <2>4, EntriesCovered
  <2> QED
    BY <2>5 DEF E
<1> QED
  BY <1>2, <1>4, <1>5, <1>6

\* A reply that is not counted is quiet, also if it makes the leader step down.
LEMMA OnAcceptedQuiet ==
  ASSUME TypeOK, NEW i \in Node, NEW j \in Node, NEW m \in Message, m.type = "Accepted",
         NEW n, Remaining(n), OnAccepted(i, j, m, n), UNCHANGED submits,
         ~(/\ is_leader[i]
           /\ m.ballot = active_ballot[i]
           /\ proposals[i][m.slot].accepts # {})
  PROVE  Quiet
<1>1. m.ballot \in Ballot
  BY MessageFields
<1>2. /\ net' = n
      /\ UNCHANGED <<log, applied, proposals, promised_ballot, election_round, prepare, next_slot>>
      /\ StepDownIfStale(i, m.ballot) \/ UNCHANGED <<is_leader, active_ballot>>
  BY DEF OnAccepted
<1>3. VotesQuiet
  <2>1. CASE StepDownIfStale(i, m.ballot)
    <3>1. /\ is_leader' \in [Node -> BOOLEAN]
          /\ active_ballot' \in [Node -> Ballot \cup {-1}]
          /\ \A k \in Node : is_leader'[k] =>
               is_leader[k] /\ active_ballot'[k] = active_ballot[k] /\ active_ballot[k] # -1
      BY <1>1, <2>1, StepDownType
    <3> QED
      BY <1>2, <3>1, BallotsAreInts DEF VotesQuiet, TypeOK
  <2>2. CASE UNCHANGED <<is_leader, active_ballot>>
    BY <1>2, <2>2, VotesUnchanged DEF voteVars
  <2> QED
    BY <1>2, <2>1, <2>2
<1>4. LogsQuiet /\ NetQuiet
  BY <1>2, LogsUnchanged, NetRemaining DEF logVars
<1>5. submits' \in [Command -> 0..MaxSubmits]
  BY DEF TypeOK
<1> QED
  BY <1>2, <1>3, <1>4, <1>5, QuietParts

\* What a counted reply leaves: leader i commits at most the command that was
\* proposed in slot s.
Counts(i, s) ==
  /\ TypeOK' /\ NoPromiseAdded /\ VotesQuiet /\ is_leader[i] /\ is_leader'[i]
  /\ Entries' \subseteq Entries \cup
       {[slot |-> s, ballot |-> active_ballot[i], command |-> proposals[i][s].command]}
  /\ UNCHANGED <<prepare, next_slot>>
  /\ proposals[i][s].accepts # {}
  /\ \A k \in Node \ {i} : proposals'[k] = proposals[k]
  /\ \A t \in Slot \ {s} : proposals'[i][t] = proposals[i][t]
  /\ \/ proposals'[i][s] = NoProposal
     \/ proposals'[i][s].command = proposals[i][s].command

\* on_accepted counts a reply of its own ballot for an open proposal.
LEMMA OnAcceptedCounted ==
  ASSUME TypeOK, NEW i \in Node, NEW j \in Node, NEW m \in Message, m.type = "Accepted",
         NEW n, Remaining(n), OnAccepted(i, j, m, n), UNCHANGED submits,
         is_leader[i], m.ballot = active_ballot[i], proposals[i][m.slot].accepts # {}
  PROVE  m.slot \in Slot /\ Counts(i, m.slot)
<1> DEFINE b     == active_ballot[i]
           cmd   == proposals[i][m.slot].command
           props == [proposals[i] EXCEPT ![m.slot].accepts = @ \cup {j}]
           done  == Committable(props, {m.slot})
           new   == [slot |-> m.slot, ballot |-> b, command |-> cmd]
           E     == Entries \cup {new}
<1>1. m.slot \in Slot /\ m.ballot \in Ballot /\ b \in Ballot
  BY MessageFields
<1>2. /\ CommitSlots(i, b, props, log[i], done)
      /\ \E commits \in SetToSeqs(CommitMessages(b, props, done)) :
           net' = Emit(n, i, Broadcast(commits))
      /\ StepDownIfStale(i, m.ballot)
      /\ UNCHANGED <<promised_ballot, election_round, prepare, next_slot>>
  BY DEF OnAccepted
<1>3. proposals[i] \in [Slot -> SlotProposal]
  BY DEF TypeOK
<1>4. /\ props \in [Slot -> SlotProposal]
      /\ props[m.slot].command = cmd
      /\ \A s \in Slot \ {m.slot} : props[s] = proposals[i][s]
  BY <1>1, <1>3 DEF SlotProposal
<1>5. done \subseteq {m.slot} /\ done \in SUBSET Slot
  BY <1>1 DEF Committable
<1> HIDE DEF props, done
<1>6. /\ log' \in [Node -> [Slot -> AcceptedValue]]
      /\ LogOK(log'[i])
      /\ \A k \in Node \ {i} : log'[k] = log[k]
      /\ \A s \in done : log'[i][s].ballot = b /\ log'[i][s].command = props[s].command
      /\ \A s \in Slot \ done : log'[i][s] = log[i][s]
      /\ proposals' \in [Node -> [Slot -> SlotProposal]]
      /\ \A k \in Node \ {i} : proposals'[k] = proposals[k]
      /\ \A s \in done : proposals'[i][s] = NoProposal
      /\ \A s \in Slot \ done : proposals'[i][s] = props[s]
      /\ AppliedOK(applied')
  BY <1>1, <1>2, <1>4, <1>5, LogsAreOK, CommitSlotsEffect
<1>7. /\ CommitMessages(b, props, done) \in SUBSET Message
      /\ IsFiniteSet(CommitMessages(b, props, done))
      /\ \A x \in CommitMessages(b, props, done) :
           /\ x.type = "Commit" /\ x.ballot = b /\ x.slot \in done
           /\ x.command = props[x.slot].command
  BY <1>1, <1>4, <1>5, CommitMessagesType
<1>8. \A x \in CommitMessages(b, props, done) : x.type = "Commit" /\ MessageEntries(x) \subseteq {new}
  BY <1>4, <1>5, <1>7 DEF MessageEntries
<1>9. Announced(net', n, b, [s \in done |-> cmd])
  <2>1. PICK commits \in SetToSeqs(CommitMessages(b, props, done)) :
          net' = Emit(n, i, Broadcast(commits))
    BY <1>2
  <2>2. commits \in Seq(Message) /\ Range(commits) \subseteq CommitMessages(b, props, done)
    BY <1>7, OrderType
  <2> DEFINE out == Broadcast(commits)
  <2>3. out \in [Node -> Seq(Message)] /\ \A k \in Node : Range(out[k]) = Range(commits)
    BY <2>2, BroadcastType
  <2>4. n \in [Channel -> Seq(Message)] /\ \A c \in Channel : c[2] \in Node
    BY DEF Remaining, Channel
  <2>5. net' = Emit(n, i, out)
    BY <2>1
  <2> HIDE DEF out
  <2>6. /\ net' \in [Channel -> Seq(Message)]
        /\ \A c \in Channel : \A x \in Range(net'[c]) :
             x \in Range(n[c]) \/ (c[1] = i /\ x \in Range(out[c[2]]))
    BY <2>3, <2>4, <2>5, EmitType
  <2>7. \A c \in Channel : \A x \in Range(net'[c]) :
          x \in Range(n[c]) \/ x \in CommitMessages(b, props, done)
    BY <2>2, <2>3, <2>4, <2>6
  <2>8. \A x \in CommitMessages(b, props, done) :
          x.type = "Commit" /\ x.ballot = b /\ x.slot \in done /\ x.command = cmd
    BY <1>4, <1>5, <1>7
  <2>9. Told(net', n)
    BY <2>1, <2>2, <2>8 DEF Told
  <2> QED
    BY <2>6, <2>7, <2>8, <2>9 DEF Announced
<1>10. VotesQuiet /\ is_leader'[i]
  <2>1. /\ is_leader' \in [Node -> BOOLEAN]
        /\ active_ballot' \in [Node -> Ballot \cup {-1}]
        /\ \A k \in Node : is_leader'[k] =>
             is_leader[k] /\ active_ballot'[k] = active_ballot[k] /\ active_ballot[k] # -1
    BY <1>1, <1>2, StepDownType
  <2>2. promised_ballot' = promised_ballot
    BY <1>2
  <2>3. is_leader'[i]
    BY <1>2, BallotsAreInts DEF StepDownIfStale, TypeOK
  <2>4. VotesQuiet
    BY <2>1, <2>2, BallotsAreInts DEF VotesQuiet, TypeOK
  <2> QED
    BY <2>3, <2>4
<1>11. TypeOK'
  <2>1. \A k \in Node : LogOK(log'[k])
    BY <1>6, LogsAreOK
  <2> QED
    BY <1>2, <1>6, <1>9, <1>10, <2>1
       DEF Announced, VotesQuiet, TypeOK, LogOK, AppliedOK, CommitIndex
<1>12. NoPromiseAdded
  BY <1>9 DEF Announced, NoPromiseAdded, Remaining
<1>13. Entries' \subseteq E
  <2>1. \A k \in Node, s \in Slot : log'[k][s].ballot # -1 =>
          [slot |-> s, ballot |-> log'[k][s].ballot, command |-> log'[k][s].command] \in E
    <3> SUFFICES ASSUME NEW k \in Node, NEW s \in Slot, log'[k][s].ballot # -1
                 PROVE  [slot |-> s, ballot |-> log'[k][s].ballot,
                         command |-> log'[k][s].command] \in E
      OBVIOUS
    <3>1. CASE k = i /\ s \in done
      BY <1>4, <1>5, <1>6, <3>1
    <3>2. CASE ~(k = i /\ s \in done)
      <4>1. log'[k][s] = log[k][s]
        BY <1>6, <3>2
      <4> QED
        BY <4>1, EntriesKnown
    <3> QED
      BY <3>1, <3>2
  <2>2. ASSUME NEW c \in Channel, NEW x \in Range(net'[c])
        PROVE  MessageEntries(x) \subseteq E
    <3>1. CASE x \in Range(n[c])
      BY <3>1, EntriesKnown DEF Remaining
    <3>2. CASE /\ x.type \in {"Accept", "Commit"}
               /\ x.ballot = b /\ x.slot \in done /\ x.command = cmd
      BY <1>5, <3>2 DEF MessageEntries
    <3> QED
      BY <1>9, <3>1, <3>2 DEF Announced
  <2>3. \A k, l \in Node : prepare'[k].entries[l] \subseteq E
    BY <1>2, EntriesKnown
  <2> HIDE DEF E
  <2> QED
    BY <2>1, <2>2, <2>3, EntriesCovered
<1>14. /\ \A s \in Slot \ {m.slot} : proposals'[i][s] = proposals[i][s]
       /\ \/ proposals'[i][m.slot] = NoProposal
          \/ proposals'[i][m.slot].command = proposals[i][m.slot].command
  BY <1>1, <1>4, <1>5, <1>6
<1> QED
  BY <1>1, <1>2, <1>6, <1>10, <1>11, <1>12, <1>13, <1>14 DEF Counts

\* What a submission leaves: leader i proposed cmd in slot s, not below its
\* next one.
Submits(i, s, cmd) ==
  /\ TypeOK' /\ NoPromiseAdded /\ is_leader[i]
  /\ UNCHANGED <<voteVars, prepare>>
  /\ Entries' \subseteq Entries \cup
       {[slot |-> s, ballot |-> active_ballot[i], command |-> cmd]}
  /\ s >= next_slot[i]
  /\ next_slot' = [next_slot EXCEPT ![i] = s + 1]
  /\ \A k \in Node \ {i} : proposals'[k] = proposals[k]
  /\ proposals'[i][s] = NoProposal \/ proposals'[i][s].command = cmd
  /\ \A t \in Slot \ {s} : proposals'[i][t] = proposals[i][t]

\* submit_client_command on a leader.
LEMMA LeaderSubmits ==
  ASSUME TypeOK, NEW i \in Node, NEW cmd \in Value, is_leader[i],
         NEW n, Remaining(n), SubmitCommand(i, cmd, n),
         submits' \in [Command -> 0..MaxSubmits]
  PROVE  \E s \in Slot : Submits(i, s, cmd)
<1>1. PICK s \in Slot :
        /\ IsNextFree(i, s)
        /\ next_slot' = [next_slot EXCEPT ![i] = s + 1]
        /\ ProposeSlots(i, active_ballot[i], [t \in {s} |-> cmd], n)
        /\ UNCHANGED <<voteVars, election_round, prepare>>
  BY DEF SubmitCommand
<1> DEFINE b    == active_ballot[i]
           cmds == [t \in {s} |-> cmd]
<1>2. b \in Ballot /\ {s} \in SUBSET Slot /\ cmds \in [{s} -> Value]
  BY DEF TypeOK
<1>3. /\ cmds[s] = cmd
      /\ Spoken(b, cmds) = {[slot |-> s, ballot |-> b, command |-> cmd]}
  BY DEF Spoken
<1>4. s >= next_slot[i]
  BY <1>1 DEF IsNextFree
<1>5. next_slot' \in [Node -> 1..MaxSlot + 1]
  BY <1>1, BoundAssumption DEF TypeOK, Slot
<1>6. /\ is_leader' \in [Node -> BOOLEAN]
      /\ active_ballot' \in [Node -> Ballot \cup {-1}]
      /\ promised_ballot' \in [Node -> Ballot \cup {-1}]
      /\ \A k \in Node : is_leader'[k] => active_ballot'[k] # -1
      /\ prepare' \in [Node -> PrepareState]
      /\ UNCHANGED election_round
  BY <1>1 DEF TypeOK, voteVars
<1>7. \A k, j \in Node : prepare'[k].entries[j] \subseteq Entries
  BY <1>1, EntriesKnown
<1>8. ProposeSlots(i, b, cmds, n)
  BY <1>1
<1> HIDE DEF cmds
<1>9. /\ TypeOK' /\ NoPromiseAdded
      /\ Entries' \subseteq Entries \cup Spoken(b, cmds)
      /\ \A k \in Node \ {i} : proposals'[k] = proposals[k]
      /\ \A t \in {s} : proposals'[i][t] = NoProposal \/ proposals'[i][t].command = cmds[t]
      /\ \A t \in Slot \ {s} : proposals'[i][t] = proposals[i][t]
  BY <1>2, <1>5, <1>6, <1>7, <1>8, ProposeType
<1> QED
  BY <1>1, <1>3, <1>4, <1>9 DEF Submits

\* prep is what i has collected, and the promise of j; done is the same, closed.
CollectedFrom(prep, i, j) ==
  /\ prep \in PrepareState
  /\ prep.ballot = prepare[i].ballot /\ prep.completed = prepare[i].completed
  /\ prep.from = prepare[i].from \cup {j}
  /\ \A k \in Node : prep.entries[k] \subseteq Entries

Closed(done, prep) ==
  /\ done \in PrepareState
  /\ done.ballot = prep.ballot /\ done.completed = TRUE
  /\ done.from = prep.from /\ done.entries = prep.entries

\* Collecting a promise adds its sender and its entries.
LEMMA CollectedPromise ==
  ASSUME TypeOK, NEW i \in Node, NEW j \in Node, NEW es \in SUBSET RecoveredEntry,
         es \subseteq Entries, NEW prep,
         prep = [prepare[i] EXCEPT !.from = @ \cup {j}, !.entries[j] = es]
  PROVE  CollectedFrom(prep, i, j) /\ Closed([prep EXCEPT !.completed = TRUE], prep)
<1>1. prepare[i] \in PrepareState
  BY DEF TypeOK
<1>2. /\ prep.ballot = prepare[i].ballot /\ prep.completed = prepare[i].completed
      /\ prep.from = prepare[i].from \cup {j}
      /\ prep.entries = [prepare[i].entries EXCEPT ![j] = es]
      /\ prep = [ballot |-> prep.ballot, completed |-> prep.completed,
                 from |-> prep.from, entries |-> prep.entries]
  BY <1>1 DEF PrepareState
<1>3. /\ prepare[i].ballot \in Ballot \cup {-1} /\ prepare[i].completed \in BOOLEAN
      /\ prepare[i].from \in SUBSET Node
      /\ prepare[i].entries \in [Node -> SUBSET RecoveredEntry]
  BY <1>1 DEF PrepareState
<1>4. \A k \in Node : prepare[i].entries[k] \subseteq Entries
  BY EntriesKnown
<1>5. /\ prep.from \in SUBSET Node
      /\ prep.entries \in [Node -> SUBSET RecoveredEntry]
      /\ \A k \in Node : prep.entries[k] \subseteq Entries
  BY <1>2, <1>3, <1>4
<1>6. prep \in PrepareState
  BY <1>2, <1>3, <1>5 DEF PrepareState
<1>7. /\ [prep EXCEPT !.completed = TRUE] \in PrepareState
      /\ [prep EXCEPT !.completed = TRUE].ballot = prep.ballot
      /\ [prep EXCEPT !.completed = TRUE].completed = TRUE
      /\ [prep EXCEPT !.completed = TRUE].from = prep.from
      /\ [prep EXCEPT !.completed = TRUE].entries = prep.entries
  BY <1>6 DEF PrepareState
<1> QED
  BY <1>2, <1>5, <1>6, <1>7 DEF CollectedFrom, Closed

\* What a promise m of j leaves that does not complete a quorum: it may be
\* collected, or make the node follow the ballot it was refused for.
Collects(i, j, m) ==
  /\ TypeOK' /\ NoPromiseAdded /\ VotesQuiet
  /\ Entries' \subseteq Entries
  /\ UNCHANGED <<promised_ballot, proposals, next_slot>>
  /\ \A k \in Node \ {i} : prepare'[k] = prepare[k]
  /\ prepare'[i].ballot = prepare[i].ballot
  /\ prepare'[i].completed = prepare[i].completed
  /\ \/ prepare'[i].from = prepare[i].from
     \/ /\ m.type = "Promise" /\ m.ok /\ m.ballot = prepare[i].ballot
        /\ ~prepare[i].completed
        /\ prepare'[i].from = prepare[i].from \cup {j}

\* on_promise before the quorum is reached, or after.
LEMMA PromiseCollected ==
  ASSUME TypeOK, NEW i \in Node, NEW j \in Node, NEW m \in Message, m.type = "Promise",
         MessageEntries(m) \subseteq Entries,
         NEW n, Remaining(n), OnPromise(i, j, m, n), UNCHANGED submits,
         ~(/\ ~prepare[i].completed /\ prepare[i].ballot = m.ballot /\ m.ok
           /\ Cardinality(prepare[i].from \cup {j}) >= Quorum)
  PROVE  Collects(i, j, m)
<1> DEFINE prep == [prepare[i] EXCEPT !.from = @ \cup {j}, !.entries[j] = m.entries]
           open == ~prepare[i].completed /\ prepare[i].ballot = m.ballot
<1>1. m.ballot \in Ballot /\ m.entries \in SUBSET RecoveredEntry /\ m.entries \subseteq Entries
  BY MessageFields, EntriesOfMessage
<1>2. CollectedFrom(prep, i, j)
  BY <1>1, CollectedPromise
<1>3. /\ IF open /\ m.ok THEN prepare' = [prepare EXCEPT ![i] = prep] ELSE UNCHANGED prepare
      /\ StepDownIfStale(i, m.ballot) \/ UNCHANGED <<is_leader, active_ballot>>
      /\ net' = n
      /\ UNCHANGED <<promised_ballot, election_round, proposals, logVars>>
  BY <1>2 DEF OnPromise, CollectedFrom
<1> HIDE DEF prep
<1>4. VotesQuiet
  <2>1. CASE StepDownIfStale(i, m.ballot)
    <3>1. /\ is_leader' \in [Node -> BOOLEAN]
          /\ active_ballot' \in [Node -> Ballot \cup {-1}]
          /\ \A k \in Node : is_leader'[k] =>
               is_leader[k] /\ active_ballot'[k] = active_ballot[k] /\ active_ballot[k] # -1
      BY <1>1, <2>1, StepDownType
    <3> QED
      BY <1>3, <3>1, BallotsAreInts DEF VotesQuiet, TypeOK
  <2>2. CASE UNCHANGED <<is_leader, active_ballot>>
    BY <1>3, <2>2, VotesUnchanged DEF voteVars
  <2> QED
    BY <1>3, <2>1, <2>2
<1>5. /\ prepare' \in [Node -> PrepareState]
      /\ \A k \in Node \ {i} : prepare'[k] = prepare[k]
      /\ prepare'[i] = prepare[i] \/ (open /\ m.ok /\ prepare'[i] = prep)
  BY <1>2, <1>3 DEF TypeOK, CollectedFrom
<1>6. TypeOK'
  BY <1>3, <1>4, <1>5 DEF VotesQuiet, TypeOK, logVars, Remaining, CommitIndex
<1>7. NoPromiseAdded
  BY <1>3 DEF NoPromiseAdded, Remaining
<1>8. Entries' \subseteq Entries
  <2>1. \A k \in Node, s \in Slot : log'[k][s].ballot # -1 =>
          [slot |-> s, ballot |-> log'[k][s].ballot, command |-> log'[k][s].command] \in Entries
    BY <1>3, EntriesKnown DEF logVars
  <2>2. \A c \in Channel : \A x \in Range(net'[c]) : MessageEntries(x) \subseteq Entries
    BY <1>3, EntriesKnown DEF Remaining
  <2>3. \A k, l \in Node : prepare'[k].entries[l] \subseteq Entries
    BY <1>2, <1>5, EntriesKnown DEF CollectedFrom
  <2> QED
    BY <2>1, <2>2, <2>3, EntriesCovered
<1> QED
  BY <1>2, <1>3, <1>4, <1>5, <1>6, <1>7, <1>8 DEF logVars, CollectedFrom, Collects

\* What the winner of ballot b speaks: commands cmds in the slots of D, each
\* of which somebody said of that slot before, all of them below its next
\* slot, which only grows.
Recovers(i, b, D, cmds) ==
  /\ D \in SUBSET Slot /\ cmds \in [D -> Value]
  /\ Entries' \subseteq Entries \cup Spoken(b, cmds)
  /\ next_slot'[i] >= next_slot[i]
  /\ \A s \in D : /\ s < next_slot'[i]
                  /\ proposals'[i][s] = NoProposal \/ proposals'[i][s].command = cmds[s]
                  /\ \E e \in Entries : e.slot = s /\ e.command = cmds[s]
  /\ \A s \in Slot \ D : proposals'[i][s] = proposals[i][s]

\* What the promise m of j leaves that completes the quorum: the node leads
\* the ballot it prepared.
Wins(i, j, m) ==
  /\ TypeOK' /\ NoPromiseAdded
  /\ m.type = "Promise" /\ m.ok /\ m.ballot \in Ballot
  /\ ~prepare[i].completed /\ prepare[i].ballot = m.ballot
  /\ Cardinality(prepare[i].from \cup {j}) >= Quorum
  /\ is_leader' = [is_leader EXCEPT ![i] = TRUE]
  /\ active_ballot' = [active_ballot EXCEPT ![i] = m.ballot]
  /\ \A k \in Node : promised_ballot'[k] >= promised_ballot[k]
  /\ \A k \in Node \ {i} : /\ prepare'[k] = prepare[k]
                           /\ proposals'[k] = proposals[k]
                           /\ next_slot'[k] = next_slot[k]
  /\ prepare'[i].ballot = m.ballot /\ prepare'[i].completed
  /\ prepare'[i].from = prepare[i].from \cup {j}
  /\ \E D, cmds : Recovers(i, m.ballot, D, cmds)

\* What become_leader proposes: some commands, in slots of the log.
LEMMA BecomeLeaderProposes ==
  ASSUME TypeOK, NEW i \in Node, NEW j \in Node, NEW es \in SUBSET RecoveredEntry,
         NEW b, NEW prep, NEW n,
         prep = [prepare[i] EXCEPT !.from = @ \cup {j}, !.entries[j] = es],
         BecomeLeader(i, b, prep, n)
  PROVE  \E D \in SUBSET Slot : \E cmds \in [D -> Value] : ProposeSlots(i, b, cmds, n)
<1> DEFINE reported == UNION {prep.entries[k] : k \in prep.from}
           slots == {e.slot : e \in reported}
<1>1. prep.entries \in [Node -> SUBSET RecoveredEntry] /\ prep.from \in SUBSET Node
  <2>1. prepare[i] \in PrepareState
    BY DEF TypeOK
  <2> QED
    BY <2>1 DEF PrepareState
<1>2. reported \subseteq RecoveredEntry
  BY <1>1
<1>3. slots \in SUBSET Slot
  BY <1>2 DEF RecoveredEntry
<1>4. \E chosen \in [slots -> reported] :
        ProposeSlots(i, b, [s \in slots |-> chosen[s].command], n)
  BY DEF BecomeLeader
<1> HIDE DEF reported, slots
<1>5. PICK chosen \in [slots -> reported] :
        ProposeSlots(i, b, [s \in slots |-> chosen[s].command], n)
  BY <1>4
<1>6. [s \in slots |-> chosen[s].command] \in [slots -> Value]
  BY <1>2 DEF RecoveredEntry
<1> QED
  BY <1>3, <1>5, <1>6

\* on_promise when the quorum is reached, with become_leader.
LEMMA PromiseWins ==
  ASSUME TypeOK, NEW i \in Node, NEW j \in Node, NEW m \in Message, m.type = "Promise",
         MessageEntries(m) \subseteq Entries,
         NEW n, Remaining(n), OnPromise(i, j, m, n), UNCHANGED submits,
         ~prepare[i].completed, prepare[i].ballot = m.ballot, m.ok,
         Cardinality(prepare[i].from \cup {j}) >= Quorum
  PROVE  Wins(i, j, m)
<1> DEFINE prep == [prepare[i] EXCEPT !.from = @ \cup {j}, !.entries[j] = m.entries]
           done == [prep EXCEPT !.completed = TRUE]
           b    == m.ballot
<1>1. m.ballot \in Ballot /\ m.entries \in SUBSET RecoveredEntry /\ m.entries \subseteq Entries
  BY MessageFields, EntriesOfMessage
<1>2. CollectedFrom(prep, i, j) /\ Closed(done, prep)
  BY <1>1, CollectedPromise
<1>3. /\ prepare' = [prepare EXCEPT ![i] = done]
      /\ BecomeLeader(i, b, prep, n)
      /\ UNCHANGED election_round
  BY <1>2 DEF OnPromise, CollectedFrom
<1> HIDE DEF prep, done
<1> DEFINE reported == UNION {prep.entries[k] : k \in prep.from}
           slots == {e.slot : e \in reported}
           tops  == {next_slot[i]} \cup {s + 1 : s \in slots}
<1>4. /\ is_leader' = [is_leader EXCEPT ![i] = TRUE]
      /\ active_ballot' = [active_ballot EXCEPT ![i] = b]
      /\ promised_ballot' = [promised_ballot EXCEPT ![i] = MaxOf(@, b)]
      /\ \E top \in tops :
           /\ \A t \in tops : t <= top
           /\ next_slot' = [next_slot EXCEPT ![i] = top]
      /\ \E chosen \in [slots -> reported] :
           /\ \A s \in slots :
                /\ chosen[s].slot = s
                /\ \A e \in reported : e.slot = s => e.ballot <= chosen[s].ballot
           /\ ProposeSlots(i, b, [s \in slots |-> chosen[s].command], n)
  BY <1>3 DEF BecomeLeader
<1>5. reported \subseteq RecoveredEntry
  BY <1>2 DEF CollectedFrom, PrepareState
<1>6. slots \in SUBSET Slot
  BY <1>5 DEF RecoveredEntry
<1> HIDE DEF reported, slots
<1>7. PICK chosen \in [slots -> reported] :
        /\ \A s \in slots : chosen[s].slot = s
        /\ ProposeSlots(i, b, [s \in slots |-> chosen[s].command], n)
  BY <1>4
<1> DEFINE cmds == [s \in slots |-> chosen[s].command]
<1>8. cmds \in [slots -> Value]
  BY <1>5 DEF RecoveredEntry
<1>9. /\ ProposeSlots(i, b, cmds, n)
      /\ \A s \in slots : chosen[s].slot = s /\ cmds[s] = chosen[s].command
  BY <1>7
<1> HIDE DEF cmds
<1>10. /\ next_slot' \in [Node -> 1..MaxSlot + 1]
       /\ next_slot'[i] >= next_slot[i]
       /\ \A s \in slots : s < next_slot'[i]
       /\ \A k \in Node \ {i} : next_slot'[k] = next_slot[k]
  <2>1. next_slot \in [Node -> 1..MaxSlot + 1] /\ MaxSlot \in Nat
    BY BoundAssumption DEF TypeOK
  <2>2. tops \subseteq 1..MaxSlot + 1
    BY <1>6, <2>1 DEF Slot
  <2>3. PICK top \in tops : /\ \A t \in tops : t <= top
                            /\ next_slot' = [next_slot EXCEPT ![i] = top]
    BY <1>4
  <2>4. top \in 1..MaxSlot + 1 /\ next_slot[i] <= top
    BY <2>2, <2>3
  <2>5. ASSUME NEW s \in slots PROVE s < top
    <3>1. s + 1 <= top
      BY <2>3
    <3> QED
      BY <1>6, <2>1, <2>4, <3>1 DEF Slot
  <2> HIDE DEF tops
  <2> QED
    BY <2>1, <2>3, <2>4, <2>5
<1>11. /\ promised_ballot' \in [Node -> Ballot \cup {-1}]
       /\ \A k \in Node : promised_ballot'[k] >= promised_ballot[k]
  <2> DEFINE p == MaxOf(promised_ballot[i], b)
  <2>1. b \in Int /\ promised_ballot[i] \in Ballot \cup {-1}
    BY <1>1, BallotOwner DEF TypeOK
  <2>2. p \in Ballot \cup {-1} /\ p >= promised_ballot[i]
    BY <1>1, <2>1, BallotsAreInts DEF MaxOf
  <2>3. promised_ballot' = [promised_ballot EXCEPT ![i] = p]
    BY <1>4
  <2> HIDE DEF p
  <2>4. \A k \in Node : promised_ballot'[k] = IF k = i THEN p ELSE promised_ballot[k]
    BY <2>3 DEF TypeOK
  <2> QED
    <3>1. promised_ballot' \in [Node -> Ballot \cup {-1}]
      BY <2>2, <2>3 DEF TypeOK
    <3>2. \A k \in Node : promised_ballot'[k] >= promised_ballot[k]
      BY <2>2, <2>4, BallotsAreInts
    <3> QED
      BY <3>1, <3>2
<1>12. /\ is_leader' \in [Node -> BOOLEAN]
       /\ active_ballot' \in [Node -> Ballot \cup {-1}]
       /\ \A k \in Node : is_leader'[k] => active_ballot'[k] # -1
  BY <1>1, <1>4, BallotOwner DEF TypeOK
<1>13. /\ prepare' \in [Node -> PrepareState]
       /\ prepare'[i] = done
       /\ \A k \in Node \ {i} : prepare'[k] = prepare[k]
  BY <1>2, <1>3 DEF Closed, TypeOK
<1>14. \A k, l \in Node : prepare'[k].entries[l] \subseteq Entries
  BY <1>2, <1>13, EntriesKnown DEF CollectedFrom, Closed
<1>15. submits' \in [Command -> 0..MaxSubmits] /\ UNCHANGED election_round
  BY <1>3 DEF TypeOK
<1>16. /\ TypeOK' /\ NoPromiseAdded
       /\ Entries' \subseteq Entries \cup Spoken(b, cmds)
       /\ \A k \in Node \ {i} : proposals'[k] = proposals[k]
       /\ \A s \in slots : proposals'[i][s] = NoProposal \/ proposals'[i][s].command = cmds[s]
       /\ \A s \in Slot \ slots : proposals'[i][s] = proposals[i][s]
  BY <1>1, <1>6, <1>8, <1>9, <1>10, <1>11, <1>12, <1>13, <1>14, <1>15, ProposeType
<1>17. \A s \in slots : \E e \in Entries : e.slot = s /\ e.command = cmds[s]
  <2>1. reported \subseteq Entries
    BY <1>2 DEF CollectedFrom, PrepareState, reported
  <2> QED
    BY <1>9, <2>1
<1>18. Recovers(i, b, slots, cmds)
  BY <1>6, <1>8, <1>10, <1>16, <1>17 DEF Recovers
<1> QED
  BY <1>1, <1>2, <1>4, <1>10, <1>11, <1>13, <1>16, <1>18 DEF CollectedFrom, Closed, Wins

\* What a step leaves that proposes nothing new.
Repeats ==
  \/ Quiet
  \/ \E i \in Node : Starts(i)
  \/ \E i, j \in Node : \E m \in Range(net[<<j, i>>]) : Collects(i, j, m) \/ Wins(i, j, m)
  \/ \E i \in Node, s \in Slot : Counts(i, s)

\* The message i takes: it is well-formed and what it tells is known.
LEMMA ReceivedMessage ==
  ASSUME TypeOK, NEW i \in Node, NEW j \in Node, NEW k \in Deliverable(<<j, i>>)
  PROVE  /\ <<j, i>> \in Channel /\ k \in DOMAIN net[<<j, i>>]
         /\ Remaining(Taken(<<j, i>>, k))
         /\ net[<<j, i>>][k] \in Message
         /\ net[<<j, i>>][k] \in Range(net[<<j, i>>])
         /\ MessageEntries(net[<<j, i>>][k]) \subseteq Entries
<1> DEFINE c == <<j, i>>
<1>1. c \in Channel /\ k \in DOMAIN net[c]
  BY DEF Channel, Deliverable
<1> HIDE DEF c
<1>2. /\ Taken(c, k) \in [Channel -> Seq(Message)]
      /\ \A d \in Channel : \A x \in Range(Taken(c, k)[d]) : x \in Range(net[d])
      /\ net[c][k] \in Message /\ net[c][k] \in Range(net[c])
  BY <1>1, TakenType DEF TypeOK
<1>3. Remaining(Taken(c, k))
  BY <1>2 DEF Remaining
<1>4. MessageEntries(net[c][k]) \subseteq Entries
  BY <1>1, <1>2, EntriesKnown
<1> QED
  BY <1>1, <1>2, <1>3, <1>4 DEF c

\* A message other than a forwarded command.
LEMMA ReceiveRepeats ==
  ASSUME TypeOK, NEW i \in Node, NEW j \in Node, NEW k \in Deliverable(<<j, i>>),
         Receive(j, i, k), net[<<j, i>>][k].type # "Forward"
  PROVE  Repeats
<1> DEFINE m == net[<<j, i>>][k]
           n == Taken(<<j, i>>, k)
<1>1. /\ Remaining(n) /\ m \in Message /\ m \in Range(net[<<j, i>>])
      /\ MessageEntries(m) \subseteq Entries
  BY ReceivedMessage
<1>2. UNCHANGED submits
  BY DEF Receive, OnMessage
<1>3. \/ m.type = "Prepare"     /\ OnPrepare(i, j, m, n)
      \/ m.type = "Promise"     /\ OnPromise(i, j, m, n)
      \/ m.type = "Accept"      /\ OnAcceptRequest(i, j, m, n)
      \/ m.type = "Accepted"    /\ OnAccepted(i, j, m, n)
      \/ m.type = "Commit"      /\ OnCommit(i, j, m, n)
      \/ m.type = "Heartbeat"   /\ OnHeartbeat(i, j, m, n)
      \/ m.type = "SyncRequest" /\ OnSyncRequest(i, j, m, n)
      \/ m.type = "SyncData"    /\ OnSyncData(i, j, m, n)
  BY DEF Receive, OnMessage
<1> HIDE DEF m, n
<1>4. CASE m.type = "Prepare" /\ OnPrepare(i, j, m, n)
  BY <1>1, <1>2, <1>4, OnPrepareQuiet DEF Repeats
<1>5. CASE m.type = "Promise" /\ OnPromise(i, j, m, n)
  <2> DEFINE won == /\ ~prepare[i].completed /\ prepare[i].ballot = m.ballot /\ m.ok
                    /\ Cardinality(prepare[i].from \cup {j}) >= Quorum
  <2>1. CASE won
    <3>1. Wins(i, j, m)
      BY <1>1, <1>2, <1>5, <2>1, PromiseWins
    <3> QED
      BY <1>1, <3>1 DEF Repeats
  <2>2. CASE ~won
    <3>1. Collects(i, j, m)
      BY <1>1, <1>2, <1>5, <2>2, PromiseCollected
    <3> QED
      BY <1>1, <3>1 DEF Repeats
  <2> QED
    BY <2>1, <2>2
<1>6. CASE m.type = "Accept" /\ OnAcceptRequest(i, j, m, n)
  BY <1>1, <1>2, <1>6, OnAcceptRequestQuiet DEF Repeats
<1>7. CASE m.type = "Accepted" /\ OnAccepted(i, j, m, n)
  <2> DEFINE counted == /\ is_leader[i]
                        /\ m.ballot = active_ballot[i]
                        /\ proposals[i][m.slot].accepts # {}
  <2>1. CASE counted
    <3>1. m.slot \in Slot /\ Counts(i, m.slot)
      BY <1>1, <1>2, <1>7, <2>1, OnAcceptedCounted
    <3> QED
      BY <3>1 DEF Repeats
  <2>2. CASE ~counted
    BY <1>1, <1>2, <1>7, <2>2, OnAcceptedQuiet DEF Repeats
  <2> QED
    BY <2>1, <2>2
<1>8. CASE m.type = "Commit" /\ OnCommit(i, j, m, n)
  BY <1>1, <1>2, <1>8, OnCommitQuiet DEF Repeats
<1>9. CASE m.type = "Heartbeat" /\ OnHeartbeat(i, j, m, n)
  BY <1>1, <1>2, <1>9, OnHeartbeatQuiet DEF Repeats
<1>10. CASE m.type = "SyncRequest" /\ OnSyncRequest(i, j, m, n)
  BY <1>1, <1>2, <1>10, OnSyncRequestQuiet DEF Repeats
<1>11. CASE m.type = "SyncData" /\ OnSyncData(i, j, m, n)
  BY <1>1, <1>2, <1>11, OnSyncDataQuiet DEF Repeats
<1> QED
  BY <1>3, <1>4, <1>5, <1>6, <1>7, <1>8, <1>9, <1>10, <1>11

\* The two ways a step can go about a command: a client's or a forwarded one.
Submission(i, cmd, n) ==
  /\ cmd \in Value /\ Remaining(n)
  /\ SubmitCommand(i, cmd, n)
  /\ submits' \in [Command -> 0..MaxSubmits]

\* A step repeats what is known, or is a submission: a client's, or the one a
\* forwarded command leads to.
LEMMA StepSubmits ==
  ASSUME TypeOK, Next
  PROVE  \/ Repeats
         \/ \E i \in Node, cmd \in Command :
              /\ Submission(i, cmd, net)
              /\ submits' = [submits EXCEPT ![cmd] = @ + 1]
         \/ \E i, j \in Node : \E k \in Deliverable(<<j, i>>) :
              /\ net[<<j, i>>][k].type = "Forward"
              /\ Submission(i, net[<<j, i>>][k].command, Taken(<<j, i>>, k))
              /\ UNCHANGED submits
<1> DEFINE Goal ==
             \/ Repeats
             \/ \E i \in Node, cmd \in Command :
                  /\ Submission(i, cmd, net)
                  /\ submits' = [submits EXCEPT ![cmd] = @ + 1]
             \/ \E i, j \in Node : \E k \in Deliverable(<<j, i>>) :
                  /\ net[<<j, i>>][k].type = "Forward"
                  /\ Submission(i, net[<<j, i>>][k].command, Taken(<<j, i>>, k))
                  /\ UNCHANGED submits
<1>1. ASSUME NEW i \in Node, StartElection(i) PROVE Goal
  BY <1>1, StartElectionEffect DEF Repeats
<1>2. ASSUME NEW i \in Node, SendHeartbeat(i) PROVE Goal
  BY <1>2, BroadcastHeartbeatQuiet DEF SendHeartbeat, Repeats
<1>3. ASSUME NEW i \in Node, NEW cmd \in Command, ClientSubmit(i, cmd) PROVE Goal
  <2>1. SubmitCommand(i, cmd, net) /\ submits' = [submits EXCEPT ![cmd] = @ + 1]
    BY <1>3 DEF ClientSubmit
  <2>2. submits' \in [Command -> 0..MaxSubmits]
    BY <1>3, BoundAssumption DEF ClientSubmit, TypeOK
  <2>3. Remaining(net) /\ cmd \in Value
    BY DEF Remaining, TypeOK, Value
  <2>4. Submission(i, cmd, net)
    BY <2>1, <2>2, <2>3 DEF Submission
  <2> QED
    BY <2>1, <2>4
<1>4. ASSUME NEW i \in Node, NEW j \in Node, NEW k \in Deliverable(<<j, i>>), Receive(j, i, k)
      PROVE  Goal
  <2> DEFINE m == net[<<j, i>>][k]
             n == Taken(<<j, i>>, k)
  <2>1. CASE m.type # "Forward"
    BY <1>4, <2>1, ReceiveRepeats
  <2>2. CASE m.type = "Forward"
    <3>1. OnForwardRequest(i, j, m, n) /\ UNCHANGED submits
      BY <1>4, <2>2 DEF Receive, OnMessage
    <3>2. Remaining(n) /\ m \in Message
      BY ReceivedMessage
    <3>3. m.command \in Value
      BY <2>2, <3>2, MessageFields
    <3>4. SubmitCommand(i, m.command, n) /\ submits' \in [Command -> 0..MaxSubmits]
      BY <3>1 DEF OnForwardRequest, TypeOK
    <3>5. Submission(i, m.command, n)
      BY <3>2, <3>3, <3>4 DEF Submission
    <3> QED
      BY <2>2, <3>1, <3>5
  <2> QED
    BY <2>1, <2>2
<1> HIDE DEF Goal
<1>5. Goal
  BY <1>1, <1>2, <1>3, <1>4 DEF Next
<1> QED
  BY <1>5 DEF Goal

\* Where a submission ends: at a node that does not lead it changes nothing but
\* the network, a leader proposes it.
LEMMA SubmissionKinds ==
  ASSUME TypeOK, NEW i \in Node, NEW cmd, NEW n, Submission(i, cmd, n)
  PROVE  Quiet \/ \E s \in Slot : Submits(i, s, cmd)
<1>1. CASE is_leader[i]
  BY <1>1, LeaderSubmits DEF Submission
<1>2. CASE ~is_leader[i]
  BY <1>2, ForwardQuiet DEF Submission
<1> QED
  BY <1>1, <1>2

\* A step is quiet, or one of these.
LEMMA StepKinds ==
  ASSUME TypeOK, Next
  PROVE  \/ Quiet
         \/ \E i \in Node : Starts(i)
         \/ \E i, j \in Node : \E m \in Range(net[<<j, i>>]) : Collects(i, j, m) \/ Wins(i, j, m)
         \/ \E i \in Node, s \in Slot : Counts(i, s)
         \/ \E i \in Node, s \in Slot, cmd \in Value : Submits(i, s, cmd)
<1>1. ASSUME NEW i \in Node, NEW cmd, NEW n, Submission(i, cmd, n)
      PROVE  Quiet \/ \E s \in Slot, v \in Value : Submits(i, s, v)
  <2>1. cmd \in Value
    BY <1>1 DEF Submission
  <2> QED
    BY <1>1, <2>1, SubmissionKinds
<1>2. Repeats \/ \E i \in Node : \E cmd, n : Submission(i, cmd, n)
  BY StepSubmits
<1>3. Repeats \/ Quiet \/ \E i \in Node, s \in Slot, cmd \in Value : Submits(i, s, cmd)
  BY <1>1, <1>2
<1> QED
  BY <1>3 DEF Repeats

(***************************************************************************)
(* Types.                                                                  *)
(***************************************************************************)

\* An empty cluster state is well-formed.
LEMMA InitType == Init => TypeOK
<1> SUFFICES ASSUME Init PROVE TypeOK
  OBVIOUS
<1>1. MaxSlot \in Nat /\ MaxRound \in Nat /\ MaxSubmits \in Nat
  BY BoundAssumption
<1>2. NoEntry \in AcceptedValue /\ NoProposal \in SlotProposal /\ NoPrepare \in PrepareState
  BY DEF NoEntry, NoProposal, NoPrepare, AcceptedValue, SlotProposal, PrepareState, Value
<1>3. /\ is_leader \in [Node -> BOOLEAN]
      /\ active_ballot \in [Node -> Ballot \cup {-1}]
      /\ promised_ballot \in [Node -> Ballot \cup {-1}]
      /\ election_round \in [Node -> 0..MaxRound]
      /\ next_slot \in [Node -> 1..MaxSlot + 1]
      /\ submits \in [Command -> 0..MaxSubmits]
  BY <1>1 DEF Init
<1>4. log \in [Node -> [Slot -> AcceptedValue]]
  BY <1>2 DEF Init
<1>5. prepare \in [Node -> PrepareState] /\ proposals \in [Node -> [Slot -> SlotProposal]]
  BY <1>2 DEF Init
<1>6. /\ applied \in [Node -> Seq(Value)] /\ net \in [Channel -> Seq(Message)]
      /\ \A i \in Node : CommitIndex(i) <= MaxSlot
  BY <1>1 DEF Init, CommitIndex
<1>7. /\ \A i \in Node, s \in Slot : log[i][s].ballot = -1 => log[i][s] = NoEntry
      /\ \A i \in Node : is_leader[i] => active_ballot[i] # -1
  BY DEF Init
<1> QED
  BY <1>3, <1>4, <1>5, <1>6, <1>7 DEF TypeOK

\* Every step keeps the types.
LEMMA NextType == TypeOK /\ [Next]_vars => TypeOK'
<1> SUFFICES ASSUME TypeOK, [Next]_vars PROVE TypeOK'
  OBVIOUS
<1>1. CASE Next
  BY <1>1, StepKinds DEF Quiet, Starts, Collects, Wins, Counts, Submits
<1>2. CASE UNCHANGED vars
  BY <1>2 DEF vars, voteVars, leadVars, logVars, TypeOK, CommitIndex
<1> QED
  BY <1>1, <1>2

\* The state always has the shape the declarations of PaxosNode give it, for
\* every cluster, every network and every bound.
THEOREM TypeCorrect == Spec => []TypeOK
<1>1. Init => TypeOK
  BY InitType
<1>2. TypeOK /\ [Next]_vars => TypeOK'
  BY NextType
<1> QED
  BY <1>1, <1>2, PTL DEF Spec

(***************************************************************************)
(* Elections.                                                              *)
(***************************************************************************)

\* An honoured promise stays honoured, as promised ballots only grow.
LEMMA PromiseKeptStep ==
  ASSUME TypeOK, TypeOK', PromiseKept,
         \A k \in Node : promised_ballot'[k] >= promised_ballot[k],
         \A c \in Channel : \A x \in Range(net'[c]) :
           \/ x \in Range(net[c])
           \/ x.type = "Promise" /\ x.ok => promised_ballot'[c[1]] >= x.ballot
  PROVE  PromiseKept'
<1> SUFFICES ASSUME NEW i \in Node, NEW j \in Node, NEW m \in Range(net'[<<j, i>>]),
                    m.type = "Promise", m.ok
             PROVE  promised_ballot'[j] >= m.ballot
  BY DEF PromiseKept
<1> DEFINE c == <<j, i>>
<1>1. c \in Channel /\ c[1] = j
  BY DEF Channel
<1>2. promised_ballot'[j] \in Int
  BY BallotOwner DEF TypeOK
<1>3. CASE m \in Range(net[c])
  <2>1. promised_ballot[j] >= m.ballot
    BY <1>3 DEF PromiseKept
  <2>2. m.ballot \in Int
    <3>1. net[c] \in Seq(Message)
      BY <1>1 DEF TypeOK
    <3>2. m \in Message
      BY <1>3, <3>1 DEF Range
    <3> QED
      BY <3>2, MessageFields, BallotOwner
  <2> QED
    BY <1>2, <2>1, <2>2, BallotsAreInts
<1>4. CASE m \notin Range(net[c])
  BY <1>1, <1>4
<1> QED
  BY <1>3, <1>4

\* A prepared ballot stays promised, as promised ballots only grow.
LEMMA PreparedStep ==
  ASSUME TypeOK, TypeOK', PreparedBallot, NEW i \in Node,
         \A k \in Node : promised_ballot'[k] >= promised_ballot[k],
         prepare[i].ballot # -1
  PROVE  /\ Owner(prepare[i].ballot) = i
         /\ promised_ballot'[i] >= prepare[i].ballot
         /\ \A j \in prepare[i].from : promised_ballot'[j] >= prepare[i].ballot
<1>1. prepare[i].ballot \in Int /\ prepare[i].from \subseteq Node
  BY BallotOwner DEF TypeOK, PrepareState
<1>2. /\ Owner(prepare[i].ballot) = i
      /\ promised_ballot[i] >= prepare[i].ballot
      /\ \A j \in prepare[i].from : promised_ballot[j] >= prepare[i].ballot
  BY DEF PreparedBallot
<1>3. \A k \in Node : promised_ballot'[k] \in Int
  BY BallotOwner DEF TypeOK
<1> QED
  BY <1>1, <1>2, <1>3, BallotsAreInts

\* Without the promises of others: a leader leads the ballot it prepared, which
\* is its own and which it has promised.
Elected ==
  /\ LeaderWon
  /\ \A i \in Node : prepare[i].ballot # -1 =>
       Owner(prepare[i].ballot) = i /\ promised_ballot[i] >= prepare[i].ballot

LEMMA ElectionElected == ElectionInv => Elected
BY DEF ElectionInv, PreparedBallot, Elected

\* A leader that led before this step and prepares nothing new.
LEMMA LeaderStays ==
  ASSUME TypeOK, TypeOK', Elected, NEW k \in Node,
         promised_ballot'[k] >= promised_ballot[k],
         is_leader'[k] => is_leader[k] /\ active_ballot'[k] = active_ballot[k],
         prepare'[k].ballot = prepare[k].ballot,
         prepare'[k].completed = prepare[k].completed,
         prepare'[k].from = prepare[k].from \/ ~prepare[k].completed
  PROVE  /\ is_leader'[k] => /\ active_ballot'[k] = prepare'[k].ballot
                             /\ prepare'[k].completed
                             /\ Cardinality(prepare'[k].from) >= Quorum
         /\ prepare'[k].ballot # -1 =>
              Owner(prepare'[k].ballot) = k /\ promised_ballot'[k] >= prepare'[k].ballot
<1>1. promised_ballot'[k] \in Int /\ promised_ballot[k] \in Int
  BY BallotOwner DEF TypeOK
<1>2. prepare[k].ballot \in Int
  BY BallotOwner DEF TypeOK, PrepareState
<1> QED
  BY <1>1, <1>2 DEF Elected, LeaderWon

\* Every step keeps it.
LEMMA NextElected == TypeOK /\ Elected /\ [Next]_vars => Elected'
<1> SUFFICES ASSUME TypeOK, Elected, [Next]_vars PROVE Elected'
  OBVIOUS
<1> DEFINE Leads(k) == is_leader'[k] => /\ active_ballot'[k] = prepare'[k].ballot
                                        /\ prepare'[k].completed
                                        /\ Cardinality(prepare'[k].from) >= Quorum
           Owns(k) == prepare'[k].ballot # -1 =>
                        Owner(prepare'[k].ballot) = k /\ promised_ballot'[k] >= prepare'[k].ballot
<1>1. TypeOK'
  BY NextType
<1> SUFFICES ASSUME NEW k \in Node PROVE Leads(k) /\ Owns(k)
  BY DEF Elected, LeaderWon
<1>2. ASSUME VotesQuiet, UNCHANGED prepare PROVE Leads(k) /\ Owns(k)
  BY <1>1, <1>2, LeaderStays DEF VotesQuiet
<1>3. ASSUME NEW i \in Node, Starts(i) PROVE Leads(k) /\ Owns(k)
  <2>1. CASE k = i
    <3>1. promised_ballot'[i] \in Int
      BY <1>1, BallotOwner DEF TypeOK
    <3> QED
      BY <1>3, <2>1, <3>1 DEF Starts
  <2>2. CASE k # i
    BY <1>1, <1>3, <2>2, LeaderStays DEF Starts
  <2> QED
    BY <2>1, <2>2
<1>4. ASSUME NEW i \in Node, NEW j \in Node, NEW m, Collects(i, j, m) PROVE Leads(k) /\ Owns(k)
  <2>1. k # i => prepare'[k] = prepare[k]
    BY <1>4 DEF Collects
  <2>2. /\ prepare'[i].ballot = prepare[i].ballot
        /\ prepare'[i].completed = prepare[i].completed
        /\ prepare'[i].from = prepare[i].from \/ ~prepare[i].completed
    BY <1>4 DEF Collects
  <2>3. /\ promised_ballot'[k] >= promised_ballot[k]
        /\ is_leader'[k] => is_leader[k] /\ active_ballot'[k] = active_ballot[k]
    BY <1>4 DEF Collects, VotesQuiet
  <2> QED
    BY <1>1, <2>1, <2>2, <2>3, LeaderStays
<1>5. ASSUME NEW i \in Node, NEW j \in Node, NEW m, Wins(i, j, m) PROVE Leads(k) /\ Owns(k)
  <2>1. CASE k = i
    <3>1. is_leader'[i] /\ active_ballot'[i] = m.ballot
      BY <1>5 DEF Wins, TypeOK
    <3>2. m.ballot \in Int /\ promised_ballot[i] \in Int /\ promised_ballot'[i] \in Int
      <4>1. m.ballot \in Int
        BY <1>5, BallotOwner DEF Wins
      <4>2. promised_ballot[i] \in Ballot \cup {-1} /\ promised_ballot'[i] \in Ballot \cup {-1}
        BY <1>1 DEF TypeOK
      <4>3. Ballot \cup {-1} \subseteq Int
        BY BallotOwner
      <4> QED
        BY <4>1, <4>2, <4>3
    <3>3. prepare[i].ballot = m.ballot /\ prepare[i].ballot # -1
      BY <1>5, BallotOwner DEF Wins
    <3>4. promised_ballot'[i] >= promised_ballot[i]
      BY <1>5 DEF Wins
    <3>5. promised_ballot'[i] >= m.ballot /\ Owner(m.ballot) = i
      BY <3>2, <3>3, <3>4 DEF Elected
    <3> QED
      BY <1>5, <2>1, <3>1, <3>5 DEF Wins
  <2>2. CASE k # i
    <3>1. /\ is_leader'[k] = is_leader[k] /\ active_ballot'[k] = active_ballot[k]
          /\ prepare'[k] = prepare[k] /\ promised_ballot'[k] >= promised_ballot[k]
      BY <1>5, <2>2 DEF Wins, TypeOK
    <3> QED
      BY <1>1, <3>1, LeaderStays
  <2> QED
    BY <2>1, <2>2
<1>6. ASSUME NEW i \in Node, NEW s \in Slot, NEW cmd \in Value, Submits(i, s, cmd)
      PROVE  Leads(k) /\ Owns(k)
  BY <1>2, <1>6, VotesUnchanged DEF Submits
<1>7. CASE UNCHANGED vars
  <2>1. VotesQuiet /\ UNCHANGED prepare
    BY <1>7, VotesUnchanged DEF vars, leadVars
  <2> QED
    BY <1>2, <2>1
<1> HIDE DEF Leads, Owns
<1> QED
  BY <1>2, <1>3, <1>4, <1>5, <1>6, <1>7, StepKinds DEF Quiet, Counts

\* A step that does not touch what was prepared keeps what elections rest on.
LEMMA ElectionQuiet ==
  ASSUME TypeOK, TypeOK', ElectionInv, VotesQuiet, UNCHANGED prepare,
         \A c \in Channel : \A x \in Range(net'[c]) :
           \/ x \in Range(net[c])
           \/ x.type = "Promise" /\ x.ok => promised_ballot'[c[1]] >= x.ballot
  PROVE  PreparedBallot' /\ PromiseKept'
<1>2. \A k \in Node : promised_ballot'[k] >= promised_ballot[k]
  BY DEF VotesQuiet
<1>3. PreparedBallot'
  BY <1>2, PreparedStep DEF ElectionInv, PreparedBallot
<1>4. PromiseKept'
  BY <1>2, PromiseKeptStep DEF ElectionInv
<1> QED
  BY <1>3, <1>4

\* Starting an election: what was prepared before is replaced by a new ballot.
LEMMA ElectionStarts ==
  ASSUME TypeOK, ElectionInv, NEW i \in Node, Starts(i)
  PROVE  PreparedBallot' /\ PromiseKept'
<1>1. TypeOK' /\ \A k \in Node : promised_ballot'[k] >= promised_ballot[k]
  BY DEF Starts
<1>3. PreparedBallot'
  <2> SUFFICES ASSUME NEW k \in Node, prepare'[k].ballot # -1
               PROVE  /\ Owner(prepare'[k].ballot) = k
                      /\ promised_ballot'[k] >= prepare'[k].ballot
                      /\ \A j \in prepare'[k].from : promised_ballot'[j] >= prepare'[k].ballot
    BY DEF PreparedBallot
  <2>1. CASE k = i
    <3>1. promised_ballot'[i] \in Int
      BY <1>1, BallotOwner DEF TypeOK
    <3> QED
      BY <2>1, <3>1 DEF Starts
  <2>2. CASE k # i
    <3>1. prepare'[k] = prepare[k]
      BY <2>2 DEF Starts
    <3> QED
      BY <1>1, <3>1, PreparedStep DEF ElectionInv
  <2> QED
    BY <2>1, <2>2
<1>4. PromiseKept'
  BY <1>1, PromiseKeptStep DEF ElectionInv, Starts, NoPromiseAdded
<1> QED
  BY <1>3, <1>4

\* Collecting a promise: its sender has promised the ballot.
LEMMA ElectionCollects ==
  ASSUME TypeOK, ElectionInv, NEW i \in Node, NEW j \in Node,
         NEW m \in Range(net[<<j, i>>]), Collects(i, j, m)
  PROVE  PreparedBallot' /\ PromiseKept'
<1>1. TypeOK' /\ \A k \in Node : promised_ballot'[k] >= promised_ballot[k]
  BY DEF Collects, VotesQuiet
<1>3. PreparedBallot'
  <2> SUFFICES ASSUME NEW k \in Node, prepare'[k].ballot # -1
               PROVE  /\ Owner(prepare'[k].ballot) = k
                      /\ promised_ballot'[k] >= prepare'[k].ballot
                      /\ \A l \in prepare'[k].from : promised_ballot'[l] >= prepare'[k].ballot
    BY DEF PreparedBallot
  <2>1. prepare'[k].ballot = prepare[k].ballot
    BY DEF Collects
  <2>2. /\ Owner(prepare[k].ballot) = k
        /\ promised_ballot'[k] >= prepare[k].ballot
        /\ \A l \in prepare[k].from : promised_ballot'[l] >= prepare[k].ballot
    BY <1>1, <2>1, PreparedStep DEF ElectionInv
  <2>3. CASE prepare'[k].from = prepare[k].from
    BY <2>1, <2>2, <2>3
  <2>4. CASE prepare'[k].from # prepare[k].from
    <3>1. k = i /\ m.type = "Promise" /\ m.ok /\ m.ballot = prepare[i].ballot
      BY <2>4 DEF Collects
    <3>2. prepare'[k].from = prepare[k].from \cup {j}
      BY <2>4, <3>1 DEF Collects
    <3>3. promised_ballot[j] >= m.ballot
      BY <3>1 DEF ElectionInv, PromiseKept
    <3>4. promised_ballot'[j] = promised_ballot[j]
      BY DEF Collects
    <3> QED
      BY <2>1, <2>2, <3>1, <3>2, <3>3, <3>4
  <2> QED
    BY <2>3, <2>4
<1>4. PromiseKept'
  BY <1>1, PromiseKeptStep DEF ElectionInv, Collects, NoPromiseAdded
<1> QED
  BY <1>3, <1>4

\* Winning: the quorum of promises is there, the last one with this message.
LEMMA ElectionWins ==
  ASSUME TypeOK, ElectionInv, NEW i \in Node, NEW j \in Node,
         NEW m \in Range(net[<<j, i>>]), Wins(i, j, m)
  PROVE  PreparedBallot' /\ PromiseKept'
<1>1. TypeOK' /\ \A k \in Node : promised_ballot'[k] >= promised_ballot[k]
  BY DEF Wins
<1>3. PreparedBallot'
  <2> SUFFICES ASSUME NEW k \in Node, prepare'[k].ballot # -1
               PROVE  /\ Owner(prepare'[k].ballot) = k
                      /\ promised_ballot'[k] >= prepare'[k].ballot
                      /\ \A l \in prepare'[k].from : promised_ballot'[l] >= prepare'[k].ballot
    BY DEF PreparedBallot
  <2>1. prepare'[k].ballot = prepare[k].ballot
    BY DEF Wins
  <2>2. /\ Owner(prepare[k].ballot) = k
        /\ promised_ballot'[k] >= prepare[k].ballot
        /\ \A l \in prepare[k].from : promised_ballot'[l] >= prepare[k].ballot
    BY <1>1, <2>1, PreparedStep DEF ElectionInv
  <2>3. CASE k = i
    <3>1. promised_ballot[j] >= m.ballot
      BY DEF ElectionInv, PromiseKept, Wins
    <3>2. m.ballot \in Int
      BY BallotOwner DEF Wins
    <3>3. promised_ballot'[j] >= m.ballot
      <4>1. promised_ballot'[j] \in Int
        BY <1>1, BallotOwner DEF TypeOK
      <4> QED
        BY <1>1, <3>1, <3>2, <4>1, BallotsAreInts
    <3> QED
      BY <2>1, <2>2, <2>3, <3>3 DEF Wins
  <2>4. CASE k # i
    BY <2>1, <2>2, <2>4 DEF Wins
  <2> QED
    BY <2>3, <2>4
<1>4. PromiseKept'
  BY <1>1, PromiseKeptStep DEF ElectionInv, Wins, NoPromiseAdded
<1> QED
  BY <1>3, <1>4

\* Every step keeps what elections rest on.
LEMMA NextElection == TypeOK /\ ElectionInv /\ [Next]_vars => ElectionInv'
<1> SUFFICES ASSUME TypeOK, ElectionInv, [Next]_vars PROVE ElectionInv'
  OBVIOUS
<1>1. TypeOK' /\ LeaderWon'
  BY NextType, NextElected, ElectionElected DEF Elected
<1> SUFFICES PreparedBallot' /\ PromiseKept'
  BY <1>1 DEF ElectionInv
<1> DEFINE Goal == PreparedBallot' /\ PromiseKept'
<1>2. CASE UNCHANGED vars
  BY <1>2 DEF vars, voteVars, leadVars, ElectionInv, PreparedBallot, PromiseKept
<1>3. CASE Quiet
  BY <1>1, <1>3, ElectionQuiet DEF Quiet, NetQuiet
<1>4. ASSUME NEW i \in Node, Starts(i) PROVE Goal
  BY <1>4, ElectionStarts
<1>5. ASSUME NEW i \in Node, NEW j \in Node, NEW m \in Range(net[<<j, i>>]),
             Collects(i, j, m) \/ Wins(i, j, m)
      PROVE  Goal
  BY <1>5, ElectionCollects, ElectionWins
<1>6. ASSUME NEW i \in Node, NEW s \in Slot, Counts(i, s) PROVE Goal
  BY <1>1, <1>6, ElectionQuiet DEF Counts, NoPromiseAdded
<1>7. ASSUME NEW i \in Node, NEW s \in Slot, NEW cmd \in Value, Submits(i, s, cmd)
      PROVE  Goal
  <2>1. VotesQuiet
    BY <1>7, VotesUnchanged DEF Submits
  <2> QED
    BY <1>1, <1>7, <2>1, ElectionQuiet DEF Submits, NoPromiseAdded
<1> QED
  BY <1>2, <1>3, <1>4, <1>5, <1>6, <1>7, StepKinds

\* Nobody has led, prepared or promised anything at first.
LEMMA InitElection == Init => ElectionInv
<1> SUFFICES ASSUME Init PROVE ElectionInv
  OBVIOUS
<1>1. \A c \in Channel : net[c] = <<>> /\ Range(net[c]) = {}
  BY DEF Init, Range
<1>2. \A i, j \in Node : <<j, i>> \in Channel
  BY DEF Channel
<1> QED
  BY <1>1, <1>2 DEF Init, NoPrepare, ElectionInv, LeaderWon, PreparedBallot, PromiseKept

\* What elections rest on holds always: a leader won the ballot it prepared,
\* which is its own, and promises are not taken back.
THEOREM ElectionsAreSound == Spec => []ElectionInv
<1>1. Init => ElectionInv
  BY InitElection
<1>2. TypeOK /\ ElectionInv /\ [Next]_vars => ElectionInv'
  BY NextElection
<1> QED
  BY <1>1, <1>2, TypeCorrect, PTL DEF Spec

\* No two nodes ever lead the same ballot.
THEOREM OneLeader == Spec => []OneLeaderPerBallot
<1>1. TypeOK /\ ElectionInv => OneLeaderPerBallot
  <2> SUFFICES ASSUME TypeOK, ElectionInv, NEW i \in Node, NEW j \in Node,
                      is_leader[i], is_leader[j], active_ballot[i] = active_ballot[j]
               PROVE  i = j
    BY DEF OneLeaderPerBallot
  <2>1. prepare[i].ballot = prepare[j].ballot /\ prepare[i].ballot # -1
    BY DEF TypeOK, ElectionInv, LeaderWon
  <2> QED
    BY <2>1 DEF ElectionInv, PreparedBallot
<1> QED
  BY <1>1, TypeCorrect, ElectionsAreSound, PTL

\* The nodes are finitely many.
LEMMA NodesFinite == IsFiniteSet(Node)
<1> DEFINE id(a, b) == a..b
<1>1. IsFiniteSet(id(1, 99))
  <2>1. \A a, b \in Int : IsFiniteSet(id(a, b))
    BY FS_Interval
  <2> HIDE DEF id
  <2> QED
    BY <2>1
<1> QED
  BY <1>1, NodeAssumption, FS_Subset

\* A leader always has a quorum that promised its ballot or a later one.
THEOREM LeaderHasQuorum == Spec => []ElectionQuorum
<1>1. TypeOK /\ ElectionInv => ElectionQuorum
  <2> SUFFICES ASSUME TypeOK, ElectionInv, NEW i \in Node, is_leader[i]
               PROVE  Cardinality({j \in Node : promised_ballot[j] >= active_ballot[i]}) >= Quorum
    BY DEF ElectionQuorum
  <2> DEFINE voters == {j \in Node : promised_ballot[j] >= active_ballot[i]}
             from   == prepare[i].from
  <2>1. /\ active_ballot[i] = prepare[i].ballot /\ prepare[i].ballot # -1
        /\ Cardinality(from) >= Quorum
    BY DEF TypeOK, ElectionInv, LeaderWon
  <2>2. from \subseteq voters
    BY <2>1 DEF TypeOK, PrepareState, ElectionInv, PreparedBallot
  <2>4. IsFiniteSet(voters)
    BY NodesFinite, FS_Subset
  <2>5. Cardinality(from) \in Nat /\ Cardinality(voters) \in Nat /\ Quorum \in Int
    BY <2>2, <2>4, NodesFinite, FS_Subset, FS_CardinalityType DEF Quorum
  <2> HIDE DEF voters, from
  <2>6. Cardinality(from) <= Cardinality(voters)
    BY <2>2, <2>4, FS_Subset
  <2> QED
    BY <2>1, <2>5, <2>6 DEF voters
<1> QED
  BY <1>1, TypeCorrect, ElectionsAreSound, PTL

(***************************************************************************)
(* Values.                                                                 *)
(***************************************************************************)

\* Whatever speaks of a proposal speaks of a slot, a ballot and a command.
LEMMA EntriesTyped ==
  ASSUME TypeOK
  PROVE  Entries \subseteq RecoveredEntry
<1>1. ASSUME NEW k \in Node PROVE LogEntries(k) \subseteq RecoveredEntry
  BY DEF TypeOK, LogEntries, RecoveredEntry, AcceptedValue
<1>2. ASSUME NEW m \in InTransit PROVE MessageEntries(m) \subseteq RecoveredEntry
  <2>1. PICK c \in Channel : m \in Range(net[c])
    BY DEF InTransit
  <2>2. net[c] \in Seq(Message)
    BY DEF TypeOK
  <2>3. m \in Message
    BY <2>1, <2>2 DEF Range
  <2> QED
    BY <2>3, EntriesOfMessage
<1>3. ASSUME NEW k \in Node, NEW j \in Node PROVE prepare[k].entries[j] \subseteq RecoveredEntry
  BY DEF TypeOK, PrepareState
<1> QED
  BY <1>1, <1>2, <1>3 DEF Entries

\* An entry stays known to the owner of its ballot: promised ballots grow, and
\* the ballot being prepared is the same, or above all that was promised.
PrepareGrows(i) ==
  \/ /\ prepare'[i].ballot = prepare[i].ballot
     /\ prepare[i].completed => prepare'[i].completed
  \/ prepare'[i].ballot > promised_ballot[i]

\* A ballot somebody spoke of stays known to its owner while the owner's promise
\* and prepared ballot only grow.
LEMMA KnownStep ==
  ASSUME TypeOK, TypeOK', EntryBallotKnown, NEW e \in Entries, NEW i \in Node,
         Owner(e.ballot) = i,
         promised_ballot'[i] >= promised_ballot[i], PrepareGrows(i)
  PROVE  /\ e.ballot <= promised_ballot'[i]
         /\ prepare'[i].completed \/ e.ballot # prepare'[i].ballot
<1>1. e.ballot <= promised_ballot[i] /\ (prepare[i].completed \/ e.ballot # prepare[i].ballot)
  BY DEF EntryBallotKnown
<1>2. e.ballot \in Int /\ promised_ballot[i] \in Int
  BY EntriesTyped, BallotsAreInts, BallotOwner DEF RecoveredEntry
<1>3. promised_ballot'[i] \in Int /\ prepare'[i].ballot \in Int
  BY BallotOwner DEF TypeOK, PrepareState
<1> QED
  BY <1>1, <1>2, <1>3 DEF PrepareGrows

\* What node i must know of entry e while it leads, and of its proposals.
Knows(i, e) ==
  e.ballot = active_ballot[i] =>
    /\ e.slot < next_slot[i]
    /\ proposals[i][e.slot].accepts # {} => proposals[i][e.slot].command = e.command

\* A node that at most loses its leadership, and whose proposals stay, keeps
\* what it knows.
LeaderQuiet(k) ==
  /\ is_leader'[k] => is_leader[k] /\ active_ballot'[k] = active_ballot[k]
  /\ proposals'[k] = proposals[k]
  /\ next_slot'[k] >= next_slot[k]

\* What a leader knows of its slots it still knows after a step in which it makes
\* no proposal.
LEMMA KnowsStep ==
  ASSUME TypeOK, TypeOK', LeaderKnowsItsSlots, NEW k \in Node, LeaderQuiet(k)
  PROVE  /\ \A e \in Entries : is_leader'[k] => Knows(k, e)'
         /\ \A s \in Slot : proposals'[k][s].accepts # {} => s < next_slot'[k]
<1>1. next_slot[k] \in Int /\ next_slot'[k] \in Int /\ \A s \in Slot : s \in Int
  BY BoundAssumption DEF TypeOK, Slot
<1>2. ASSUME NEW e \in Entries, is_leader'[k], e.ballot = active_ballot'[k]
      PROVE  /\ e.slot < next_slot'[k]
             /\ proposals'[k][e.slot].accepts # {} => proposals'[k][e.slot].command = e.command
  <2>1. e.slot \in Slot
    BY EntriesTyped DEF RecoveredEntry
  <2>2. is_leader[k] /\ e.ballot = active_ballot[k]
    BY <1>2 DEF LeaderQuiet
  <2>3. /\ e.slot < next_slot[k]
        /\ proposals[k][e.slot].accepts # {} => proposals[k][e.slot].command = e.command
    BY <2>2 DEF LeaderKnowsItsSlots
  <2> QED
    BY <1>1, <2>1, <2>3 DEF LeaderQuiet
<1>3. ASSUME NEW s \in Slot, proposals'[k][s].accepts # {} PROVE s < next_slot'[k]
  <2>1. s < next_slot[k]
    BY <1>3 DEF LeaderQuiet, LeaderKnowsItsSlots
  <2> QED
    BY <1>1, <2>1 DEF LeaderQuiet
<1>4. \A e \in Entries : is_leader'[k] => Knows(k, e)'
  BY <1>2 DEF Knows
<1> QED
  BY <1>3, <1>4

\* A step after which nobody says anything new.
LEMMA ValueQuiet ==
  ASSUME TypeOK, TypeOK', ValueInv, Entries' \subseteq Entries,
         \A k \in Node : /\ promised_ballot'[k] >= promised_ballot[k]
                         /\ PrepareGrows(k)
                         /\ LeaderQuiet(k)
  PROVE  ValueInv'
<1>1. OneValuePerBallot'
  BY DEF ValueInv, OneValuePerBallot
<1>2. EntryBallotKnown'
  <2> SUFFICES ASSUME NEW e \in Entries', NEW i \in Node, Owner(e.ballot) = i
               PROVE  /\ e.ballot <= promised_ballot'[i]
                      /\ prepare'[i].completed \/ e.ballot # prepare'[i].ballot
    BY DEF EntryBallotKnown
  <2>1. e \in Entries
    OBVIOUS
  <2> QED
    BY <2>1, KnownStep DEF ValueInv
<1>3. \A k \in Node :
        /\ \A e \in Entries : is_leader'[k] => Knows(k, e)'
        /\ \A s \in Slot : proposals'[k][s].accepts # {} => s < next_slot'[k]
  BY KnowsStep DEF ValueInv
<1>4. LeaderKnowsItsSlots'
  BY <1>3 DEF LeaderKnowsItsSlots, Knows
<1> QED
  BY <1>1, <1>2, <1>4 DEF ValueInv

\* Leader i says something new at its ballot b: commands cmds for the slots of
\* D, in accord with all it has said before.
Speaks(i, b, D, cmds) ==
  /\ is_leader'[i] /\ active_ballot'[i] = b
  /\ D \in SUBSET Slot /\ cmds \in [D -> Value]
  /\ Entries' \subseteq Entries \cup Spoken(b, cmds)
  /\ \A e \in Entries : e.ballot = b =>
       /\ e.slot < next_slot'[i]
       /\ e.slot \in D => e.command = cmds[e.slot]
       /\ proposals'[i][e.slot].accepts # {} => proposals'[i][e.slot].command = e.command
  /\ \A s \in D : /\ s < next_slot'[i]
                  /\ proposals'[i][s].accepts # {} => proposals'[i][s].command = cmds[s]
  /\ \A s \in Slot : proposals'[i][s].accepts # {} => s < next_slot'[i]
  /\ \A k \in Node : promised_ballot'[k] >= promised_ballot[k] /\ PrepareGrows(k)
  /\ \A k \in Node \ {i} : LeaderQuiet(k)

\* A leader that speaks for its own ballot about slots it has not spoken of, or
\* repeats itself, keeps the values sound.
LEMMA ValueSpeaks ==
  ASSUME TypeOK, TypeOK', Elected', ValueInv, NEW i \in Node, NEW b, NEW D, NEW cmds,
         Speaks(i, b, D, cmds)
  PROVE  ValueInv'
<1> DEFINE N == Spoken(b, cmds)
<1>1. /\ \A e \in N : e.slot \in D /\ e.ballot = b /\ e.command = cmds[e.slot]
      /\ Entries' \subseteq Entries \cup N
  BY DEF Spoken, Speaks
<1> HIDE DEF N
<1>2. /\ b = prepare'[i].ballot /\ prepare'[i].completed
      /\ Owner(b) = i /\ promised_ballot'[i] >= b
      /\ b \in Int /\ promised_ballot'[i] \in Int
  <2>1. b = prepare'[i].ballot /\ prepare'[i].completed /\ b # -1
    BY DEF Speaks, Elected, LeaderWon, TypeOK
  <2>2. Owner(b) = i /\ promised_ballot'[i] >= b
    BY <2>1 DEF Elected
  <2>3. b \in Int /\ promised_ballot'[i] \in Int
    BY BallotOwner DEF Speaks, TypeOK
  <2> QED
    BY <2>1, <2>2, <2>3
<1>3. OneValuePerBallot'
  <2> SUFFICES ASSUME NEW e \in Entries', NEW f \in Entries',
                      e.slot = f.slot, e.ballot = f.ballot
               PROVE  e.command = f.command
    BY DEF OneValuePerBallot
  <2>1. CASE e \in Entries /\ f \in Entries
    BY <2>1 DEF ValueInv, OneValuePerBallot
  <2>2. CASE e \in N /\ f \in N
    BY <1>1, <2>2
  <2>3. CASE e \in N /\ f \in Entries
    BY <1>1, <2>3 DEF Speaks
  <2>4. CASE e \in Entries /\ f \in N
    BY <1>1, <2>4 DEF Speaks
  <2> QED
    BY <1>1, <2>1, <2>2, <2>3, <2>4
<1>4. EntryBallotKnown'
  <2> SUFFICES ASSUME NEW e \in Entries', NEW k \in Node, Owner(e.ballot) = k
               PROVE  /\ e.ballot <= promised_ballot'[k]
                      /\ prepare'[k].completed \/ e.ballot # prepare'[k].ballot
    BY DEF EntryBallotKnown
  <2>1. CASE e \in Entries
    BY <2>1, KnownStep DEF ValueInv, Speaks
  <2>2. CASE e \in N
    BY <1>1, <1>2, <2>2
  <2> QED
    BY <1>1, <2>1, <2>2
<1>5. ASSUME NEW k \in Node
      PROVE  /\ is_leader'[k] => \A e \in Entries' : Knows(k, e)'
             /\ \A s \in Slot : proposals'[k][s].accepts # {} => s < next_slot'[k]
  <2>1. CASE k = i
    <3>1. ASSUME NEW e \in Entries', e.ballot = active_ballot'[i]
          PROVE  /\ e.slot < next_slot'[i]
                 /\ proposals'[i][e.slot].accepts # {} => proposals'[i][e.slot].command = e.command
      <4>1. e.ballot = b
        BY <3>1 DEF Speaks
      <4>2. CASE e \in Entries
        BY <4>1, <4>2 DEF Speaks
      <4>3. CASE e \in N
        BY <1>1, <4>3 DEF Speaks
      <4> QED
        BY <1>1, <4>2, <4>3
    <3> QED
      BY <2>1, <3>1 DEF Knows, Speaks
  <2>2. CASE k # i
    <3>1. /\ \A e \in Entries : is_leader'[k] => Knows(k, e)'
          /\ \A s \in Slot : proposals'[k][s].accepts # {} => s < next_slot'[k]
      BY <2>2, KnowsStep DEF Speaks, ValueInv
    <3>2. is_leader'[k] => active_ballot'[k] # b
      <4>1. SUFFICES ASSUME is_leader'[k] PROVE Owner(active_ballot'[k]) = k
        BY <1>2, <2>2
      <4>2. active_ballot'[k] = prepare'[k].ballot /\ prepare'[k].ballot # -1
        BY <4>1 DEF Elected, LeaderWon, TypeOK
      <4> QED
        BY <4>2 DEF Elected
    <3>3. ASSUME NEW e \in N, is_leader'[k] PROVE Knows(k, e)'
      BY <1>1, <3>2, <3>3 DEF Knows
    <3> QED
      BY <1>1, <3>1, <3>3
  <2> QED
    BY <2>1, <2>2
<1>6. LeaderKnowsItsSlots'
  BY <1>5 DEF LeaderKnowsItsSlots, Knows
<1> QED
  BY <1>3, <1>4, <1>6 DEF ValueInv

\* The leader commits what it proposed.
LEMMA ValueCounts ==
  ASSUME TypeOK, Elected', ValueInv, NEW i \in Node, NEW s \in Slot, Counts(i, s)
  PROVE  ValueInv'
<1> DEFINE b    == active_ballot[i]
           cmd  == proposals[i][s].command
           cmds == [t \in {s} |-> cmd]
<1>1. TypeOK' /\ VotesQuiet
  BY DEF Counts
<1>2. /\ cmds \in [{s} -> Value] /\ cmds[s] = cmd
      /\ Spoken(b, cmds) = {[slot |-> s, ballot |-> b, command |-> cmd]}
  BY DEF Spoken, TypeOK, SlotProposal
<1>3. ASSUME NEW t \in Slot, proposals'[i][t].accepts # {}
      PROVE  /\ proposals[i][t].accepts # {}
             /\ proposals'[i][t].command = proposals[i][t].command
  BY <1>3 DEF Counts, NoProposal
<1>4. ASSUME NEW e \in Entries, e.ballot = b
      PROVE  /\ e.slot < next_slot'[i]
             /\ e.slot \in {s} => e.command = cmds[e.slot]
             /\ proposals'[i][e.slot].accepts # {} => proposals'[i][e.slot].command = e.command
  <2>1. e.slot \in Slot
    BY EntriesTyped DEF RecoveredEntry
  <2>2. /\ e.slot < next_slot[i]
        /\ proposals[i][e.slot].accepts # {} => proposals[i][e.slot].command = e.command
    BY <1>4 DEF ValueInv, LeaderKnowsItsSlots, Counts
  <2> QED
    BY <1>2, <1>3, <2>1, <2>2 DEF Counts
<1>5. \A t \in Slot : proposals'[i][t].accepts # {} => t < next_slot'[i]
  BY <1>3 DEF ValueInv, LeaderKnowsItsSlots, Counts
<1>6. s < next_slot'[i]
  BY DEF ValueInv, LeaderKnowsItsSlots, Counts
<1>7. \A k \in Node : promised_ballot'[k] >= promised_ballot[k] /\ PrepareGrows(k)
  BY <1>1 DEF VotesQuiet, PrepareGrows, Counts
<1>8. \A k \in Node \ {i} : LeaderQuiet(k)
  <2>1. \A k \in Node : next_slot[k] \in Int
    BY BoundAssumption DEF TypeOK
  <2> QED
    BY <1>1, <2>1 DEF VotesQuiet, LeaderQuiet, Counts
<1>9. /\ is_leader'[i] /\ active_ballot'[i] = b /\ {s} \in SUBSET Slot
      /\ Entries' \subseteq Entries \cup {[slot |-> s, ballot |-> b, command |-> cmd]}
  BY <1>1 DEF Counts, VotesQuiet
<1>10. \A t \in {s} : /\ t < next_slot'[i]
                      /\ proposals'[i][t].accepts # {} => proposals'[i][t].command = cmds[t]
  BY <1>2, <1>3, <1>6
<1> HIDE DEF cmds, cmd, b
<1>11. Speaks(i, b, {s}, cmds)
  BY <1>2, <1>4, <1>5, <1>7, <1>8, <1>9, <1>10 DEF Speaks
<1> QED
  BY <1>1, <1>11, ValueSpeaks

\* The leader proposes in a slot it has said nothing of.
LEMMA ValueSubmits ==
  ASSUME TypeOK, Elected', ValueInv, NEW i \in Node, NEW s \in Slot, NEW cmd \in Value,
         Submits(i, s, cmd)
  PROVE  ValueInv'
<1> DEFINE b    == active_ballot[i]
           cmds == [t \in {s} |-> cmd]
<1>1. TypeOK'
  BY DEF Submits
<1>2. /\ cmds \in [{s} -> Value] /\ cmds[s] = cmd
      /\ Spoken(b, cmds) = {[slot |-> s, ballot |-> b, command |-> cmd]}
  BY DEF Spoken
<1>3. /\ next_slot'[i] = s + 1 /\ s >= next_slot[i]
      /\ next_slot[i] \in Int /\ s \in Int
      /\ \A k \in Node \ {i} : next_slot'[k] = next_slot[k]
      /\ \A k \in Node : next_slot[k] \in Int
  BY BoundAssumption DEF Submits, TypeOK, Slot
<1>4. ASSUME NEW e \in Entries, e.ballot = b
      PROVE  /\ e.slot < next_slot'[i]
             /\ e.slot \in {s} => e.command = cmds[e.slot]
             /\ proposals'[i][e.slot].accepts # {} => proposals'[i][e.slot].command = e.command
  <2>1. e.slot \in Slot /\ e.slot \in Int
    BY EntriesTyped, BoundAssumption DEF RecoveredEntry, Slot
  <2>2. /\ e.slot < next_slot[i]
        /\ proposals[i][e.slot].accepts # {} => proposals[i][e.slot].command = e.command
    BY <1>4 DEF ValueInv, LeaderKnowsItsSlots, Submits
  <2>3. e.slot # s /\ e.slot < next_slot'[i]
    BY <1>3, <2>1, <2>2
  <2>4. proposals'[i][e.slot] = proposals[i][e.slot]
    BY <2>1, <2>3 DEF Submits
  <2> QED
    BY <2>2, <2>3, <2>4
<1>5. ASSUME NEW t \in Slot, proposals'[i][t].accepts # {} PROVE t < next_slot'[i]
  <2>1. CASE t = s
    BY <1>3, <2>1
  <2>2. CASE t # s
    <3>1. t < next_slot[i] /\ t \in Int
      BY <1>5, <2>2, BoundAssumption DEF ValueInv, LeaderKnowsItsSlots, Submits, Slot
    <3> QED
      BY <1>3, <3>1
  <2> QED
    BY <2>1, <2>2
<1>6. \A k \in Node : promised_ballot'[k] >= promised_ballot[k] /\ PrepareGrows(k)
  BY BallotsAreInts DEF voteVars, PrepareGrows, Submits
<1>7. \A k \in Node \ {i} : LeaderQuiet(k)
  BY <1>3 DEF voteVars, LeaderQuiet, Submits
<1>8. /\ is_leader'[i] /\ active_ballot'[i] = b /\ {s} \in SUBSET Slot
      /\ Entries' \subseteq Entries \cup {[slot |-> s, ballot |-> b, command |-> cmd]}
  BY DEF Submits, voteVars
<1>9. \A t \in {s} : /\ t < next_slot'[i]
                     /\ proposals'[i][t].accepts # {} => proposals'[i][t].command = cmds[t]
  BY <1>2, <1>3 DEF Submits, NoProposal
<1> HIDE DEF cmds, b
<1>10. Speaks(i, b, {s}, cmds)
  BY <1>2, <1>4, <1>5, <1>6, <1>7, <1>8, <1>9 DEF Speaks
<1> QED
  BY <1>1, <1>10, ValueSpeaks

\* The winner proposes again what it recovered, at a ballot nobody has spoken
\* of before.
LEMMA ValueWins ==
  ASSUME TypeOK, Elected, Elected', ValueInv, NEW i \in Node, NEW j \in Node,
         NEW m, Wins(i, j, m)
  PROVE  ValueInv'
<1> DEFINE b == m.ballot
<1>1. TypeOK'
  BY DEF Wins
<1>2. PICK D, cmds : Recovers(i, b, D, cmds)
  BY DEF Wins
<1>3. \A e \in Entries : e.ballot # b
  <2> SUFFICES ASSUME NEW e \in Entries, e.ballot = b PROVE FALSE
    OBVIOUS
  <2>1. prepare[i].ballot = b /\ b # -1 /\ ~prepare[i].completed
    BY BallotOwner DEF Wins
  <2>2. Owner(b) = i
    BY <2>1 DEF Elected
  <2> QED
    BY <2>1, <2>2 DEF ValueInv, EntryBallotKnown
<1>4. /\ next_slot[i] \in Int /\ next_slot'[i] \in Int /\ next_slot'[i] >= next_slot[i]
      /\ \A t \in Slot : t \in Int
  BY <1>1, <1>2, BoundAssumption DEF Recovers, TypeOK, Slot
<1>5. D \in SUBSET Slot /\ cmds \in [D -> Value]
  BY <1>2 DEF Recovers
<1>6. \A s \in D : /\ s < next_slot'[i]
                   /\ proposals'[i][s].accepts # {} => proposals'[i][s].command = cmds[s]
  BY <1>2 DEF Recovers, NoProposal
<1>7. ASSUME NEW t \in Slot, proposals'[i][t].accepts # {} PROVE t < next_slot'[i]
  <2>1. CASE t \in D
    BY <1>6, <2>1
  <2>2. CASE t \notin D
    <3>1. t < next_slot[i]
      BY <1>2, <1>7, <2>2 DEF Recovers, ValueInv, LeaderKnowsItsSlots
    <3> QED
      BY <1>4, <3>1
  <2> QED
    BY <2>1, <2>2
<1>8. \A k \in Node : promised_ballot'[k] >= promised_ballot[k] /\ PrepareGrows(k)
  BY DEF Wins, PrepareGrows
<1>9. \A k \in Node \ {i} : LeaderQuiet(k)
  <2>1. \A k \in Node : next_slot[k] \in Int
    BY BoundAssumption DEF TypeOK
  <2>2. \A k \in Node \ {i} : is_leader'[k] => is_leader[k] /\ active_ballot'[k] = active_ballot[k]
    BY DEF Wins, TypeOK
  <2> QED
    BY <2>1, <2>2 DEF LeaderQuiet, Wins
<1>10. /\ is_leader'[i] /\ active_ballot'[i] = b
       /\ Entries' \subseteq Entries \cup Spoken(b, cmds)
  BY <1>2 DEF Wins, TypeOK, Recovers
<1>11. Speaks(i, b, D, cmds)
  BY <1>3, <1>5, <1>6, <1>7, <1>8, <1>9, <1>10 DEF Speaks
<1> QED
  BY <1>1, <1>11, ValueSpeaks

\* Every step keeps one value per ballot, and why.
LEMMA NextValue == TypeOK /\ Elected /\ ValueInv /\ [Next]_vars => ValueInv'
<1> SUFFICES ASSUME TypeOK, Elected, ValueInv, [Next]_vars PROVE ValueInv'
  OBVIOUS
<1>1. TypeOK' /\ Elected'
  BY NextType, NextElected
<1>2. \A k \in Node : next_slot[k] \in Int /\ next_slot[k] >= next_slot[k]
  BY BoundAssumption DEF TypeOK
<1>3. CASE UNCHANGED vars
  <2>1. UNCHANGED <<is_leader, active_ballot, promised_ballot, prepare, proposals, next_slot>>
    BY <1>3 DEF vars, voteVars, leadVars, logVars
  <2>2. Entries' \subseteq Entries
    <3>1. \A k \in Node : LogEntries(k)' = LogEntries(k)
      BY <1>3 DEF vars, logVars, LogEntries
    <3>2. InTransit' = InTransit
      BY <1>3 DEF vars, InTransit
    <3>3. \A x : MessageEntries(x)' = MessageEntries(x)
      BY DEF MessageEntries
    <3> QED
      BY <2>1, <3>1, <3>2, <3>3 DEF Entries
  <2>3. \A k \in Node : /\ promised_ballot'[k] >= promised_ballot[k]
                        /\ PrepareGrows(k)
                        /\ LeaderQuiet(k)
    BY <1>2, <2>1, BallotsAreInts DEF PrepareGrows, LeaderQuiet
  <2> QED
    BY <1>1, <2>2, <2>3, ValueQuiet
<1>4. CASE Quiet
  <2>1. \A k \in Node : /\ promised_ballot'[k] >= promised_ballot[k]
                        /\ PrepareGrows(k)
                        /\ LeaderQuiet(k)
    BY <1>4 DEF Quiet, VotesQuiet, LogsQuiet, PrepareGrows, LeaderQuiet
  <2> QED
    BY <1>1, <1>4, <2>1, ValueQuiet DEF Quiet
<1>5. ASSUME NEW i \in Node, Starts(i) PROVE ValueInv'
  <2>1. \A k \in Node : /\ promised_ballot'[k] >= promised_ballot[k]
                        /\ PrepareGrows(k)
    BY <1>5 DEF Starts, PrepareGrows
  <2>2. \A k \in Node : LeaderQuiet(k)
    BY <1>2, <1>5 DEF Starts, LeaderQuiet
  <2> QED
    BY <1>1, <1>5, <2>1, <2>2, ValueQuiet DEF Starts
<1>6. ASSUME NEW i \in Node, NEW j \in Node, NEW m \in Range(net[<<j, i>>]), Collects(i, j, m)
      PROVE  ValueInv'
  <2>1. \A k \in Node : /\ promised_ballot'[k] >= promised_ballot[k]
                        /\ PrepareGrows(k)
    BY <1>6 DEF Collects, VotesQuiet, PrepareGrows
  <2>2. \A k \in Node : LeaderQuiet(k)
    BY <1>2, <1>6 DEF Collects, VotesQuiet, LeaderQuiet
  <2> QED
    BY <1>1, <1>6, <2>1, <2>2, ValueQuiet DEF Collects
<1>7. ASSUME NEW i \in Node, NEW j \in Node, NEW m \in Range(net[<<j, i>>]), Wins(i, j, m)
      PROVE  ValueInv'
  BY <1>1, <1>7, ValueWins
<1>8. ASSUME NEW i \in Node, NEW s \in Slot, Counts(i, s) PROVE ValueInv'
  BY <1>1, <1>8, ValueCounts
<1>9. ASSUME NEW i \in Node, NEW s \in Slot, NEW cmd \in Value, Submits(i, s, cmd)
      PROVE  ValueInv'
  BY <1>1, <1>9, ValueSubmits
<1> QED
  BY <1>3, <1>4, <1>5, <1>6, <1>7, <1>8, <1>9, StepKinds

\* At first nobody speaks of any proposal.
LEMMA InitEntries ==
  ASSUME Init
  PROVE  Entries = {}
<1>1. \A k \in Node : LogEntries(k) = {}
  BY DEF Init, LogEntries, NoEntry
<1>2. InTransit = {}
  BY DEF Init, InTransit, Range
<1>3. \A k, j \in Node : prepare[k].entries[j] = {}
  BY DEF Init, NoPrepare
<1> QED
  BY <1>1, <1>2, <1>3 DEF Entries

LEMMA InitValue == Init => ValueInv
<1> SUFFICES ASSUME Init PROVE ValueInv
  OBVIOUS
<1>1. Entries = {}
  BY InitEntries
<1>2. \A k \in Node, s \in Slot : proposals[k][s].accepts = {}
  BY DEF Init, NoProposal
<1> QED
  BY <1>1, <1>2 DEF ValueInv, OneValuePerBallot, EntryBallotKnown, LeaderKnowsItsSlots

\* One value per ballot, and why, holds always.
THEOREM ValuesAreSound == Spec => []ValueInv
<1>1. Init => ValueInv
  BY InitValue
<1>2. TypeOK /\ ElectionInv /\ ValueInv /\ [Next]_vars => ValueInv'
  BY NextValue, ElectionElected
<1> QED
  BY <1>1, <1>2, TypeCorrect, ElectionsAreSound, PTL DEF Spec

\* A ballot proposes at most one command for a slot, whoever speaks of it.
THEOREM OneValue == Spec => []OneValuePerBallot
<1>1. ValueInv => OneValuePerBallot
  BY DEF ValueInv
<1> QED
  BY <1>1, ValuesAreSound, PTL

====
