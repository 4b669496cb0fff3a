------------------------------ MODULE Runtime ------------------------------
(***************************************************************************)
(* Time in the replicas: the PaxosNode of module Paxos, run by the Runtime *)
(* and the Mailbox (runtime.hpp, nos.hpp), the 5 ms passes of main that    *)
(* drive them and the io threads that wait in select for up to 50 ms.      *)
(* Every handler, timer and submission is that of Paxos, with all that it  *)
(* sends; here they are given the moment at which they run.                *)
(*                                                                         *)
(* net is what a process has sent and its io thread not taken yet          *)
(* (outbound_paxos_, by destination).  No connection fails and no node is  *)
(* down with /crash.                                                       *)
(*                                                                         *)
(* A round is the time of one pass, which every process makes once in a    *)
(* round, in any order; messages take less than a round once sent.  Ticks  *)
(* are the Runtime's: they only pass when nothing is ready to run, so a    *)
(* busy process ages more slowly than the wall clock.                      *)
(***************************************************************************)
EXTENDS Paxos

CONSTANTS
  SelectRounds,   \* rounds in the time limit of select: 50 ms / 5 ms
  HeartbeatTicks, \* SleepFor of heartbeat_loop: 2
  ElectionTicks,  \* SleepFor of election_loop: 3
  BaseTimeout,    \* election_timeout_ticks_ is BaseTimeout + 3 * id: 14
  MaxSkew         \* bound: rounds between the first and the last start

ASSUME TimeAssumption ==
  /\ {SelectRounds, HeartbeatTicks, ElectionTicks, BaseTimeout} \subseteq Nat \ {0}
  /\ MaxSkew \in Nat
  /\ Candidate = Node   \* every process runs election_loop

VARIABLES
  up,        \* the nodes whose process has started
  ready,     \* ready_: coroutines in the order they will be resumed
  timers,    \* timers_, next due first: [who, left], left in ticks from now
  waiters,   \* the waiters_ of the inbox
  mailbox,   \* the queue_ of the inbox: [from, m]
  inbound,   \* inbound_paxos_
  wire,      \* what the sockets of a process hold for its io thread
  waited,    \* rounds since the io thread entered select
  silence,   \* tick() - last_leader_contact_, which only matters up to the timeout
  heard,     \* history: the ballot of the last heartbeat of somebody else
  draining,  \* the node whose message loop is running, 0 for none
  passed,    \* who has made its pass in this round
  age        \* rounds since the beginning, up to MaxSkew

procVars  == <<ready, timers, waiters, mailbox>>
ioVars    == <<inbound, wire, waited>>
timeVars  == <<silence, heard>>
roundVars == <<draining, passed, age>>
timedVars == <<vars, procVars, ioVars, timeVars, roundVars, up>>

Timeout(i) == BaseTimeout + 3 * i

-----------------------------------------------------------------------------
(* Runtime.                                                                *)

\* How many of the timers are due in so many ticks; they are the first ones.
DueWithin(q, ticks) == Cardinality({k \in DOMAIN q : q[k].left <= ticks})

\* schedule with a delay: behind the timers that are due no later.
Scheduled(q, who, ticks) ==
  InsertAt(q, DueWithin(q, ticks) + 1, [who |-> who, left |-> ticks])

\* What is left of the queues, and the ticks that pass, when the first n timers
\* become ready.
Expiring(q, n) ==
  [ready  |-> [k \in 1..n |-> q[k].who],
   timers |-> [k \in 1..Len(q) - n |-> [who |-> q[k + n].who, left |-> q[k + n].left - q[1].left]],
   ticks  |-> q[1].left]

\* Slip: one timer is taken where all that are due should be.
DueOne(r, q) ==
  IF r # <<>> \/ q = <<>> THEN [ready |-> r, timers |-> q, ticks |-> 0] ELSE Expiring(q, 1)

\* What run_one finds in the ready queue r.  If nothing is ready, the tick
\* jumps to the next timer and all the timers due then become ready.
Due(r, q) ==
  IF r # <<>> \/ q = <<>>
    THEN [ready |-> r, timers |-> q, ticks |-> 0]
    ELSE Expiring(q, DueWithin(q, q[1].left))

Aged(i, ticks) == IF silence[i] + ticks > Timeout(i) THEN Timeout(i) ELSE silence[i] + ticks

\* The time limit of maybe_start_election has passed.
TimedOut(i, quiet) == ~is_leader[i] /\ quiet >= Timeout(i)

-----------------------------------------------------------------------------
(* A pass of main: pump_inbound, then run_steps(1).                        *)

\* The ready queue after pump_inbound: the first push wakes the message loop, the
\* only one that ever waits.
Woken(i) == IF inbound[i] # <<>> THEN ready[i] \o waiters[i] ELSE ready[i]

\* Slip: the waiter is read and not taken out.
StillWaitingAll(i) == waiters[i]

\* The waiters after it: the one that was woken is taken out.
StillWaiting(i) == IF inbound[i] # <<>> THEN <<>> ELSE waiters[i]

Pass(i) ==
  LET due   == Due(Woken(i), timers[i])
      who   == due.ready[1]
      quiet == Aged(i, due.ticks)
  IN  /\ draining = 0
      /\ i \in up \ passed
      /\ passed' = passed \cup {i}
      /\ mailbox' = [mailbox EXCEPT ![i] = @ \o inbound[i]]
      /\ inbound' = [inbound EXCEPT ![i] = <<>>]
      /\ waiters' = [waiters EXCEPT ![i] = StillWaiting(i)]
      /\ ready' = [ready EXCEPT ![i] = SubSeq(due.ready, 2, Len(due.ready))]  \* pop_front
      /\ \/ /\ who = "message"
            /\ draining' = i
            /\ timers' = [timers EXCEPT ![i] = due.timers]
            /\ silence' = [silence EXCEPT ![i] = quiet]
            /\ UNCHANGED vars
         \/ /\ who = "election"
            /\ timers' = [timers EXCEPT ![i] = Scheduled(due.timers, who, ElectionTicks)]
            /\ IF TimedOut(i, quiet)
                 THEN StartElection(i) /\ silence' = [silence EXCEPT ![i] = 0]
                 ELSE UNCHANGED vars /\ silence' = [silence EXCEPT ![i] = quiet]
            /\ UNCHANGED draining
         \/ /\ who = "heartbeat"
            /\ timers' = [timers EXCEPT ![i] = Scheduled(due.timers, who, HeartbeatTicks)]
            /\ silence' = [silence EXCEPT ![i] = quiet]
            /\ IF is_leader[i] THEN BroadcastHeartbeat(i) ELSE UNCHANGED vars
            /\ UNCHANGED draining
      /\ UNCHANGED <<wire, waited, heard, age, up>>

\* Slip: a heartbeat is not taken as word from the leader.
OnlyPrepareIsContact(i, m) == m.type = "Prepare" /\ m.ballot >= promised_ballot[i]

\* What resets last_leader_contact_, and so does winning an election.
IsContact(i, m) == m.type \in {"Prepare", "Heartbeat"} /\ m.ballot >= promised_ballot[i]

\* message_loop goes on with the next message without suspending ...
Handle(i) ==
  LET j == Head(mailbox[i]).from
      m == Head(mailbox[i]).m
      won == is_leader'[i] /\ ~is_leader[i]
  IN  /\ draining = i
      /\ mailbox[i] # <<>>
      /\ mailbox' = [mailbox EXCEPT ![i] = Tail(@)]
      /\ OnMessage(i, j, m, net)
      /\ silence' = [silence EXCEPT ![i] = IF IsContact(i, m) \/ won THEN 0 ELSE @]
      /\ heard' = [heard EXCEPT ![i] =
           IF m.type = "Heartbeat" /\ m.ballot >= promised_ballot[i] /\ j # i THEN m.ballot ELSE @]
      /\ UNCHANGED <<submits, ready, timers, waiters, ioVars, roundVars, up>>

\* Slip: the loop suspends after each message (await_ready that is always false).
WaitAlways(i) ==
  /\ draining = i
  /\ waiters' = [waiters EXCEPT ![i] = Append(@, "message")]
  /\ draining' = 0
  /\ UNCHANGED <<vars, ready, timers, mailbox, ioVars, timeVars, passed, age, up>>

\* ... and waits for one when there is none.
Wait(i) ==
  /\ draining = i
  /\ mailbox[i] = <<>>
  /\ waiters' = [waiters EXCEPT ![i] = Append(@, "message")]
  /\ draining' = 0
  /\ UNCHANGED <<vars, ready, timers, mailbox, ioVars, timeVars, passed, age, up>>

\* Later in its pass, main hands the lines of terminal and page to the node.
Submit(i, cmd) ==
  /\ draining = 0
  /\ i \in passed
  /\ ClientSubmit(i, cmd)
  /\ UNCHANGED <<procVars, ioVars, timeVars, roundVars, up>>

-----------------------------------------------------------------------------
(* The io thread and the clock.                                            *)

\* select has returned: something has arrived, or its time is over.
IoAwake(i) == i \in up /\ (wire[i] # <<>> \/ waited[i] >= SelectRounds)

\* What i has sent to j, as it arrives.
Outbound(i, j) == [k \in DOMAIN net[<<i, j>>] |-> [from |-> i, m |-> net[<<i, j>>][k]]]

\* What has arrived goes to the inbound queue; at the head of the loop the
\* outbound queue is sent, to processes that are up; select begins again.
IoLoop(i) ==
  /\ IoAwake(i)
  /\ inbound' = [inbound EXCEPT ![i] = @ \o wire[i] \o Outbound(i, i)]
  /\ wire' = [j \in Node |-> IF j = i THEN <<>>
                             ELSE IF j \in up THEN wire[j] \o Outbound(i, j) ELSE wire[j]]
  /\ net' = [c \in Channel |-> IF c[1] = i THEN <<>> ELSE net[c]]
  /\ waited' = [waited EXCEPT ![i] = 0]
  /\ UNCHANGED <<voteVars, leadVars, logVars, submits, procVars, timeVars, roundVars, up>>

\* Everybody that is up has had a heartbeat of leader i.
Established(i) ==
  /\ i \in up /\ is_leader[i]
  /\ \A j \in up : /\ promised_ballot[j] = active_ballot[i]
                   /\ j # i => heard[j] = active_ballot[i]

NextRound ==
  /\ draining = 0
  /\ up \subseteq passed
  /\ \A i \in Node : ~IoAwake(i)
  /\ age = MaxSkew => up = Node
  /\ passed' = {}
  /\ waited' = [i \in Node |-> IF i \in up THEN waited[i] + 1 ELSE 0]
  /\ age' = IF age < MaxSkew THEN age + 1 ELSE age
  /\ UNCHANGED <<vars, procVars, inbound, wire, timeVars, draining, up>>

Start(i) ==
  /\ draining = 0
  /\ i \notin up
  /\ up' = up \cup {i}
  /\ UNCHANGED <<vars, procVars, ioVars, timeVars, roundVars>>

\* start schedules the three loops; they run up to their first suspension.
TimedInit ==
  /\ Init
  /\ up = {}
  /\ ready = [i \in Node |-> <<"message", "election", "heartbeat">>]
  /\ timers = [i \in Node |-> <<>>]
  /\ waiters = [i \in Node |-> <<>>]
  /\ mailbox = [i \in Node |-> <<>>]
  /\ inbound = [i \in Node |-> <<>>]
  /\ wire = [i \in Node |-> <<>>]
  /\ waited = [i \in Node |-> 0]
  /\ silence = [i \in Node |-> 0]
  /\ heard = [i \in Node |-> -1]
  /\ draining = 0 /\ passed = {} /\ age = 0

TimedNext ==
  \/ NextRound
  \/ \E i \in Node :
       \/ Pass(i) \/ Handle(i) \/ Wait(i) \/ IoLoop(i) \/ Start(i)
       \/ \E cmd \in Command : Submit(i, cmd)

TimedSpec == TimedInit /\ [][TimedNext]_timedVars

-----------------------------------------------------------------------------
Coroutine == {"message", "election", "heartbeat"}

\* A message with its sender.
Packet == [from : Node, m : Message]

\* Every variable has its type, those of Paxos too; a timer is always due later
\* than now (run_one takes all the timers of the tick it jumps to) and they are
\* kept in order.
TimedTypeOK ==
  /\ TypeOK
  /\ up \subseteq Node /\ passed \subseteq up
  /\ draining \in passed \cup {0}
  /\ age \in 0..MaxSkew
  /\ \A i \in Node :
       /\ {ready[i], waiters[i]} \subseteq Seq(Coroutine)
       /\ timers[i] \in Seq([who : Coroutine, left : 1..MaxOf(HeartbeatTicks, ElectionTicks)])
       /\ \A k \in 2..Len(timers[i]) : timers[i][k - 1].left <= timers[i][k].left
       /\ {mailbox[i], inbound[i], wire[i]} \subseteq Seq(Packet)
       /\ waited[i] \in 0..SelectRounds
       /\ silence[i] \in 0..Timeout(i)
       /\ heard[i] \in Ballot \cup {-1}

\* A coroutine is in one place: ready, asleep, waiting at the mailbox, or the one
\* that runs.  In two places it would be resumed while it runs or after its end;
\* in none, it never runs again (runtime.hpp, nos.hpp).
OnePlace ==
  \A i \in Node : \A c \in Coroutine :
    Cardinality({k \in DOMAIN ready[i] : ready[i][k] = c})
      + Cardinality({k \in DOMAIN timers[i] : timers[i][k].who = c})
      + Cardinality({k \in DOMAIN waiters[i] : waiters[i][k] = c})
      + (IF c = "message" /\ draining = i THEN 1 ELSE 0) = 1

\* No message is left in the mailbox while the message loop sleeps: push wakes
\* it, and it only waits on an empty mailbox (nos.hpp).
NoLostWakeUp ==
  \A i \in Node :
    mailbox[i] # <<>> => draining = i \/ \E k \in DOMAIN ready[i] : ready[i][k] = "message"

\* A leader everybody has heard keeps its office: heartbeats every 2 ticks, in
\* batches of 50 ms, come before an election timeout of 17 ticks or more, also
\* while commands, with the Accepts, Accepteds and Commits they lead to, keep
\* the message loops of leader and followers busy (paxos.cpp, runtime.hpp,
\* paxos_tcp_transport.cpp).
LeaderKeepsOffice ==
  [][\A i \in Node : Established(i) => Established(i)' \/ up' # up]_timedVars

=============================================================================
