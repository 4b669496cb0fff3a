--------------------------- MODULE RuntimeProofs ---------------------------
(***************************************************************************)
(* No wake-up is lost, every coroutine is in one place, and every variable *)
(* has its type, for any number of nodes and any times.                    *)
(***************************************************************************)
EXTENDS Runtime, PaxosProofs, FunctionTheorems

Timer == [who : Coroutine, left : Int]

Queues ==
  /\ ready \in [Node -> Seq(Coroutine)] /\ waiters \in [Node -> Seq(Coroutine)]
  /\ timers \in [Node -> Seq(Timer)]
  /\ DOMAIN mailbox = Node

Holds(q, c) == \E k \in DOMAIN q : q[k] = c

\* The message loop is somewhere, and where it waits there is nothing to do.
LoopInv ==
  \A i \in Node :
    /\ draining = i \/ Holds(ready[i], "message") \/ Holds(waiters[i], "message")
    /\ mailbox[i] # <<>> => draining = i \/ Holds(ready[i], "message")

WakeInv == Queues /\ LoopInv

\* 0 stands for no node.
LEMMA NodeIsPositive == \A i \in Node : i # 0
  BY NodeAssumption

-----------------------------------------------------------------------------
(* Sequences.                                                              *)

\* The timers due within some ticks are among those there are.
LEMMA DueWithinType ==
  ASSUME NEW q \in Seq(Timer), NEW t
  PROVE  DueWithin(q, t) \in 0..Len(q)
<1> DEFINE D == {k \in 1..Len(q) : q[k].left <= t}
<1>1. Len(q) \in Nat /\ DOMAIN q = 1..Len(q)
  OBVIOUS
<1>2. IsFiniteSet(1..Len(q)) /\ Cardinality(1..Len(q)) = Len(q)
  BY <1>1, FS_Interval
<1>3. D \subseteq 1..Len(q) /\ D = {k \in DOMAIN q : q[k].left <= t}
  BY <1>1
<1>4. DueWithin(q, t) = Cardinality(D)
  BY <1>3 DEF DueWithin
<1> HIDE DEF D
<1>5. Cardinality(D) \in Nat /\ Cardinality(D) <= Len(q)
  BY <1>2, <1>3, FS_Subset, FS_CardinalityType
<1> QED
  BY <1>1, <1>4, <1>5

\* A scheduled coroutine is one more timer.
LEMMA ScheduledType ==
  ASSUME NEW q \in Seq(Timer), NEW c \in Coroutine, NEW t \in Int
  PROVE  Scheduled(q, c, t) \in Seq(Timer)
<1> DEFINE n == DueWithin(q, t)
           x == [who |-> c, left |-> t]
<1>1. n \in 0..Len(q) /\ Len(q) \in Nat /\ x \in Timer
  <2>1. n \in 0..Len(q)
    BY DueWithinType
  <2>2. x \in Timer
    BY DEF Timer
  <2> HIDE DEF n, x
  <2> QED
    BY <2>1, <2>2
<1> HIDE DEF n, x
<1>2. SubSeq(q, 1, n) \in Seq(Timer) /\ SubSeq(q, n + 1, Len(q)) \in Seq(Timer)
  BY <1>1, SubSeqProperties
<1>3. n + 1 - 1 = n
  BY <1>1
<1>4. SubSeq(q, 1, n) \o <<x>> \o SubSeq(q, n + 1, Len(q)) \in Seq(Timer)
  BY <1>1, <1>2
<1> QED
  BY <1>3, <1>4 DEF Scheduled, InsertAt, n, x

\* What run_one finds are queues again; a ready queue that was not empty is
\* what it finds.
LEMMA DueType ==
  ASSUME NEW r \in Seq(Coroutine), NEW q \in Seq(Timer)
  PROVE  /\ Due(r, q).ready \in Seq(Coroutine) /\ Due(r, q).timers \in Seq(Timer)
         /\ r # <<>> => Due(r, q).ready = r
<1>1. CASE r # <<>> \/ q = <<>>
  BY <1>1 DEF Due
<1>2. CASE r = <<>> /\ q # <<>>
  <2> DEFINE n == DueWithin(q, q[1].left)
  <2>1. n \in 0..Len(q) /\ Len(q) \in Nat /\ 1 \in 1..Len(q)
    BY <1>2, DueWithinType
  <2> HIDE DEF n
  <2>2. Due(r, q) = Expiring(q, n)
    BY <1>2 DEF Due, n
  <2>3. \A k \in 1..n : q[k].who \in Coroutine
    <3>1. \A k \in 1..n : k \in 1..Len(q)
      BY <2>1
    <3>2. \A k \in 1..Len(q) : q[k] \in Timer
      OBVIOUS
    <3> QED
      BY <3>1, <3>2 DEF Timer
  <2>4. [k \in 1..n |-> q[k].who] \in Seq(Coroutine)
    <3> DEFINE f == [k \in 1..n |-> q[k].who]
    <3>1. n \in Nat /\ f \in [1..n -> Coroutine]
      BY <2>1, <2>3
    <3> HIDE DEF f
    <3>2. f \in Seq(Coroutine)
      BY <3>1
    <3> QED
      BY <3>2 DEF f
  <2>5. \A k \in 1..Len(q) - n :
          [who |-> q[k + n].who, left |-> q[k + n].left - q[1].left] \in Timer
    <3> SUFFICES ASSUME NEW k \in 1..Len(q) - n
                 PROVE  [who |-> q[k + n].who, left |-> q[k + n].left - q[1].left] \in Timer
      OBVIOUS
    <3>1. k + n \in 1..Len(q)
      BY <2>1
    <3>2. q[k + n] \in Timer /\ q[1] \in Timer
      BY <2>1, <3>1
    <3> QED
      BY <3>2 DEF Timer
  <2>6. [k \in 1..Len(q) - n |-> [who |-> q[k + n].who, left |-> q[k + n].left - q[1].left]]
          \in Seq(Timer)
    <3> DEFINE f == [k \in 1..Len(q) - n |-> [who |-> q[k + n].who, left |-> q[k + n].left - q[1].left]]
    <3>1. Len(q) - n \in Nat
      BY <2>1
    <3>2. f \in [1..Len(q) - n -> Timer]
      BY <2>5
    <3> HIDE DEF f
    <3>3. f \in Seq(Timer)
      BY <3>1, <3>2
    <3> QED
      BY <3>3 DEF f
  <2>7. /\ Expiring(q, n).ready = [k \in 1..n |-> q[k].who]
        /\ Expiring(q, n).timers =
             [k \in 1..Len(q) - n |-> [who |-> q[k + n].who, left |-> q[k + n].left - q[1].left]]
    BY DEF Expiring
  <2> QED
    BY <1>2, <2>2, <2>4, <2>6, <2>7
<1> QED
  BY <1>1, <1>2

-----------------------------------------------------------------------------
(* The steps.                                                              *)

\* Where the message loop is when a pass has pumped the inbound queue: ready, or
\* waiting with nothing to do.
LEMMA Pumped ==
  ASSUME WakeInv, draining = 0, NEW i \in Node
  PROVE  /\ Woken(i) \in Seq(Coroutine)
         /\ \/ Holds(Woken(i), "message")
            \/ /\ inbound[i] = <<>> /\ mailbox[i] = <<>>
               /\ Holds(waiters[i], "message") /\ StillWaiting(i) = waiters[i]
<1>1. /\ ready[i] \in Seq(Coroutine) /\ waiters[i] \in Seq(Coroutine)
      /\ Holds(ready[i], "message") \/ Holds(waiters[i], "message")
      /\ mailbox[i] # <<>> => Holds(ready[i], "message")
  BY NodeIsPositive DEF WakeInv, Queues, LoopInv
<1>2. CASE inbound[i] = <<>>
  <2>1. Woken(i) = ready[i] /\ StillWaiting(i) = waiters[i]
    BY <1>2, Zenon DEF Woken, StillWaiting
  <2> QED
    BY <1>1, <1>2, <2>1
<1>3. CASE inbound[i] # <<>>
  <2>1. Woken(i) = ready[i] \o waiters[i]
    BY <1>3, Zenon DEF Woken
  <2>2. Woken(i) \in Seq(Coroutine)
    BY <1>1, <2>1
  <2>3. CASE Holds(ready[i], "message")
    <3>1. PICK k \in 1..Len(ready[i]) : ready[i][k] = "message"
      BY <1>1, <2>3 DEF Holds
    <3> DEFINE r == ready[i]
               q == waiters[i]
    <3>2. r \in Seq(Coroutine) /\ q \in Seq(Coroutine) /\ k \in 1..Len(r) /\ r[k] = "message"
      BY <1>1, <3>1
    <3> HIDE DEF r, q
    <3>3. k \in DOMAIN (r \o q) /\ (r \o q)[k] = "message"
      BY <3>2
    <3>4. Holds(r \o q, "message")
      BY <3>3 DEF Holds
    <3> QED
      BY <2>1, <2>2, <3>4 DEF r, q
  <2>4. CASE Holds(waiters[i], "message")
    <3>1. PICK k \in 1..Len(waiters[i]) : waiters[i][k] = "message"
      BY <1>1, <2>4 DEF Holds
    <3> DEFINE r == ready[i]
               q == waiters[i]
    <3>2. r \in Seq(Coroutine) /\ q \in Seq(Coroutine) /\ k \in 1..Len(q) /\ q[k] = "message"
      BY <1>1, <3>1
    <3> HIDE DEF r, q
    <3>3. /\ Len(r) + k \in DOMAIN (r \o q)
          /\ (r \o q)[Len(r) + k] = "message"
      BY <3>2
    <3>4. Holds(r \o q, "message")
      BY <3>3 DEF Holds
    <3> QED
      BY <2>1, <2>2, <3>4 DEF r, q
  <2> QED
    BY <1>1, <2>2, <2>3, <2>4
<1> QED
  BY <1>2, <1>3

\* A pass resumes the head of what is ready: the message loop, or it stays where
\* it was.
LEMMA PassKeeps ==
  ASSUME WakeInv, NEW i \in Node, Pass(i)
  PROVE  WakeInv'
<1> DEFINE due == Due(Woken(i), timers[i])
           who == due.ready[1]
<1>1. /\ draining = 0
      /\ mailbox' = [mailbox EXCEPT ![i] = @ \o inbound[i]]
      /\ waiters' = [waiters EXCEPT ![i] = StillWaiting(i)]
      /\ ready' = [ready EXCEPT ![i] = SubSeq(due.ready, 2, Len(due.ready))]
      /\ \/ /\ who = "message" /\ draining' = i
            /\ timers' = [timers EXCEPT ![i] = due.timers]
         \/ /\ who \in {"election", "heartbeat"} /\ draining' = draining
            /\ \E t \in Nat : timers' = [timers EXCEPT ![i] = Scheduled(due.timers, who, t)]
  BY TimeAssumption DEF Pass
<1>2. /\ Woken(i) \in Seq(Coroutine)
      /\ \/ Holds(Woken(i), "message")
         \/ /\ inbound[i] = <<>> /\ mailbox[i] = <<>>
            /\ Holds(waiters[i], "message") /\ StillWaiting(i) = waiters[i]
  BY <1>1, Pumped
<1>3. timers[i] \in Seq(Timer)
  BY DEF WakeInv, Queues
<1>4. /\ due.ready \in Seq(Coroutine) /\ due.timers \in Seq(Timer)
      /\ Woken(i) # <<>> => due.ready = Woken(i)
  BY <1>2, <1>3, DueType
<1> HIDE DEF due
<1>5. Queues'
  <2>1. SubSeq(due.ready, 2, Len(due.ready)) \in Seq(Coroutine)
    <3> DEFINE r == due.ready
    <3>1. r \in Seq(Coroutine) /\ Len(r) \in Nat
      BY <1>4
    <3> HIDE DEF r
    <3>2. SubSeq(r, 2, Len(r)) \in Seq(Coroutine)
      BY <3>1
    <3> QED
      BY <3>2 DEF r
  <2>2. StillWaiting(i) \in Seq(Coroutine)
    BY DEF WakeInv, Queues, StillWaiting
  <2>3. ASSUME NEW t \in Nat, who \in {"election", "heartbeat"}
        PROVE  Scheduled(due.timers, who, t) \in Seq(Timer)
    <3>1. who \in Coroutine /\ t \in Int
      BY <2>3 DEF Coroutine
    <3> QED
      BY <1>4, <3>1, ScheduledType
  <2>4. timers' \in [Node -> Seq(Timer)]
    BY <1>1, <1>4, <2>3 DEF WakeInv, Queues
  <2> QED
    BY <1>1, <2>1, <2>2, <2>4 DEF WakeInv, Queues
<1>6. \/ draining' = i
      \/ Holds(ready'[i], "message")
      \/ mailbox'[i] = <<>> /\ Holds(waiters'[i], "message")
  <2>1. CASE Holds(Woken(i), "message")
    <3>1. PICK k \in 1..Len(Woken(i)) : Woken(i)[k] = "message"
      BY <1>2, <2>1 DEF Holds
    <3>2. Woken(i) # <<>> /\ due.ready = Woken(i)
      BY <1>2, <1>4, <3>1
    <3>3. CASE k = 1
      BY <1>1, <3>1, <3>2, <3>3
    <3>4. CASE k # 1
      <4> DEFINE w == Woken(i)
                 t == SubSeq(w, 2, Len(w))
      <4>1. ready'[i] = t
        BY <1>1, <3>2 DEF WakeInv, Queues
      <4>2. w \in Seq(Coroutine) /\ k \in 2..Len(w) /\ w[k] = "message" /\ Len(w) \in Nat
        BY <1>2, <3>1, <3>4
      <4> HIDE DEF w
      <4>3. Len(t) = Len(w) - 1 /\ t \in Seq(Coroutine) /\ t[k - 1] = "message"
        BY <4>2
      <4>4. k - 1 \in DOMAIN t
        BY <4>2, <4>3
      <4> QED
        BY <4>1, <4>3, <4>4 DEF Holds
    <3> QED
      BY <3>3, <3>4
  <2>2. CASE /\ inbound[i] = <<>> /\ mailbox[i] = <<>>
             /\ Holds(waiters[i], "message") /\ StillWaiting(i) = waiters[i]
    <3>1. mailbox'[i] = <<>> \o <<>> /\ waiters'[i] = waiters[i]
      BY <1>1, <2>2 DEF WakeInv, Queues
    <3> QED
      BY <2>2, <3>1, ConcatEmptySeq
  <2> QED
    BY <1>2, <2>1, <2>2
<1>7. ASSUME NEW j \in Node, j # i
      PROVE  /\ ready'[j] = ready[j] /\ waiters'[j] = waiters[j] /\ mailbox'[j] = mailbox[j]
             /\ draining = j => draining' = j
  BY <1>1, <1>7, NodeIsPositive DEF WakeInv, Queues
<1>8. LoopInv'
  BY <1>6, <1>7 DEF WakeInv, LoopInv, Holds
<1> QED
  BY <1>5, <1>8 DEF WakeInv

\* Every step keeps the message loop where messages find it.
LEMMA NextWakes == WakeInv /\ [TimedNext]_timedVars => WakeInv'
<1> SUFFICES ASSUME WakeInv, [TimedNext]_timedVars PROVE WakeInv'
  OBVIOUS
<1>1. ASSUME UNCHANGED <<ready, timers, waiters, mailbox, draining>> PROVE WakeInv'
  BY <1>1 DEF WakeInv, Queues, LoopInv, Holds
<1>2. ASSUME NEW i \in Node, Pass(i) PROVE WakeInv'
  BY <1>2, PassKeeps
<1>3. ASSUME NEW i \in Node, Handle(i) PROVE WakeInv'
  <2>1. /\ UNCHANGED <<ready, timers, waiters, draining>> /\ draining = i
        /\ mailbox' = [mailbox EXCEPT ![i] = Tail(@)]
    BY <1>3 DEF Handle, roundVars
  <2>2. ASSUME NEW j \in Node, j # i PROVE mailbox'[j] = mailbox[j]
    BY <2>1, <2>2 DEF WakeInv, Queues
  <2> QED
    BY <2>1, <2>2 DEF WakeInv, Queues, LoopInv, Holds
<1>4. ASSUME NEW i \in Node, Wait(i) PROVE WakeInv'
  <2>1. /\ UNCHANGED <<ready, timers, mailbox>> /\ draining = i /\ draining' = 0
        /\ mailbox[i] = <<>>
        /\ waiters' = [waiters EXCEPT ![i] = Append(@, "message")]
    BY <1>4 DEF Wait
  <2>2. /\ waiters[i] \in Seq(Coroutine) /\ "message" \in Coroutine
        /\ waiters'[i] = Append(waiters[i], "message")
    BY <2>1 DEF WakeInv, Queues, Coroutine
  <2>3. waiters'[i] \in Seq(Coroutine) /\ Holds(waiters'[i], "message")
    <3>1. /\ Append(waiters[i], "message") \in Seq(Coroutine)
          /\ Len(waiters[i]) + 1 \in DOMAIN Append(waiters[i], "message")
          /\ Append(waiters[i], "message")[Len(waiters[i]) + 1] = "message"
      BY <2>2, AppendProperties
    <3> QED
      BY <2>2, <3>1 DEF Holds
  <2>4. waiters' \in [Node -> Seq(Coroutine)]
    BY <2>1, <2>2, <2>3 DEF WakeInv, Queues
  <2>5. ASSUME NEW j \in Node, j # i
        PROVE  waiters'[j] = waiters[j] /\ draining # j
    BY <2>1, <2>5 DEF WakeInv, Queues
  <2>6. LoopInv'
    BY <2>1, <2>3, <2>5 DEF WakeInv, LoopInv, Holds
  <2> QED
    BY <2>1, <2>4, <2>6 DEF WakeInv, Queues
<1>5. ASSUME NEW i \in Node, IoLoop(i) \/ Start(i) \/ \E cmd \in Command : Submit(i, cmd) PROVE WakeInv'
  BY <1>1, <1>5 DEF IoLoop, Start, Submit, procVars, roundVars
<1>6. ASSUME NextRound PROVE WakeInv'
  BY <1>1, <1>6 DEF NextRound, procVars, roundVars
<1>7. ASSUME UNCHANGED timedVars PROVE WakeInv'
  BY <1>1, <1>7 DEF timedVars, procVars, roundVars
<1> QED
  BY <1>2, <1>3, <1>4, <1>5, <1>6, <1>7 DEF TimedNext

LEMMA InitWakes == TimedInit => WakeInv
<1> SUFFICES ASSUME TimedInit PROVE WakeInv
  OBVIOUS
<1>1. <<"message", "election", "heartbeat">> \in Seq(Coroutine)
  BY DEF Coroutine
<1>2. Queues
  BY <1>1 DEF TimedInit, Queues
<1>3. Holds(<<"message", "election", "heartbeat">>, "message")
  BY DEF Holds
<1>4. \A i \in Node : Holds(ready[i], "message") /\ mailbox[i] = <<>>
  BY <1>3 DEF TimedInit
<1> QED
  BY <1>2, <1>4 DEF WakeInv, LoopInv

\* push finds the message loop waiting or finds it awake, in every behaviour.
THEOREM WakeUps == TimedSpec => []NoLostWakeUp
<1>1. WakeInv => NoLostWakeUp
  BY DEF WakeInv, LoopInv, NoLostWakeUp, Holds
<1> QED
  BY <1>1, InitWakes, NextWakes, PTL DEF TimedSpec

-----------------------------------------------------------------------------
(* Each coroutine is in one place: counting in the queues.                 *)

\* Where and how often c is in a queue.
Positions(q, c) == {k \in DOMAIN q : q[k] = c}
Count(q, c)     == Cardinality(Positions(q, c))

\* The coroutines of the timers, in order.
Whos(q) == [k \in DOMAIN q |-> q[k].who]

LEMMA CountType ==
  ASSUME NEW S, NEW q \in Seq(S), NEW c
  PROVE  IsFiniteSet(Positions(q, c)) /\ Count(q, c) \in Nat
<1>1. Len(q) \in Nat /\ Positions(q, c) \in SUBSET (1..Len(q))
  BY DEF Positions
<1>2. IsFiniteSet(1..Len(q))
  BY <1>1, FS_Interval
<1>3. IsFiniteSet(Positions(q, c))
  BY <1>1, <1>2, FS_Subset
<1> QED
  BY <1>3, FS_CardinalityType DEF Count

\* What is put behind a queue is counted with it.
LEMMA CountConcat ==
  ASSUME NEW S, NEW a \in Seq(S), NEW b \in Seq(S), NEW c
  PROVE  Count(a \o b, c) = Count(a, c) + Count(b, c)
<1> DEFINE B == {Len(a) + k : k \in Positions(b, c)}
           f == [k \in Positions(b, c) |-> Len(a) + k]
<1>1. Len(a) \in Nat /\ Len(b) \in Nat /\ DOMAIN a = 1..Len(a) /\ DOMAIN b = 1..Len(b)
  OBVIOUS
<1>2. /\ a \o b \in Seq(S) /\ DOMAIN (a \o b) = 1..Len(a) + Len(b)
      /\ \A k \in 1..Len(a) : (a \o b)[k] = a[k]
      /\ \A k \in 1..Len(b) : (a \o b)[Len(a) + k] = b[k]
  BY <1>1, ConcatProperties
<1>3. Positions(a \o b, c) = Positions(a, c) \cup B
  <2>1. ASSUME NEW k \in Positions(a \o b, c) PROVE k \in Positions(a, c) \cup B
    <3>1. k \in 1..Len(a) + Len(b) /\ (a \o b)[k] = c
      BY <1>2 DEF Positions
    <3>2. CASE k <= Len(a)
      BY <1>1, <1>2, <3>1, <3>2 DEF Positions
    <3>3. CASE ~(k <= Len(a))
      <4>1. k - Len(a) \in 1..Len(b) /\ Len(a) + (k - Len(a)) = k
        BY <1>1, <3>1, <3>3
      <4>2. b[k - Len(a)] = c
        BY <1>2, <3>1, <4>1
      <4>3. k - Len(a) \in Positions(b, c)
        BY <1>1, <4>1, <4>2 DEF Positions
      <4> QED
        BY <4>1, <4>3
    <3> QED
      BY <3>2, <3>3
  <2>2. ASSUME NEW k \in Positions(a, c) PROVE k \in Positions(a \o b, c)
    BY <1>1, <1>2 DEF Positions
  <2>3. ASSUME NEW k \in Positions(b, c) PROVE Len(a) + k \in Positions(a \o b, c)
    <3>1. k \in 1..Len(b) /\ b[k] = c
      BY <1>1 DEF Positions
    <3>2. Len(a) + k \in 1..Len(a) + Len(b)
      BY <1>1, <3>1
    <3> QED
      BY <1>2, <3>1, <3>2 DEF Positions
  <2> QED
    BY <2>1, <2>2, <2>3
<1>4. Positions(a, c) \cap B = {}
  <2>1. \A k \in Positions(a, c) : k \in 1..Len(a)
    BY <1>1 DEF Positions
  <2>2. \A k \in Positions(b, c) : k \in 1..Len(b)
    BY <1>1 DEF Positions
  <2> QED
    BY <1>1, <2>1, <2>2
<1>5. IsFiniteSet(B) /\ Cardinality(B) = Count(b, c)
  <2>1. f \in Bijection(Positions(b, c), B)
    <3>1. \A k \in Positions(b, c) : k \in Nat
      BY <1>1 DEF Positions
    <3>2. f \in [Positions(b, c) -> B]
      OBVIOUS
    <3>3. \A k, l \in Positions(b, c) : f[k] = f[l] => k = l
      BY <1>1, <3>1
    <3>4. \A y \in B : \E k \in Positions(b, c) : f[k] = y
      OBVIOUS
    <3> QED
      BY <3>2, <3>3, <3>4, Fun_IsBij
  <2>2. ExistsBijection(Positions(b, c), B)
    BY <2>1 DEF ExistsBijection
  <2> HIDE DEF B, f
  <2> QED
    BY <2>2, CountType, FS_Bijection DEF Count
<1> HIDE DEF B, f
<1>6. /\ IsFiniteSet(Positions(a, c)) /\ Count(a, c) \in Nat /\ Count(b, c) \in Nat
  BY CountType
<1>7. Cardinality(Positions(a, c) \cup B)
        = Cardinality(Positions(a, c)) + Cardinality(B) - Cardinality({})
  BY <1>4, <1>5, <1>6, FS_Union
<1>8. Cardinality({}) = 0
  BY FS_EmptySet
<1> QED
  BY <1>3, <1>5, <1>6, <1>7, <1>8 DEF Count

LEMMA CountNone ==
  ASSUME NEW c
  PROVE  Count(<<>>, c) = 0
<1>1. Positions(<<>>, c) = {}
  <2>1. DOMAIN <<>> = {}
    OBVIOUS
  <2> QED
    BY <2>1 DEF Positions
<1>2. Count(<<>>, c) = Cardinality(Positions(<<>>, c)) /\ Cardinality({}) = 0
  BY FS_EmptySet DEF Count
<1> QED
  BY <1>1, <1>2, Zenon

LEMMA CountOne == \A x, c : Count(<<x>>, c) = IF x = c THEN 1 ELSE 0
<1> SUFFICES ASSUME NEW x, NEW c PROVE Count(<<x>>, c) = IF x = c THEN 1 ELSE 0
  OBVIOUS
<1>1. Positions(<<x>>, c) = IF x = c THEN {1} ELSE {}
  <2>1. DOMAIN <<x>> = {1} /\ <<x>>[1] = x
    OBVIOUS
  <2> QED
    BY <2>1 DEF Positions
<1>2. Cardinality({1}) = 1 /\ Cardinality({}) = 0
  BY FS_Singleton, FS_EmptySet
<1> QED
  BY <1>1, <1>2 DEF Count

\* A queue cut in two is counted in two.
LEMMA CountSplit ==
  ASSUME NEW S, NEW q \in Seq(S), NEW n \in 0..Len(q), NEW c
  PROVE  /\ SubSeq(q, 1, n) \in Seq(S) /\ SubSeq(q, n + 1, Len(q)) \in Seq(S)
         /\ Count(SubSeq(q, 1, n), c) + Count(SubSeq(q, n + 1, Len(q)), c) = Count(q, c)
<1>1. Len(q) \in Nat /\ n \in Nat /\ n <= Len(q)
  OBVIOUS
<1>2. SubSeq(q, 1, n) \in Seq(S) /\ SubSeq(q, n + 1, Len(q)) \in Seq(S)
  BY <1>1, SubSeqProperties
<1>3. SubSeq(q, 1, n) \o SubSeq(q, n + 1, Len(q)) = SubSeq(q, 1, Len(q))
  <2>1. 1 \in 1..Len(q) + 1 /\ n \in 1 - 1..Len(q) /\ Len(q) \in n..Len(q)
    BY <1>1
  <2> QED
    BY <2>1, ConcatAdjacentSubSeq
<1>4. SubSeq(q, 1, Len(q)) = q
  BY SubSeqFull
<1> DEFINE a == SubSeq(q, 1, n)
           b == SubSeq(q, n + 1, Len(q))
<1>5. a \in Seq(S) /\ b \in Seq(S) /\ a \o b = q
  BY <1>2, <1>3, <1>4
<1> HIDE DEF a, b
<1>6. Count(a \o b, c) = Count(a, c) + Count(b, c)
  BY <1>5, CountConcat
<1>7. Count(a, c) + Count(b, c) = Count(q, c)
  BY <1>5, <1>6
<1> QED
  BY <1>2, <1>7 DEF a, b

\* The head is counted, then the rest.
LEMMA CountHead ==
  ASSUME NEW S, NEW q \in Seq(S), q # <<>>, NEW c
  PROVE  Count(q, c) = (IF q[1] = c THEN 1 ELSE 0) + Count(SubSeq(q, 2, Len(q)), c)
<1>1. Len(q) \in Nat /\ 1 \in 1..Len(q) /\ 1 \in 0..Len(q)
  OBVIOUS
<1>2. SubSeq(q, 1, 1) = <<q[1]>>
  <2>1. SubSeq(q, 1, 1) = <<q[1]>> \o SubSeq(q, 1 + 1, 1)
    BY <1>1, SubSeqRecursiveFirst
  <2>2. SubSeq(q, 1 + 1, 1) = <<>>
    BY SubSeqEmpty
  <2>3. q[1] \in S
    BY <1>1
  <2>4. <<q[1]>> \in Seq(S)
    BY <2>3
  <2>5. <<q[1]>> \o <<>> = <<q[1]>>
    BY <2>4, ConcatEmptySeq
  <2> QED
    BY <2>1, <2>2, <2>5
<1>3. Count(SubSeq(q, 1, 1), c) + Count(SubSeq(q, 1 + 1, Len(q)), c) = Count(q, c)
  BY <1>1, CountSplit
<1> DEFINE rest == SubSeq(q, 2, Len(q))
<1>4. Count(<<q[1]>>, c) + Count(rest, c) = Count(q, c)
  <2>1. 1 + 1 = 2
    OBVIOUS
  <2> QED
    BY <1>2, <1>3, <2>1
<1>5. Count(<<q[1]>>, c) = IF q[1] = c THEN 1 ELSE 0
  BY CountOne
<1> HIDE DEF rest
<1>6. Count(q, c) = (IF q[1] = c THEN 1 ELSE 0) + Count(rest, c)
  BY <1>4, <1>5
<1> QED
  BY <1>6 DEF rest

LEMMA InsertAtIs ==
  ASSUME NEW q, NEW m, NEW x
  PROVE  InsertAt(q, m, x) = SubSeq(q, 1, m - 1) \o <<x>> \o SubSeq(q, m, Len(q))
BY DEF InsertAt

LEMMA WhosType ==
  ASSUME NEW q \in Seq(Timer)
  PROVE  /\ Whos(q) \in Seq(Coroutine) /\ Len(Whos(q)) = Len(q)
         /\ \A k \in 1..Len(q) : Whos(q)[k] = q[k].who
<1>1. Len(q) \in Nat /\ DOMAIN q = 1..Len(q) /\ \A k \in 1..Len(q) : q[k] \in Timer
  OBVIOUS
<1>2. \A k \in 1..Len(q) : q[k].who \in Coroutine
  BY <1>1 DEF Timer
<1>3. Whos(q) \in [1..Len(q) -> Coroutine]
  BY <1>1, <1>2 DEF Whos
<1>4. \A k \in 1..Len(q) : Whos(q)[k] = q[k].who
  BY <1>1 DEF Whos
<1>5. Whos(q) \in Seq(Coroutine) /\ Len(Whos(q)) = Len(q)
  BY <1>1, <1>3
<1> QED
  BY <1>4, <1>5

LEMMA WhosConcat ==
  ASSUME NEW a \in Seq(Timer), NEW b \in Seq(Timer)
  PROVE  Whos(a \o b) = Whos(a) \o Whos(b)
<1> DEFINE n == Len(a) + Len(b)
           x == Whos(a \o b)
           y == Whos(a) \o Whos(b)
<1>1. Len(a) \in Nat /\ Len(b) \in Nat /\ n \in Nat
  OBVIOUS
<1>2. /\ a \o b \in Seq(Timer) /\ Len(a \o b) = n
      /\ \A k \in 1..n : (a \o b)[k] = IF k <= Len(a) THEN a[k] ELSE b[k - Len(a)]
  BY ConcatProperties
<1>3. /\ x \in Seq(Coroutine) /\ Len(x) = n
      /\ \A k \in 1..n : x[k] = (a \o b)[k].who
  BY <1>2, WhosType
<1>4. /\ Whos(a) \in Seq(Coroutine) /\ Len(Whos(a)) = Len(a)
      /\ Whos(b) \in Seq(Coroutine) /\ Len(Whos(b)) = Len(b)
      /\ \A k \in 1..Len(a) : Whos(a)[k] = a[k].who
      /\ \A k \in 1..Len(b) : Whos(b)[k] = b[k].who
  BY WhosType
<1>5. /\ y \in Seq(Coroutine) /\ Len(y) = n
      /\ \A k \in 1..n : y[k] = IF k <= Len(a) THEN Whos(a)[k] ELSE Whos(b)[k - Len(a)]
  <2> DEFINE u == Whos(a)
             v == Whos(b)
  <2>1. u \in Seq(Coroutine) /\ v \in Seq(Coroutine) /\ Len(u) = Len(a) /\ Len(v) = Len(b)
    BY <1>4
  <2> HIDE DEF u, v
  <2>2. /\ u \o v \in Seq(Coroutine) /\ Len(u \o v) = Len(u) + Len(v)
        /\ \A k \in 1..Len(u) + Len(v) :
             (u \o v)[k] = IF k <= Len(u) THEN u[k] ELSE v[k - Len(u)]
    BY <2>1, ConcatProperties
  <2>3. /\ u \o v \in Seq(Coroutine) /\ Len(u \o v) = n
        /\ \A k \in 1..n : (u \o v)[k] = IF k <= Len(a) THEN u[k] ELSE v[k - Len(a)]
    BY <2>1, <2>2
  <2> QED
    BY <2>3 DEF u, v
<1> HIDE DEF x, y
<1>6. \A k \in 1..n : x[k] = y[k]
  <2> SUFFICES ASSUME NEW k \in 1..n PROVE x[k] = y[k]
    OBVIOUS
  <2>1. CASE k <= Len(a)
    <3>1. k \in 1..Len(a)
      BY <1>1, <2>1
    <3> QED
      BY <1>2, <1>3, <1>4, <1>5, <2>1, <3>1
  <2>2. CASE ~(k <= Len(a))
    <3>1. k - Len(a) \in 1..Len(b)
      BY <1>1, <2>2
    <3> QED
      BY <1>2, <1>3, <1>4, <1>5, <2>2, <3>1
  <2> QED
    BY <2>1, <2>2
<1>7. x = y
  BY <1>3, <1>5, <1>6, SeqEqual
<1> QED
  BY <1>7 DEF x, y

\* A coroutine that is scheduled is one more in the timers.
LEMMA ScheduledCount ==
  ASSUME NEW q \in Seq(Timer), NEW w \in Coroutine, NEW t \in Int, NEW c
  PROVE  Count(Whos(Scheduled(q, w, t)), c) = Count(Whos(q), c) + (IF w = c THEN 1 ELSE 0)
<1> DEFINE n == DueWithin(q, t)
           x == [who |-> w, left |-> t]
           a == SubSeq(q, 1, n)
           b == SubSeq(q, n + 1, Len(q))
<1>1. n \in 0..Len(q) /\ Len(q) \in Nat
  BY DueWithinType
<1>2. x \in Timer /\ x.who = w
  BY DEF Timer
<1> HIDE DEF x, n
<1>3. Scheduled(q, w, t) = a \o <<x>> \o b
  <2> DEFINE m == n + 1
  <2>1. m - 1 = n
    BY <1>1
  <2>2. Scheduled(q, w, t) = InsertAt(q, m, x)
    BY DEF Scheduled, n, x
  <2>3. a = SubSeq(q, 1, n) /\ b = SubSeq(q, m, Len(q))
    OBVIOUS
  <2> HIDE DEF m, a, b
  <2>4. InsertAt(q, m, x) = SubSeq(q, 1, m - 1) \o <<x>> \o SubSeq(q, m, Len(q))
    BY InsertAtIs
  <2> QED
    BY <2>1, <2>2, <2>3, <2>4
<1>4. a \in Seq(Timer) /\ b \in Seq(Timer)
  BY <1>1, SubSeqProperties
<1>5. a \o b = q
  <2>1. 1 \in 1..Len(q) + 1 /\ n \in 1 - 1..Len(q) /\ Len(q) \in n..Len(q)
    BY <1>1
  <2>2. a \o b = SubSeq(q, 1, Len(q))
    BY <2>1, ConcatAdjacentSubSeq
  <2>3. SubSeq(q, 1, Len(q)) = q
    BY SubSeqFull
  <2> QED
    BY <2>2, <2>3
<1> HIDE DEF a, b
<1>6. <<x>> \in Seq(Timer) /\ a \o <<x>> \in Seq(Timer)
  BY <1>2, <1>4
<1>7. Whos(<<x>>) = <<w>>
  <2>1. Whos(<<x>>) \in Seq(Coroutine) /\ Len(Whos(<<x>>)) = 1 /\ Whos(<<x>>)[1] = w
    <3>1. Len(<<x>>) = 1 /\ 1 \in 1..1 /\ <<x>>[1] = x
      OBVIOUS
    <3> QED
      BY <1>2, <1>6, <3>1, WhosType
  <2> DEFINE y == Whos(<<x>>)
  <2> HIDE DEF y
  <2>2. y \in Seq(Coroutine) /\ Len(y) = 1 /\ y[1] = w
    BY <2>1 DEF y
  <2>3. y = <<w>>
    BY <2>2
  <2> QED
    BY <2>3 DEF y
<1>8. /\ Whos(a \o <<x>> \o b) = Whos(a \o <<x>>) \o Whos(b)
      /\ Whos(a \o <<x>>) = Whos(a) \o <<w>>
      /\ Whos(q) = Whos(a) \o Whos(b)
  <2>1. Whos(a \o <<x>>) = Whos(a) \o <<w>>
    BY <1>4, <1>6, <1>7, WhosConcat
  <2>2. Whos(q) = Whos(a) \o Whos(b)
    BY <1>4, <1>5, WhosConcat
  <2>3. PICK d \in Seq(Timer) : d = a \o <<x>>
    BY <1>6
  <2>4. Whos(d \o b) = Whos(d) \o Whos(b)
    BY <1>4, WhosConcat
  <2> QED
    BY <2>1, <2>2, <2>3, <2>4
<1>9. /\ Whos(a) \in Seq(Coroutine) /\ Whos(b) \in Seq(Coroutine)
      /\ <<w>> \in Seq(Coroutine) /\ Whos(a) \o <<w>> \in Seq(Coroutine)
  <2>1. Whos(a) \in Seq(Coroutine) /\ Whos(b) \in Seq(Coroutine) /\ <<w>> \in Seq(Coroutine)
    BY <1>4, WhosType
  <2> QED
    BY <2>1, ConcatProperties
<1>10. /\ Count(Whos(a) \o <<w>> \o Whos(b), c) = Count(Whos(a) \o <<w>>, c) + Count(Whos(b), c)
       /\ Count(Whos(a) \o <<w>>, c) = Count(Whos(a), c) + Count(<<w>>, c)
       /\ Count(Whos(a) \o Whos(b), c) = Count(Whos(a), c) + Count(Whos(b), c)
  BY <1>9, CountConcat
<1>11. Count(<<w>>, c) = IF w = c THEN 1 ELSE 0
  BY CountOne
<1>12. Count(Whos(a), c) \in Nat /\ Count(Whos(b), c) \in Nat
  BY <1>9, CountType
<1>13. /\ Count(Whos(Scheduled(q, w, t)), c) = Count(Whos(a), c) + Count(<<w>>, c) + Count(Whos(b), c)
       /\ Count(Whos(q), c) = Count(Whos(a), c) + Count(Whos(b), c)
  BY <1>3, <1>8, <1>10
<1> QED
  BY <1>11, <1>12, <1>13

\* run_one moves coroutines from the timers to the ready queue and loses none;
\* where there is any coroutine, it finds one that is ready.
LEMMA DueCount ==
  ASSUME NEW r \in Seq(Coroutine), NEW q \in Seq(Timer), NEW c
  PROVE  /\ Count(Due(r, q).ready, c) + Count(Whos(Due(r, q).timers), c)
              = Count(r, c) + Count(Whos(q), c)
         /\ r # <<>> \/ q # <<>> => Due(r, q).ready # <<>>
<1>1. CASE r # <<>> \/ q = <<>>
  <2>1. Due(r, q).ready = r /\ Due(r, q).timers = q
    BY <1>1 DEF Due
  <2> QED
    BY <1>1, <2>1
<1>2. CASE r = <<>> /\ q # <<>>
  <2> DEFINE n == DueWithin(q, q[1].left)
             a == SubSeq(q, 1, n)
             b == SubSeq(q, n + 1, Len(q))
             d == Expiring(q, n)
  <2>1. n \in 0..Len(q) /\ Len(q) \in Nat /\ 1 \in 1..Len(q)
    BY <1>2, DueWithinType
  <2>2. n # 0
    <3> DEFINE D == {k \in DOMAIN q : q[k].left <= q[1].left}
    <3>1. IsFiniteSet(1..Len(q))
      BY <2>1, FS_Interval
    <3>9. D \in SUBSET (1..Len(q))
      OBVIOUS
    <3>2. IsFiniteSet(D)
      BY <3>1, <3>9, FS_Subset
    <3>3. 1 \in D
      <4>1. q[1] \in Timer /\ 1 \in DOMAIN q
        BY <2>1
      <4>2. q[1].left \in Int
        BY <4>1 DEF Timer
      <4> QED
        BY <4>1, <4>2
    <3>4. n = Cardinality(D)
      BY DEF DueWithin
    <3> HIDE DEF D
    <3> QED
      BY <3>2, <3>3, <3>4, FS_EmptySet
  <2>3. Due(r, q) = d
    BY <1>2 DEF Due
  <2> HIDE DEF n
  <2>4. /\ d.ready = [k \in 1..n |-> q[k].who]
        /\ d.timers = [k \in 1..Len(q) - n |->
                         [who |-> q[k + n].who, left |-> q[k + n].left - q[1].left]]
    BY DEF Expiring
  <2> HIDE DEF d
  <2>5. /\ a \in Seq(Timer) /\ Len(a) = n /\ \A k \in 1..n : a[k] = q[k]
        /\ b \in Seq(Timer) /\ Len(b) = Len(q) - n /\ \A k \in 1..Len(q) - n : b[k] = q[k + n]
    <3>1. \A k \in 1..Len(q) : q[k] \in Timer
      OBVIOUS
    <3>2. /\ \A k \in 1..n : q[k] \in Timer
          /\ \A k \in n + 1..Len(q) : q[k] \in Timer
      BY <2>1, <3>1
    <3>3. /\ a \in Seq(Timer) /\ Len(a) = IF 1 <= n THEN n - 1 + 1 ELSE 0
          /\ \A k \in 1..n - 1 + 1 : a[k] = q[1 + k - 1]
      BY <2>1, <3>2, SubSeqProperties
    <3>4. /\ b \in Seq(Timer)
          /\ Len(b) = IF n + 1 <= Len(q) THEN Len(q) - (n + 1) + 1 ELSE 0
          /\ \A k \in 1..Len(q) - (n + 1) + 1 : b[k] = q[n + 1 + k - 1]
      BY <2>1, <3>2, SubSeqProperties
    <3>5. n - 1 + 1 = n /\ Len(q) - (n + 1) + 1 = Len(q) - n
      BY <2>1
    <3>6. \A k \in 1..n : 1 + k - 1 = k
      BY <2>1
    <3>7. \A k \in 1..Len(q) - n : n + 1 + k - 1 = k + n
      BY <2>1
    <3>8. Len(a) = n /\ Len(b) = Len(q) - n
      BY <2>1, <3>3, <3>4
    <3> HIDE DEF a, b
    <3> QED
      BY <3>3, <3>4, <3>5, <3>6, <3>7, <3>8
  <2>6. a \o b = q
    <3>1. 1 \in 1..Len(q) + 1 /\ n \in 1 - 1..Len(q) /\ Len(q) \in n..Len(q)
      BY <2>1
    <3>2. a \o b = SubSeq(q, 1, Len(q))
      BY <3>1, ConcatAdjacentSubSeq
    <3>3. SubSeq(q, 1, Len(q)) = q
      BY SubSeqFull
    <3> QED
      BY <3>2, <3>3
  <2> HIDE DEF a, b
  <2>7. d.ready = Whos(a)
    BY <2>1, <2>4, <2>5 DEF Whos
  <2>8. Whos(d.timers) = Whos(b)
    <3>1. DOMAIN d.timers = 1..Len(q) - n /\ DOMAIN b = 1..Len(q) - n
      BY <2>1, <2>4, <2>5
    <3>2. \A k \in 1..Len(q) - n : d.timers[k].who = b[k].who
      BY <2>4, <2>5
    <3> QED
      BY <3>1, <3>2 DEF Whos
  <2>9. Whos(a) \in Seq(Coroutine) /\ Whos(b) \in Seq(Coroutine) /\ Whos(q) = Whos(a) \o Whos(b)
    BY <2>5, <2>6, WhosType, WhosConcat
  <2>10. Count(Whos(q), c) = Count(Whos(a), c) + Count(Whos(b), c)
    BY <2>9, CountConcat
  <2>11. Count(r, c) = 0 /\ Count(Whos(q), c) \in Nat
    <3>1. Whos(q) \in Seq(Coroutine)
      BY WhosType
    <3> QED
      BY <1>2, <3>1, CountNone, CountType
  <2>12. d.ready # <<>>
    <3>1. Len(Whos(a)) = n
      BY <2>5, WhosType
    <3> QED
      BY <2>2, <2>7, <3>1
  <2> QED
    BY <2>3, <2>7, <2>8, <2>10, <2>11, <2>12
<1> QED
  BY <1>1, <1>2

\* In how many places coroutine c of node i is.
Places(i, c) ==
  Count(ready[i], c) + Count(Whos(timers[i]), c) + Count(waiters[i], c)
    + (IF c = "message" /\ draining = i THEN 1 ELSE 0)

\* Only the message loop waits at the mailbox.
OnlyLoopWaits == \A i \in Node : \A k \in DOMAIN waiters[i] : waiters[i][k] = "message"

PlaceInv ==
  /\ Queues /\ OnlyLoopWaits
  /\ \A i \in Node, c \in Coroutine : Places(i, c) = 1

\* A coroutine that does not wait is not counted among the waiters.
LEMMA NoneWaits ==
  ASSUME NEW q \in Seq(Coroutine), \A k \in DOMAIN q : q[k] = "message"
  PROVE  Count(q, "election") = 0
<1>1. Positions(q, "election") = {}
  BY DEF Positions
<1> QED
  BY <1>1, FS_EmptySet DEF Count

\* push moves the waiter, if it moves it, to the ready queue.
LEMMA WokenCount ==
  ASSUME Queues, NEW i \in Node, NEW c
  PROVE  /\ Woken(i) \in Seq(Coroutine) /\ StillWaiting(i) \in Seq(Coroutine)
         /\ Count(Woken(i), c) + Count(StillWaiting(i), c) = Count(ready[i], c) + Count(waiters[i], c)
<1>1. ready[i] \in Seq(Coroutine) /\ waiters[i] \in Seq(Coroutine)
  BY DEF Queues
<1>2. CASE inbound[i] = <<>>
  <2>1. Woken(i) = ready[i] /\ StillWaiting(i) = waiters[i]
    BY <1>2, Zenon DEF Woken, StillWaiting
  <2> QED
    BY <1>1, <2>1
<1>3. CASE inbound[i] # <<>>
  <2>1. Woken(i) = ready[i] \o waiters[i] /\ StillWaiting(i) = <<>>
    BY <1>3, Zenon DEF Woken, StillWaiting
  <2>2. ready[i] \o waiters[i] \in Seq(Coroutine) /\ <<>> \in Seq(Coroutine)
    BY <1>1, ConcatProperties
  <2>3. Count(ready[i] \o waiters[i], c) = Count(ready[i], c) + Count(waiters[i], c)
    BY <1>1, CountConcat
  <2>4. Count(<<>>, c) = 0 /\ Count(ready[i], c) \in Nat /\ Count(waiters[i], c) \in Nat
    BY <1>1, CountNone, CountType
  <2> QED
    BY <2>1, <2>2, <2>3, <2>4
<1> QED
  BY <1>2, <1>3

\* A pass always finds a coroutine to resume.
LEMMA SomethingReady ==
  ASSUME PlaceInv, draining = 0, NEW i \in Node
  PROVE  Woken(i) # <<>> \/ timers[i] # <<>>
<1> SUFFICES ASSUME Woken(i) = <<>>, timers[i] = <<>> PROVE FALSE
  OBVIOUS
<1> DEFINE c == "election"
<1>1. /\ c \in Coroutine /\ c # "message" /\ timers[i] \in Seq(Timer)
      /\ ready[i] \in Seq(Coroutine) /\ waiters[i] \in Seq(Coroutine)
  BY DEF PlaceInv, Queues, Coroutine
<1>2. Count(ready[i], c) + Count(Whos(timers[i]), c) + Count(waiters[i], c) = 1
  <2>1. Count(ready[i], c) + Count(Whos(timers[i]), c) + Count(waiters[i], c) + 0 = 1
    BY <1>1 DEF PlaceInv, Places
  <2>2. /\ Count(ready[i], c) \in Nat /\ Count(waiters[i], c) \in Nat
        /\ Count(Whos(timers[i]), c) \in Nat
    BY <1>1, WhosType, CountType
  <2> QED
    BY <2>1, <2>2
<1>3. Count(waiters[i], c) = 0
  BY <1>1, NoneWaits DEF PlaceInv, OnlyLoopWaits
<1>4. Count(Whos(timers[i]), c) = 0
  <2>1. Whos(<<>>) = <<>>
    BY DEF Whos
  <2> QED
    BY <2>1, CountNone
<1>5. Count(ready[i], c) = 0
  <2>1. CASE inbound[i] = <<>>
    <3>1. Woken(i) = ready[i]
      BY <2>1, Zenon DEF Woken
    <3> QED
      BY <3>1, CountNone
  <2>2. CASE inbound[i] # <<>>
    <3>1. ready[i] \o waiters[i] = <<>>
      BY <2>2, Zenon DEF Woken
    <3>2. ready[i] = <<>>
      BY <1>1, <3>1, ConcatEqualIffEmpty
    <3> QED
      BY <3>2, CountNone
  <2> QED
    BY <2>1, <2>2
<1> QED
  BY <1>2, <1>3, <1>4, <1>5

\* A pass moves the coroutine it resumes: the message loop runs, the others go
\* back to sleep.
LEMMA PassPlaces ==
  ASSUME PlaceInv, NEW i \in Node, Pass(i), Queues'
  PROVE  PlaceInv'
<1> DEFINE due  == Due(Woken(i), timers[i])
           who  == due.ready[1]
           rest == SubSeq(due.ready, 2, Len(due.ready))
<1>1. /\ draining = 0
      /\ waiters' = [waiters EXCEPT ![i] = StillWaiting(i)]
      /\ ready' = [ready EXCEPT ![i] = rest]
      /\ \/ /\ who = "message" /\ draining' = i
            /\ timers' = [timers EXCEPT ![i] = due.timers]
         \/ /\ who \in {"election", "heartbeat"} /\ draining' = draining
            /\ \E t \in Nat : timers' = [timers EXCEPT ![i] = Scheduled(due.timers, who, t)]
  BY TimeAssumption DEF Pass
<1>2. Queues /\ timers[i] \in Seq(Timer)
  BY DEF PlaceInv, Queues
<1>3. Woken(i) \in Seq(Coroutine) /\ StillWaiting(i) \in Seq(Coroutine)
  BY <1>2, WokenCount
<1>4. due.ready \in Seq(Coroutine) /\ due.timers \in Seq(Timer)
  BY <1>2, <1>3, DueType
<1>5. due.ready # <<>>
  <2>1. Woken(i) # <<>> \/ timers[i] # <<>>
    BY <1>1, SomethingReady
  <2> QED
    BY <1>2, <1>3, <2>1, DueCount
<1>6. ASSUME NEW c
      PROVE  /\ Count(Woken(i), c) + Count(StillWaiting(i), c)
                  = Count(ready[i], c) + Count(waiters[i], c)
             /\ Count(due.ready, c) + Count(Whos(due.timers), c)
                  = Count(Woken(i), c) + Count(Whos(timers[i]), c)
             /\ Count(due.ready, c) = (IF who = c THEN 1 ELSE 0) + Count(rest, c)
  <2>1. Count(Woken(i), c) + Count(StillWaiting(i), c) = Count(ready[i], c) + Count(waiters[i], c)
    BY <1>2, WokenCount
  <2>2. Count(due.ready, c) + Count(Whos(due.timers), c)
          = Count(Woken(i), c) + Count(Whos(timers[i]), c)
    BY <1>2, <1>3, DueCount
  <2> DEFINE r == due.ready
  <2>3. r \in Seq(Coroutine) /\ r # <<>>
    BY <1>4, <1>5
  <2> HIDE DEF r
  <2>4. Count(r, c) = (IF r[1] = c THEN 1 ELSE 0) + Count(SubSeq(r, 2, Len(r)), c)
    BY <2>3, CountHead
  <2> QED
    BY <2>1, <2>2, <2>4 DEF r
<1>7. rest \in Seq(Coroutine) /\ who \in Coroutine
  <2> DEFINE r == due.ready
  <2>1. r \in Seq(Coroutine) /\ r # <<>> /\ Len(r) \in Nat
    BY <1>4, <1>5
  <2> HIDE DEF r
  <2>2. 1 \in 1..Len(r)
    BY <2>1
  <2>3. SubSeq(r, 2, Len(r)) \in Seq(Coroutine) /\ r[1] \in Coroutine
    BY <2>1, <2>2
  <2> QED
    BY <2>3 DEF r
<1> HIDE DEF due, who, rest
<1>8. /\ ready'[i] = rest /\ waiters'[i] = StillWaiting(i)
      /\ \A j \in Node \ {i} : /\ ready'[j] = ready[j] /\ waiters'[j] = waiters[j]
                               /\ timers'[j] = timers[j]
      /\ \/ who = "message" /\ draining' = i /\ timers'[i] = due.timers
         \/ /\ who # "message" /\ draining' = 0
            /\ \E t \in Nat : timers'[i] = Scheduled(due.timers, who, t)
  BY <1>1, <1>2 DEF Queues
<1>9. ASSUME NEW c \in Coroutine PROVE Places(i, c)' = 1
  <2>1. Places(i, c) = 1
    BY DEF PlaceInv
  <2>2. draining # i
    BY <1>1, NodeIsPositive
  <2>3. Count(ready[i], c) + Count(Whos(timers[i]), c) + Count(waiters[i], c) + 0 = 1
    BY <2>1, <2>2 DEF Places
  <2>4. /\ Count(ready[i], c) \in Nat /\ Count(waiters[i], c) \in Nat
        /\ Count(Whos(timers[i]), c) \in Nat /\ Count(Woken(i), c) \in Nat
        /\ Count(StillWaiting(i), c) \in Nat /\ Count(due.ready, c) \in Nat
        /\ Count(Whos(due.timers), c) \in Nat /\ Count(rest, c) \in Nat
    <3>1. Whos(timers[i]) \in Seq(Coroutine) /\ Whos(due.timers) \in Seq(Coroutine)
      BY <1>2, <1>4, WhosType
    <3>2. ready[i] \in Seq(Coroutine) /\ waiters[i] \in Seq(Coroutine)
      BY <1>2 DEF Queues
    <3> QED
      BY <1>3, <1>4, <1>7, <3>1, <3>2, CountType
  <2>5. Count(rest, c) + Count(Whos(due.timers), c) + Count(StillWaiting(i), c)
          + (IF who = c THEN 1 ELSE 0) = 1
    BY <1>6, <2>3, <2>4
  <2>6. CASE who = "message" /\ draining' = i /\ timers'[i] = due.timers
    BY <1>8, <2>5, <2>6 DEF Places
  <2>7. CASE /\ who # "message" /\ draining' = 0
             /\ \E t \in Nat : timers'[i] = Scheduled(due.timers, who, t)
    <3>1. PICK t \in Nat : timers'[i] = Scheduled(due.timers, who, t)
      BY <2>7
    <3>2. Count(Whos(timers'[i]), c) = Count(Whos(due.timers), c) + (IF who = c THEN 1 ELSE 0)
      <4>1. t \in Int
        OBVIOUS
      <4> QED
        BY <1>4, <1>7, <3>1, <4>1, ScheduledCount
    <3>3. draining' # i
      BY <2>7, NodeIsPositive
    <3>4. Places(i, c)' = Count(rest, c) + Count(Whos(timers'[i]), c) + Count(StillWaiting(i), c) + 0
      BY <1>8, <3>3 DEF Places
    <3> QED
      BY <2>4, <2>5, <3>2, <3>4
  <2> QED
    BY <1>8, <2>6, <2>7
<1>10. ASSUME NEW j \in Node, j # i, NEW c \in Coroutine PROVE Places(j, c)' = 1
  <2>1. Places(j, c) = 1
    BY DEF PlaceInv
  <2>2. draining # j /\ draining' # j
    BY <1>1, <1>8, <1>10, NodeIsPositive
  <2>3. ready'[j] = ready[j] /\ waiters'[j] = waiters[j] /\ timers'[j] = timers[j]
    BY <1>8, <1>10
  <2> QED
    BY <2>1, <2>2, <2>3 DEF Places
<1>11. OnlyLoopWaits'
  <2>1. \A k \in DOMAIN StillWaiting(i) : StillWaiting(i)[k] = "message"
    <3>1. CASE inbound[i] = <<>>
      <4>1. StillWaiting(i) = waiters[i]
        BY <3>1, Zenon DEF StillWaiting
      <4> QED
        BY <4>1 DEF PlaceInv, OnlyLoopWaits
    <3>2. CASE inbound[i] # <<>>
      <4>1. StillWaiting(i) = <<>>
        BY <3>2, Zenon DEF StillWaiting
      <4>2. DOMAIN <<>> = {}
        OBVIOUS
      <4> QED
        BY <4>1, <4>2
    <3> QED
      BY <3>1, <3>2
  <2> QED
    BY <1>8, <2>1 DEF PlaceInv, OnlyLoopWaits
<1>12. \A j \in Node, c \in Coroutine : Places(j, c)' = 1
  BY <1>9, <1>10
<1> QED
  BY <1>11, <1>12 DEF PlaceInv

\* Every step moves coroutines only, and loses none.
LEMMA NextPlaces == PlaceInv /\ Queues' /\ [TimedNext]_timedVars => PlaceInv'
<1> SUFFICES ASSUME PlaceInv, Queues', [TimedNext]_timedVars PROVE PlaceInv'
  OBVIOUS
<1>1. ASSUME UNCHANGED <<ready, timers, waiters, draining>> PROVE PlaceInv'
  BY <1>1 DEF PlaceInv, OnlyLoopWaits, Places
<1>2. ASSUME NEW i \in Node, Pass(i) PROVE PlaceInv'
  BY <1>2, PassPlaces
<1>3. ASSUME NEW i \in Node, Wait(i) PROVE PlaceInv'
  <2>1. /\ UNCHANGED <<ready, timers>> /\ draining = i /\ draining' = 0
        /\ waiters' = [waiters EXCEPT ![i] = Append(@, "message")]
    BY <1>3 DEF Wait
  <2>2. waiters[i] \in Seq(Coroutine) /\ "message" \in Coroutine /\ DOMAIN waiters = Node
    BY DEF PlaceInv, Queues, Coroutine
  <2>3. /\ waiters'[i] = waiters[i] \o <<"message">>
        /\ \A j \in Node \ {i} : waiters'[j] = waiters[j]
    <3>1. Append(waiters[i], "message") = waiters[i] \o <<"message">>
      BY <2>2, AppendIsConcat
    <3> QED
      BY <2>1, <2>2, <3>1
  <2>4. \A k \in DOMAIN waiters'[i] : waiters'[i][k] = "message"
    <3> DEFINE q == waiters[i]
    <3>1. q \in Seq(Coroutine) /\ \A k \in DOMAIN q : q[k] = "message"
      BY <2>2 DEF PlaceInv, OnlyLoopWaits
    <3> HIDE DEF q
    <3>2. \A k \in DOMAIN (q \o <<"message">>) : (q \o <<"message">>)[k] = "message"
      BY <3>1
    <3> QED
      BY <2>3, <3>2 DEF q
  <2>5. OnlyLoopWaits'
    BY <2>3, <2>4 DEF PlaceInv, OnlyLoopWaits
  <2>6. ASSUME NEW j \in Node, NEW c \in Coroutine PROVE Places(j, c)' = 1
    <3>1. Places(j, c) = 1 /\ draining' # j
      BY <2>1, NodeIsPositive DEF PlaceInv
    <3>2. CASE j # i
      BY <2>1, <2>3, <3>1, <3>2 DEF Places
    <3>3. CASE j = i
      <4>1. Count(waiters[i] \o <<"message">>, c) = Count(waiters[i], c) + Count(<<"message">>, c)
        <5>1. <<"message">> \in Seq(Coroutine)
          BY <2>2
        <5> QED
          BY <2>2, <5>1, CountConcat
      <4>2. Count(<<"message">>, c) = IF c = "message" THEN 1 ELSE 0
        BY CountOne
      <4>3. /\ Count(ready[i], c) \in Nat /\ Count(waiters[i], c) \in Nat
            /\ Count(Whos(timers[i]), c) \in Nat
        <5>1. ready[i] \in Seq(Coroutine) /\ timers[i] \in Seq(Timer)
          BY DEF PlaceInv, Queues
        <5> QED
          BY <2>2, <5>1, WhosType, CountType
      <4>4. Count(ready[i], c) + Count(Whos(timers[i]), c) + Count(waiters[i], c)
              + (IF c = "message" THEN 1 ELSE 0) = 1
        BY <2>1, <3>1, <3>3 DEF Places
      <4>5. Places(i, c)' = Count(ready[i], c) + Count(Whos(timers[i]), c)
                              + Count(waiters[i] \o <<"message">>, c) + 0
        BY <2>1, <2>3, <3>1, <3>3 DEF Places
      <4>6. Places(i, c)' = 1
        BY <4>1, <4>2, <4>3, <4>4, <4>5
      <4> QED
        BY <3>3, <4>6
    <3> QED
      BY <3>2, <3>3
  <2> QED
    BY <2>5, <2>6 DEF PlaceInv
<1>4. ASSUME NEW i \in Node, Handle(i) \/ IoLoop(i) \/ Start(i) \/ \E cmd \in Command : Submit(i, cmd) PROVE PlaceInv'
  BY <1>1, <1>4 DEF Handle, IoLoop, Start, Submit, procVars, roundVars
<1>5. ASSUME NextRound PROVE PlaceInv'
  BY <1>1, <1>5 DEF NextRound, procVars, roundVars
<1>6. ASSUME UNCHANGED timedVars PROVE PlaceInv'
  BY <1>1, <1>6 DEF timedVars, procVars, roundVars
<1> QED
  BY <1>2, <1>3, <1>4, <1>5, <1>6 DEF TimedNext

\* No coroutine is ever lost, nor resumed twice for one suspension, in any
\* order of passes, arrivals and timers (run_one, schedule, push, await_suspend
\* in runtime.hpp and nos.hpp).
THEOREM InOnePlace == TimedSpec => []OnePlace
<1>1. TimedInit => PlaceInv
  <2> SUFFICES ASSUME TimedInit PROVE PlaceInv
    OBVIOUS
  <2>1. <<"message", "election", "heartbeat">> \in Seq(Coroutine)
    BY DEF Coroutine
  <2>2. Queues
    BY <2>1 DEF TimedInit, Queues
  <2>3. OnlyLoopWaits
    <3>1. DOMAIN <<>> = {}
      OBVIOUS
    <3> QED
      BY <3>1 DEF TimedInit, OnlyLoopWaits
  <2>4. ASSUME NEW i \in Node, NEW c \in Coroutine PROVE Places(i, c) = 1
    <3> DEFINE q == <<"message", "election", "heartbeat">>
    <3>1. DOMAIN q = {1, 2, 3} /\ q[1] = "message" /\ q[2] = "election" /\ q[3] = "heartbeat"
      OBVIOUS
    <3>2. \E k : Positions(q, c) = {k}
      <4> HIDE DEF q
      <4>1. CASE c = "message"
        <5>1. Positions(q, c) = {1}
          BY <3>1, <4>1 DEF Positions
        <5> QED
          BY <5>1
      <4>2. CASE c = "election"
        <5>1. Positions(q, c) = {2}
          BY <3>1, <4>2 DEF Positions
        <5> QED
          BY <5>1
      <4>3. CASE c = "heartbeat"
        <5>1. Positions(q, c) = {3}
          BY <3>1, <4>3 DEF Positions
        <5> QED
          BY <5>1
      <4> QED
        BY <4>1, <4>2, <4>3 DEF Coroutine
    <3>3. Count(q, c) = 1
      BY <3>2, FS_Singleton DEF Count
    <3>4. ready[i] = q /\ timers[i] = <<>> /\ waiters[i] = <<>> /\ draining # i
      BY NodeIsPositive DEF TimedInit
    <3>5. Whos(<<>>) = <<>>
      BY DEF Whos
    <3>6. Count(<<>>, c) = 0
      BY CountNone
    <3> HIDE DEF q
    <3> QED
      BY <3>3, <3>4, <3>5, <3>6 DEF Places
  <2> QED
    BY <2>2, <2>3, <2>4 DEF PlaceInv
<1>2. WakeInv => Queues
  BY DEF WakeInv
<1>3. PlaceInv => OnePlace
  <2> SUFFICES ASSUME PlaceInv, NEW i \in Node, NEW c \in Coroutine
               PROVE  Cardinality({k \in DOMAIN ready[i] : ready[i][k] = c})
                        + Cardinality({k \in DOMAIN timers[i] : timers[i][k].who = c})
                        + Cardinality({k \in DOMAIN waiters[i] : waiters[i][k] = c})
                        + (IF c = "message" /\ draining = i THEN 1 ELSE 0) = 1
    BY DEF OnePlace
  <2>1. {k \in DOMAIN timers[i] : timers[i][k].who = c} = Positions(Whos(timers[i]), c)
    BY DEF Positions, Whos
  <2>2. /\ {k \in DOMAIN ready[i] : ready[i][k] = c} = Positions(ready[i], c)
        /\ {k \in DOMAIN waiters[i] : waiters[i][k] = c} = Positions(waiters[i], c)
    BY DEF Positions
  <2>3. Places(i, c) = 1
    BY DEF PlaceInv
  <2> QED
    BY <2>1, <2>2, <2>3 DEF Places, Count
<1>4. TimedInit => WakeInv
  BY InitWakes
<1> QED
  BY <1>1, <1>2, <1>3, <1>4, NextWakes, NextPlaces, PTL DEF TimedSpec

-----------------------------------------------------------------------------
(* Types: the timers are in order, and due later than now.                 *)

Numbers == INSTANCE Folding WITH Op <- LAMBDA c, sum, x : sum + x

Longest == MaxOf(HeartbeatTicks, ElectionTicks)
Sleeper == [who : Coroutine, left : 1..Longest]

Sorted(q) == \A k \in 2..Len(q) : q[k - 1].left <= q[k].left
Asleep(q) == q \in Seq(Sleeper) /\ Sorted(q)

\* The times of the loops, and the ids of the nodes, are numbers.
LEMMA Times ==
  /\ Longest \in Nat /\ HeartbeatTicks \in 1..Longest /\ ElectionTicks \in 1..Longest
  /\ \A i \in Node : i \in Nat /\ Timeout(i) \in Nat
<1>1. /\ HeartbeatTicks \in Nat \ {0} /\ ElectionTicks \in Nat \ {0} /\ BaseTimeout \in Nat
      /\ \A i \in Node : i \in 1..99
  BY TimeAssumption, NodeAssumption
<1>2. Longest \in Nat /\ HeartbeatTicks \in 1..Longest /\ ElectionTicks \in 1..Longest
  BY <1>1 DEF Longest, MaxOf
<1>3. \A i \in Node : i \in Nat /\ Timeout(i) \in Nat
  BY <1>1 DEF Timeout
<1> QED
  BY <1>2, <1>3

\* Numbers from 1 on, without gaps, go up to how many they are.
LEMMA WithoutGaps ==
  ASSUME NEW n \in Nat, NEW D \in SUBSET (1..n), \A k \in D : \A l \in 1..k : l \in D
  PROVE  Cardinality(D) \in 0..n /\ D = 1..Cardinality(D)
<1>1. PICK m \in 0..n : D = 1..m
  <2>1. CASE D = {}
    <3>1. D = 1..0
      BY <2>1
    <3> QED
      BY <3>1
  <2>2. CASE D # {}
    <3>1. PICK m : m \in D /\ \A y \in D : y <= m
      BY <2>2, Numbers!MaxIs
    <3>2. m \in 1..n /\ \A y \in D : y \in 1..m
      BY <3>1
    <3>3. D = 1..m
      BY <3>1, <3>2
    <3> QED
      BY <3>2, <3>3
  <2> QED
    BY <2>1, <2>2
<1>2. Cardinality(1..m) = m
  BY FS_Interval
<1> QED
  BY <1>1, <1>2

\* In a queue in order, a timer is due no later than any behind it.
LEMMA NoLater ==
  ASSUME NEW q \in Seq(Timer), Sorted(q)
  PROVE  \A k, l \in 1..Len(q) : k <= l => q[k].left <= q[l].left
<1>1. \A k \in 1..Len(q) : q[k].left \in Int
  <2>1. \A k \in 1..Len(q) : q[k] \in Timer
    OBVIOUS
  <2> QED
    BY <2>1 DEF Timer
<1> DEFINE S == {d \in Nat : \A k, l \in 1..Len(q) : l = k + d => q[k].left <= q[l].left}
<1>2. 0 \in S
  BY <1>1
<1>3. ASSUME NEW d \in S PROVE d + 1 \in S
  <2>1. ASSUME NEW k \in 1..Len(q), NEW l \in 1..Len(q), l = k + (d + 1)
        PROVE  q[k].left <= q[l].left
    <3>1. l - 1 \in 1..Len(q) /\ l - 1 = k + d /\ l \in 2..Len(q)
      BY <2>1
    <3>2. q[k].left <= q[l - 1].left
      BY <3>1
    <3>3. q[l - 1].left <= q[l].left
      BY <3>1 DEF Sorted
    <3>4. q[k].left \in Int /\ q[l - 1].left \in Int /\ q[l].left \in Int
      BY <1>1, <3>1
    <3>5. \A x, y, z \in Int : x <= y /\ y <= z => x <= z
      OBVIOUS
    <3> QED
      BY <3>2, <3>3, <3>4, <3>5
  <2>2. d + 1 \in Nat
    OBVIOUS
  <2>3. \A k, l \in 1..Len(q) : l = k + (d + 1) => q[k].left <= q[l].left
    BY <2>1
  <2> QED
    BY <2>2, <2>3
<1>4. S = Nat
  <2> HIDE DEF S
  <2>1. S \in SUBSET Nat
    BY DEF S
  <2> QED
    BY <1>2, <1>3, <2>1, Numbers!AllNumbers
<1> SUFFICES ASSUME NEW k \in 1..Len(q), NEW l \in 1..Len(q), k <= l
             PROVE  q[k].left <= q[l].left
  OBVIOUS
<1>5. l - k \in Nat /\ l = k + (l - k)
  OBVIOUS
<1>6. l - k \in S
  BY <1>4, <1>5
<1> QED
  BY <1>5, <1>6

\* A sleeper is a timer.
LEMMA SleepersAreTimers ==
  ASSUME NEW q, Asleep(q)
  PROVE  /\ q \in Seq(Timer) /\ Len(q) \in Nat /\ DOMAIN q = 1..Len(q)
         /\ \A k \in 1..Len(q) : q[k] \in Sleeper /\ q[k].left \in Int /\ q[k].who \in Coroutine
<1>1. q \in Seq(Sleeper) /\ Sleeper \subseteq Timer
  BY Times DEF Asleep, Sleeper, Timer
<1>2. q \in Seq(Timer)
  BY <1>1, SeqMonotonic
<1>3. Len(q) \in Nat /\ DOMAIN q = 1..Len(q) /\ \A k \in 1..Len(q) : q[k] \in Sleeper
  BY <1>1
<1>4. \A k \in 1..Len(q) : q[k].left \in Int /\ q[k].who \in Coroutine
  BY <1>3, Times DEF Sleeper
<1> QED
  BY <1>2, <1>3, <1>4

\* The timers that are due are the first ones.
LEMMA DueAreFirst ==
  ASSUME NEW q, Asleep(q), NEW t \in Int
  PROVE  /\ DueWithin(q, t) \in 0..Len(q)
         /\ \A k \in 1..Len(q) : q[k].left <= t <=> k <= DueWithin(q, t)
<1>1. /\ q \in Seq(Timer) /\ Len(q) \in Nat /\ DOMAIN q = 1..Len(q)
      /\ \A k \in 1..Len(q) : q[k].left \in Int
  BY SleepersAreTimers
<1> DEFINE D == {k \in DOMAIN q : q[k].left <= t}
<1>2. D \in SUBSET (1..Len(q))
  BY <1>1
<1>3. ASSUME NEW k \in D, NEW l \in 1..k PROVE l \in D
  <2>1. k \in 1..Len(q) /\ l \in 1..Len(q) /\ l <= k /\ q[k].left <= t
    BY <1>1
  <2>2. q[l].left <= q[k].left
    BY <1>1, <2>1, NoLater DEF Asleep
  <2> QED
    BY <1>1, <2>1, <2>2
<1>4. DueWithin(q, t) = Cardinality(D)
  BY DEF DueWithin
<1>5. \A k \in 1..Len(q) : q[k].left <= t <=> k \in D
  BY <1>1
<1> HIDE DEF D
<1>6. Cardinality(D) \in 0..Len(q) /\ D = 1..Cardinality(D)
  BY <1>1, <1>2, <1>3, WithoutGaps
<1>7. PICK c \in 0..Len(q) : c = Cardinality(D)
  BY <1>6
<1>8. \A k \in 1..Len(q) : k \in D <=> k <= c
  BY <1>1, <1>6, <1>7
<1> QED
  BY <1>4, <1>5, <1>7, <1>8

\* s is q with x inserted behind the first n.
IsInserted(S, s, q, n, x) ==
  /\ s \in Seq(S) /\ Len(s) = Len(q) + 1
  /\ \A k \in 1..n : s[k] = q[k]
  /\ s[n + 1] = x
  /\ \A k \in n + 2..Len(q) + 1 : s[k] = q[k - 1]

\* What InsertAt inserts.
LEMMA Inserted ==
  ASSUME NEW S, NEW q \in Seq(S), NEW n \in 0..Len(q), NEW x \in S
  PROVE  IsInserted(S, InsertAt(q, n + 1, x), q, n, x)
<1> DEFINE L == Len(q)
           a == SubSeq(q, 1, n)
           c == SubSeq(q, n + 1, L)
<1>1. n + 1 - 1 = n /\ n \in Nat /\ L \in Nat /\ n <= L
  OBVIOUS
<1>2. a \in Seq(S) /\ Len(a) = n /\ \A k \in 1..n : a[k] = q[k]
  <2>1. \A k \in 1..n : q[k] \in S
    BY <1>1
  <2> QED
    BY <1>1, <2>1, SubSeqProperties
<1>3. c \in Seq(S) /\ Len(c) = L - n /\ \A k \in 1..L - n : c[k] = q[n + k]
  <2>1. \A k \in n + 1..L : q[k] \in S
    BY <1>1
  <2>2. /\ c \in Seq(S) /\ Len(c) = IF n + 1 <= L THEN L - (n + 1) + 1 ELSE 0
        /\ \A k \in 1..L - (n + 1) + 1 : c[k] = q[n + 1 + k - 1]
    BY <1>1, <2>1, SubSeqProperties
  <2> HIDE DEF c, L
  <2>3. L - (n + 1) + 1 = L - n /\ \A k \in 1..L - n : n + 1 + k - 1 = n + k
    BY <1>1
  <2>4. Len(c) = L - n
    BY <1>1, <2>2, <2>3
  <2> QED
    BY <2>2, <2>3, <2>4
<1>4. InsertAt(q, n + 1, x) = (a \o <<x>>) \o c
  <2>1. PICK m : m = n + 1 /\ m - 1 = n
    BY <1>1
  <2>2. InsertAt(q, m, x) = SubSeq(q, 1, m - 1) \o <<x>> \o SubSeq(q, m, Len(q))
    BY InsertAtIs
  <2> QED
    BY <2>1, <2>2
<1> HIDE DEF a, c, L
<1>5. PICK b \in Seq(S) : b = a \o <<x>> /\ Len(b) = n + 1 /\ b[n + 1] = x /\ \A k \in 1..n : b[k] = a[k]
  <2>1. Append(a, x) = a \o <<x>>
    BY <1>2
  <2>2. /\ Append(a, x) \in Seq(S) /\ Len(Append(a, x)) = n + 1
        /\ Append(a, x)[n + 1] = x /\ \A k \in 1..n : Append(a, x)[k] = a[k]
    BY <1>1, <1>2, AppendProperties
  <2> QED
    BY <2>1, <2>2
<1>6. PICK s \in Seq(S) :
        /\ s = b \o c /\ Len(s) = Len(b) + Len(c)
        /\ \A k \in 1..Len(b) + Len(c) : s[k] = IF k <= Len(b) THEN b[k] ELSE c[k - Len(b)]
  <2>1. /\ b \o c \in Seq(S) /\ Len(b \o c) = Len(b) + Len(c)
        /\ \A k \in 1..Len(b) + Len(c) : (b \o c)[k] = IF k <= Len(b) THEN b[k] ELSE c[k - Len(b)]
    <3>1. PICK d \in Seq(S) : d = c
      BY <1>3
    <3>2. /\ b \o d \in Seq(S) /\ Len(b \o d) = Len(b) + Len(d)
          /\ \A k \in 1..Len(b) + Len(d) : (b \o d)[k] = IF k <= Len(b) THEN b[k] ELSE d[k - Len(b)]
      BY ConcatProperties
    <3> QED
      BY <3>1, <3>2
  <2> QED
    BY <2>1
<1>7. /\ Len(s) = L + 1
      /\ \A k \in 1..L + 1 : s[k] = IF k <= n + 1 THEN b[k] ELSE c[k - (n + 1)]
  <2>1. PICK l, m : l = Len(b) /\ m = Len(c) /\ l = n + 1 /\ m = L - n
    BY <1>3, <1>5
  <2>2. l + m = L + 1
    BY <1>1, <2>1
  <2>3. Len(b) + Len(c) = L + 1
    BY <2>1, <2>2
  <2> QED
    BY <1>5, <1>6, <2>3
<1>8. \A k \in 1..n : s[k] = q[k]
  <2>1. \A k \in 1..n : k \in 1..L + 1 /\ k <= n + 1
    BY <1>1
  <2> QED
    BY <1>2, <1>5, <1>7, <2>1
<1>9. s[n + 1] = x
  <2>1. n + 1 \in 1..L + 1 /\ n + 1 <= n + 1
    BY <1>1
  <2> QED
    BY <1>5, <1>7, <2>1
<1>10. ASSUME NEW k \in n + 2..L + 1 PROVE s[k] = q[k - 1]
  <2>1. /\ k \in 1..L + 1 /\ ~(k <= n + 1) /\ k - (n + 1) \in 1..L - n
        /\ n + (k - (n + 1)) = k - 1
    BY <1>1
  <2>2. s[k] = c[k - (n + 1)]
    BY <1>7, <2>1
  <2>3. c[k - (n + 1)] = q[n + (k - (n + 1))]
    BY <1>3, <2>1
  <2> QED
    BY <2>1, <2>2, <2>3
<1> QED
  BY <1>4, <1>5, <1>6, <1>7, <1>8, <1>9, <1>10 DEF IsInserted, L

\* schedule keeps the timers in order.
LEMMA ScheduledAsleep ==
  ASSUME NEW q, Asleep(q), NEW c \in Coroutine, NEW t \in 1..Longest
  PROVE  Asleep(Scheduled(q, c, t))
<1> DEFINE n == DueWithin(q, t)
           x == [who |-> c, left |-> t]
           s == Scheduled(q, c, t)
           L == Len(q)
<1>1. q \in Seq(Sleeper) /\ t \in Int /\ L \in Nat /\ \A k \in 1..L : q[k].left \in Int
  BY Times, SleepersAreTimers DEF Asleep
<1>2. n \in 0..L /\ \A k \in 1..L : q[k].left <= t <=> k <= n
  BY <1>1, DueAreFirst
<1>3. x \in Sleeper /\ x.left = t
  BY DEF Sleeper
<1>4. s = InsertAt(q, n + 1, x)
  BY DEF Scheduled
<1> HIDE DEF n, x, s
<1>5. /\ s \in Seq(Sleeper) /\ Len(s) = L + 1
      /\ \A k \in 1..n : s[k] = q[k]
      /\ s[n + 1] = x
      /\ \A k \in n + 2..L + 1 : s[k] = q[k - 1]
  <2>1. IsInserted(Sleeper, s, q, n, x)
    BY <1>1, <1>2, <1>3, <1>4, Inserted
  <2> QED
    BY <2>1 DEF IsInserted
<1> HIDE DEF L
<1>6. ASSUME NEW k \in 2..Len(s) PROVE s[k - 1].left <= s[k].left
  <2>1. k \in 2..L + 1
    BY <1>5
  <2>2. CASE k <= n
    <3>1. k \in 1..n /\ k - 1 \in 1..n /\ k \in 2..L
      BY <1>1, <1>2, <2>1, <2>2
    <3>2. s[k] = q[k] /\ s[k - 1] = q[k - 1]
      BY <1>5, <3>1
    <3> QED
      BY <3>1, <3>2 DEF Asleep, Sorted, L
  <2>3. CASE k = n + 1
    <3>1. k - 1 \in 1..n /\ k - 1 \in 1..L /\ k - 1 <= n
      BY <1>1, <1>2, <2>1, <2>3
    <3>2. s[k] = x /\ s[k - 1] = q[k - 1]
      BY <1>5, <2>3, <3>1
    <3> QED
      BY <1>2, <1>3, <3>1, <3>2
  <2>4. CASE k = n + 2
    <3>1. k - 1 = n + 1 /\ k \in n + 2..L + 1 /\ k - 1 \in 1..L /\ ~(k - 1 <= n)
      BY <1>1, <1>2, <2>1, <2>4
    <3>2. s[k] = q[k - 1] /\ s[k - 1] = x
      BY <1>5, <3>1
    <3>3. ~(q[k - 1].left <= t) /\ q[k - 1].left \in Int
      BY <1>1, <1>2, <3>1
    <3> QED
      BY <1>1, <1>3, <3>2, <3>3
  <2>5. CASE k > n + 2
    <3>1. k \in n + 2..L + 1 /\ k - 1 \in n + 2..L + 1 /\ k - 1 \in 2..L
      BY <1>1, <1>2, <2>1, <2>5
    <3>2. s[k] = q[k - 1] /\ s[k - 1] = q[(k - 1) - 1]
      BY <1>5, <3>1
    <3> QED
      BY <3>1, <3>2 DEF Asleep, Sorted, L
  <2> QED
    BY <1>1, <1>2, <2>1, <2>2, <2>3, <2>4, <2>5
<1> QED
  BY <1>5, <1>6 DEF Asleep, Sorted, s

\* When the tick jumps, all that are due become ready: what is left sleeps on.
LEMMA DueAsleep ==
  ASSUME NEW r \in Seq(Coroutine), NEW q, Asleep(q)
  PROVE  /\ Due(r, q).ready \in Seq(Coroutine) /\ Asleep(Due(r, q).timers)
         /\ Due(r, q).ticks \in Nat
<1>0. q \in Seq(Timer)
  BY SleepersAreTimers
<1>1. CASE r # <<>> \/ q = <<>>
  BY <1>1 DEF Due
<1>2. CASE r = <<>> /\ q # <<>>
  <2> DEFINE t == q[1].left
             n == DueWithin(q, t)
             L == Len(q)
             f == [k \in 1..L - n |-> [who |-> q[k + n].who, left |-> q[k + n].left - t]]
  <2>1. /\ L \in Nat /\ 1 \in 1..L /\ \A k \in 1..L : q[k] \in Sleeper /\ q[k].left \in Int
    BY <1>2, SleepersAreTimers
  <2>2. t \in Int /\ t \in 1..Longest
    BY <2>1, Times DEF Sleeper
  <2>3. n \in 0..L /\ \A k \in 1..L : q[k].left <= t <=> k <= n
    BY <2>2, DueAreFirst
  <2>4. Due(r, q).timers = f /\ Due(r, q).ticks = t
    BY <1>2 DEF Due, Expiring
  <2> HIDE DEF n, t
  <2>5. L - n \in Nat /\ \A k \in 1..L - n : k + n \in 1..L /\ ~(k + n <= n)
    BY <2>1, <2>3
  <2> HIDE DEF L
  <2>6. ASSUME NEW k \in 1..L - n PROVE f[k] \in Sleeper
    <3>1. k + n \in 1..L /\ ~(k + n <= n)
      BY <2>5
    <3>2. q[k + n] \in Sleeper /\ q[k + n].left \in Int /\ ~(q[k + n].left <= t)
      BY <2>1, <2>3, <3>1
    <3>3. q[k + n].who \in Coroutine /\ q[k + n].left \in 1..Longest
      BY <3>2 DEF Sleeper
    <3>4. q[k + n].left - t \in 1..Longest
      BY <2>2, <3>2, <3>3, Times
    <3> QED
      BY <3>3, <3>4 DEF Sleeper
  <2>7. f \in Seq(Sleeper) /\ Len(f) = L - n
    <3>1. f \in [1..L - n -> Sleeper]
      BY <2>6
    <3> HIDE DEF f
    <3> QED
      BY <2>5, <3>1
  <2>8. ASSUME NEW k \in 2..Len(f) PROVE f[k - 1].left <= f[k].left
    <3>1. k \in 1..L - n /\ k - 1 \in 1..L - n /\ (k - 1) + n = (k + n) - 1
      BY <2>3, <2>5, <2>7
    <3>2. k + n \in 1..L /\ (k + n) - 1 \in 1..L /\ k + n \in 2..L
      BY <2>3, <2>5, <3>1
    <3>3. q[(k + n) - 1].left <= q[k + n].left
      BY <3>2 DEF Asleep, Sorted, L
    <3>4. f[k].left = q[k + n].left - t /\ f[k - 1].left = q[(k + n) - 1].left - t
      BY <3>1
    <3>5. q[k + n].left \in Int /\ q[(k + n) - 1].left \in Int
      BY <2>1, <3>2
    <3> QED
      BY <2>2, <3>3, <3>4, <3>5
  <2> HIDE DEF f
  <2>9. Asleep(f)
    BY <2>7, <2>8 DEF Asleep, Sorted
  <2>10. t \in Nat
    BY <2>2, Times
  <2>11. Due(r, q).ready \in Seq(Coroutine)
    BY <1>0, DueType
  <2> QED
    BY <2>4, <2>9, <2>10, <2>11
<1> QED
  BY <1>1, <1>2

-----------------------------------------------------------------------------
(* Types: the handlers.  A message taken from the mailbox is a message.     *)

\* Nothing has been taken from net when a handler runs.
LEMMA AllRemains ==
  ASSUME TypeOK
  PROVE  Remaining(net)
  BY DEF TypeOK, Remaining

\* on_accept_request stores an entry, or nothing.
LEMMA AcceptType ==
  ASSUME TypeOK, NEW i \in Node, NEW j \in Node, NEW m \in Message, m.type = "Accept",
         OnAcceptRequest(i, j, m, net), UNCHANGED submits
  PROVE  TypeOK'
<1> DEFINE ok    == m.ballot >= promised_ballot[i]
           entry == [ballot |-> m.ballot, command |-> m.command,
                     committed |-> log[i][m.slot].committed]
           reply == [type |-> "Accepted", slot |-> m.slot,
                     ballot |-> IF ok THEN m.ballot ELSE promised_ballot[i]]
<1>1. m.ballot \in Ballot /\ m.slot \in Slot /\ m.command \in Value /\ m.ballot # -1
  BY MessageFields, BallotOwner
<1>2. VotesQuiet
  <2>1. CASE ok
    BY <1>1, <2>1, PromiseQuiet DEF OnAcceptRequest
  <2>2. CASE ~ok
    BY <2>2, VotesUnchanged DEF OnAcceptRequest
  <2> QED
    BY <2>1, <2>2
<1>3. log' \in [Node -> [Slot -> AcceptedValue]] /\ \A k \in Node : LogOK(log'[k])
  <2>1. log \in [Node -> [Slot -> AcceptedValue]] /\ \A k \in Node : LogOK(log[k])
    BY LogsAreOK DEF TypeOK
  <2>2. CASE UNCHANGED log
    BY <2>1, <2>2
  <2>3. CASE log' = [log EXCEPT ![i][m.slot] = entry]
    <3>1. entry \in AcceptedValue /\ entry.ballot # -1
      <4>1. log[i][m.slot].committed \in BOOLEAN
        BY <1>1, <2>1 DEF AcceptedValue
      <4> QED
        BY <1>1, <4>1 DEF AcceptedValue
    <3> HIDE DEF entry
    <3>2. log' \in [Node -> [Slot -> AcceptedValue]]
      BY <1>1, <2>1, <2>3, <3>1
    <3>3. \A k \in Node, s \in Slot :
            log'[k][s] = IF k = i /\ s = m.slot THEN entry ELSE log[k][s]
      BY <1>1, <2>1, <2>3
    <3> QED
      BY <2>1, <3>1, <3>2, <3>3 DEF LogOK
  <2> QED
    BY <2>2, <2>3 DEF OnAcceptRequest
<1>4. net' \in [Channel -> Seq(Message)]
  <2>1. reply.ballot \in Ballot
    <3>1. promised_ballot[i] \in Ballot \cup {-1} /\ m.ballot \in Nat
      BY <1>1, BallotOwner DEF TypeOK
    <3> QED
      BY <1>1, <3>1
  <2>2. reply \in Message
    BY <1>1, <2>1 DEF Message
  <2>3. net' = Emit(net, i, Unicast(j, reply))
    BY DEF OnAcceptRequest
  <2> HIDE DEF reply
  <2>4. Added(net', net, i, reply)
    BY <2>2, <2>3, SendType DEF TypeOK
  <2> QED
    BY <2>4 DEF Added
<1>5. UNCHANGED <<election_round, prepare, proposals, applied, next_slot, submits>>
  BY DEF OnAcceptRequest, leadVars
<1> QED
  BY <1>2, <1>3, <1>4, <1>5 DEF VotesQuiet, TypeOK, LogOK, CommitIndex

\* on_commit and on_sync_data store what they are told.
LEMMA LearnType ==
  ASSUME TypeOK, NEW i \in Node, NEW es \in SUBSET RecoveredEntry, LearnCommitted(i, es),
         VotesQuiet, net' = net, UNCHANGED leadVars, UNCHANGED submits
  PROVE  TypeOK'
<1>1. /\ log' \in [Node -> [Slot -> AcceptedValue]]
      /\ \A k \in Node : LogOK(log'[k])
      /\ next_slot' \in [Node -> 1..MaxSlot + 1]
      /\ AppliedOK(applied')
  <2>1. /\ log' \in [Node -> [Slot -> AcceptedValue]]
        /\ LogOK(log'[i])
        /\ \A k \in Node \ {i} : log'[k] = log[k]
        /\ next_slot' \in [Node -> 1..MaxSlot + 1]
        /\ AppliedOK(applied')
    BY LearnCommittedEffect
  <2> QED
    BY <2>1, LogsAreOK
<1> QED
  BY <1>1 DEF VotesQuiet, TypeOK, LogOK, AppliedOK, CommitIndex, leadVars

LEMMA CommitType ==
  ASSUME TypeOK, NEW i \in Node, NEW j \in Node, NEW m \in Message, m.type = "Commit",
         OnCommit(i, j, m, net), UNCHANGED submits
  PROVE  TypeOK'
<1>1. m.ballot \in Ballot /\ m.ballot \in Nat
      /\ {[slot |-> m.slot, ballot |-> m.ballot, command |-> m.command]} \in SUBSET RecoveredEntry
  BY MessageFields, BallotOwner DEF RecoveredEntry
<1>2. VotesQuiet
  <2>1. PICK b \in Ballot \cup {-1} : b = MaxOf(m.ballot, promised_ballot[i]) /\ b >= promised_ballot[i]
    BY <1>1, BallotsAreInts DEF TypeOK, MaxOf
  <2>2. promised_ballot' = [promised_ballot EXCEPT ![i] = b]
    BY <2>1 DEF OnCommit
  <2>3. /\ is_leader' \in [Node -> BOOLEAN]
        /\ active_ballot' \in [Node -> Ballot \cup {-1}]
        /\ \A k \in Node : is_leader'[k] =>
             is_leader[k] /\ active_ballot'[k] = active_ballot[k] /\ active_ballot[k] # -1
    BY <1>1, StepDownType DEF OnCommit
  <2>4. promised_ballot \in [Node -> Ballot \cup {-1}]
    BY DEF TypeOK
  <2>5. /\ promised_ballot' \in [Node -> Ballot \cup {-1}]
        /\ \A k \in Node : promised_ballot'[k] >= promised_ballot[k]
    <3>1. \A k \in Node : promised_ballot[k] \in Int
      BY BallotsAreInts
    <3> QED
      BY <2>1, <2>2, <2>4, <3>1
  <2> QED
    BY <2>3, <2>5 DEF VotesQuiet
<1> QED
  BY <1>1, <1>2, LearnType DEF OnCommit

LEMMA SyncDataType ==
  ASSUME TypeOK, NEW i \in Node, NEW j \in Node, NEW m \in Message, m.type = "SyncData",
         OnSyncData(i, j, m, net), UNCHANGED submits
  PROVE  TypeOK'
<1>1. m.entries \in SUBSET RecoveredEntry
  BY MessageFields
<1>2. VotesQuiet
  BY VotesUnchanged DEF OnSyncData
<1> QED
  BY <1>1, <1>2, LearnType DEF OnSyncData

\* Collecting a promise, and closing the prepare phase, keep its type.
LEMMA PrepareType ==
  ASSUME NEW p \in PrepareState, NEW j \in Node, NEW es \in SUBSET RecoveredEntry, NEW prep,
         prep = [p EXCEPT !.from = @ \cup {j}, !.entries[j] = es]
  PROVE  /\ prep \in PrepareState
         /\ [prep EXCEPT !.completed = TRUE] \in PrepareState
<1>1. /\ p.from \cup {j} \in SUBSET Node
      /\ [p.entries EXCEPT ![j] = es] \in [Node -> SUBSET RecoveredEntry]
      /\ p.ballot \in Ballot \cup {-1} /\ p.completed \in BOOLEAN
  BY DEF PrepareState
<1>2. prep = [ballot |-> p.ballot, completed |-> p.completed, from |-> p.from \cup {j},
              entries |-> [p.entries EXCEPT ![j] = es]]
  BY DEF PrepareState
<1>3. prep \in PrepareState
  BY <1>1, <1>2 DEF PrepareState
<1> QED
  BY <1>3 DEF PrepareState

\* on_promise, with become_leader when it completes the quorum.
LEMMA PromiseType ==
  ASSUME TypeOK, NEW i \in Node, NEW j \in Node, NEW m \in Message, m.type = "Promise",
         OnPromise(i, j, m, net), UNCHANGED submits
  PROVE  TypeOK'
<1> DEFINE prep == [prepare[i] EXCEPT !.from = @ \cup {j}, !.entries[j] = m.entries]
           open == ~prepare[i].completed /\ prepare[i].ballot = m.ballot
           won  == open /\ m.ok /\ Cardinality(prep.from) >= Quorum
<1>1. m.ballot \in Ballot /\ m.ballot \in Nat /\ m.ballot # -1 /\ m.entries \in SUBSET RecoveredEntry
  BY MessageFields, BallotOwner
<1>2. prep \in PrepareState /\ [prep EXCEPT !.completed = TRUE] \in PrepareState
  BY <1>1, PrepareType DEF TypeOK
<1>3. CASE won
  <2>1. /\ prepare' = [prepare EXCEPT ![i] = [prep EXCEPT !.completed = TRUE]]
        /\ BecomeLeader(i, m.ballot, prep, net)
        /\ UNCHANGED election_round
    BY <1>3 DEF OnPromise
  <2>2. \E D \in SUBSET Slot : \E cmds \in [D -> Value] : ProposeSlots(i, m.ballot, cmds, net)
    BY <1>1, <2>1, BecomeLeaderProposes
  <2>3. /\ log' \in [Node -> [Slot -> AcceptedValue]]
        /\ \A k \in Node : LogOK(log'[k])
        /\ proposals' \in [Node -> [Slot -> SlotProposal]]
        /\ AppliedOK(applied')
        /\ net' \in [Channel -> Seq(Message)]
    <3>1. net \in [Channel -> Seq(Message)]
      BY DEF TypeOK
    <3>2. PICK D \in SUBSET Slot : \E cmds \in [D -> Value] : ProposeSlots(i, m.ballot, cmds, net)
      BY <2>2
    <3>3. PICK cmds \in [D -> Value] : ProposeSlots(i, m.ballot, cmds, net)
      BY <3>2
    <3>4. /\ log' \in [Node -> [Slot -> AcceptedValue]]
          /\ LogOK(log'[i])
          /\ \A k \in Node \ {i} : log'[k] = log[k]
          /\ proposals' \in [Node -> [Slot -> SlotProposal]]
          /\ AppliedOK(applied')
          /\ Announced(net', net, m.ballot, cmds)
      BY <1>1, <3>1, <3>3, ProposeSlotsEffect
    <3> QED
      BY <3>4, LogsAreOK DEF Announced
  <2>4. prepare' \in [Node -> PrepareState]
    BY <1>2, <2>1 DEF TypeOK
  <2>5. next_slot' \in [Node -> 1..MaxSlot + 1]
    <3> DEFINE reported == UNION {prep.entries[k] : k \in prep.from}
               tops == {next_slot[i]} \cup {s + 1 : s \in {e.slot : e \in reported}}
    <3>1. reported \subseteq RecoveredEntry
      <4>1. prep.from \in SUBSET Node /\ prep.entries \in [Node -> SUBSET RecoveredEntry]
        BY <1>2 DEF PrepareState
      <4> HIDE DEF prep
      <4> QED
        BY <4>1
    <3>2. next_slot \in [Node -> 1..MaxSlot + 1] /\ MaxSlot \in Nat
      BY BoundAssumption DEF TypeOK
    <3>3. tops \subseteq 1..MaxSlot + 1
      BY <3>1, <3>2 DEF RecoveredEntry, Slot
    <3>4. \E top \in tops : next_slot' = [next_slot EXCEPT ![i] = top]
      BY <2>1 DEF BecomeLeader
    <3> HIDE DEF tops
    <3> QED
      BY <3>2, <3>3, <3>4
  <2>6. /\ is_leader' \in [Node -> BOOLEAN]
        /\ active_ballot' \in [Node -> Ballot \cup {-1}]
        /\ promised_ballot' \in [Node -> Ballot \cup {-1}]
        /\ \A k \in Node : is_leader'[k] => active_ballot'[k] # -1
    BY <1>1, <2>1 DEF BecomeLeader, TypeOK, MaxOf
  <2> QED
    BY <2>1, <2>3, <2>4, <2>5, <2>6 DEF TypeOK, LogOK, AppliedOK, CommitIndex
<1>4. CASE ~won
  <2>1. /\ IF open /\ m.ok THEN prepare' = [prepare EXCEPT ![i] = prep] ELSE UNCHANGED prepare
        /\ StepDownIfStale(i, m.ballot) \/ UNCHANGED <<is_leader, active_ballot>>
        /\ net' = net
        /\ UNCHANGED <<promised_ballot, election_round, proposals, logVars>>
    BY <1>4 DEF OnPromise
  <2>2. prepare' \in [Node -> PrepareState]
    BY <1>2, <2>1 DEF TypeOK
  <2>3. /\ is_leader' \in [Node -> BOOLEAN]
        /\ active_ballot' \in [Node -> Ballot \cup {-1}]
        /\ \A k \in Node : is_leader'[k] => active_ballot'[k] # -1
    <3>1. CASE StepDownIfStale(i, m.ballot)
      BY <1>1, <3>1, StepDownType
    <3>2. CASE UNCHANGED <<is_leader, active_ballot>>
      BY <3>2 DEF TypeOK
    <3> QED
      BY <2>1, <3>1, <3>2
  <2> QED
    BY <2>1, <2>2, <2>3 DEF TypeOK, logVars, CommitIndex
<1> QED
  BY <1>3, <1>4

\* on_accepted.
LEMMA AcceptedType ==
  ASSUME TypeOK, NEW i \in Node, NEW j \in Node, NEW m \in Message, m.type = "Accepted",
         OnAccepted(i, j, m, net), UNCHANGED submits
  PROVE  TypeOK'
<1> DEFINE counted == /\ is_leader[i]
                      /\ m.ballot = active_ballot[i]
                      /\ proposals[i][m.slot].accepts # {}
<1>1. CASE counted
  <2>1. Counts(i, m.slot)
    BY <1>1, AllRemains, OnAcceptedCounted
  <2> QED
    BY <2>1 DEF Counts
<1>2. CASE ~counted
  <2>1. Quiet
    BY <1>2, AllRemains, OnAcceptedQuiet
  <2> QED
    BY <2>1 DEF Quiet
<1> QED
  BY <1>1, <1>2

\* A submission, a client's or a forwarded one.
LEMMA CommandType ==
  ASSUME TypeOK, NEW i \in Node, NEW cmd \in Value, SubmitCommand(i, cmd, net),
         submits' \in [Command -> 0..MaxSubmits]
  PROVE  TypeOK'
<1>1. Submission(i, cmd, net)
  BY AllRemains DEF Submission
<1>2. Quiet \/ \E s \in Slot : Submits(i, s, cmd)
  BY <1>1, SubmissionKinds
<1> QED
  BY <1>2 DEF Quiet, Submits

\* Whatever message a node handles.
LEMMA OnMessageType ==
  ASSUME TypeOK, NEW i \in Node, NEW j \in Node, NEW m \in Message,
         OnMessage(i, j, m, net), UNCHANGED submits
  PROVE  TypeOK'
<1>1. CASE m.type = "Prepare" /\ OnPrepare(i, j, m, net)
  <2>1. Quiet
    BY <1>1, AllRemains, OnPrepareQuiet
  <2> QED
    BY <2>1 DEF Quiet
<1>2. CASE m.type = "Promise" /\ OnPromise(i, j, m, net)
  BY <1>2, PromiseType
<1>3. CASE m.type = "Accept" /\ OnAcceptRequest(i, j, m, net)
  BY <1>3, AcceptType
<1>4. CASE m.type = "Accepted" /\ OnAccepted(i, j, m, net)
  BY <1>4, AcceptedType
<1>5. CASE m.type = "Commit" /\ OnCommit(i, j, m, net)
  BY <1>5, CommitType
<1>6. CASE m.type = "Heartbeat" /\ OnHeartbeat(i, j, m, net)
  <2>1. Quiet
    BY <1>6, AllRemains, OnHeartbeatQuiet
  <2> QED
    BY <2>1 DEF Quiet
<1>7. CASE m.type = "SyncRequest" /\ OnSyncRequest(i, j, m, net)
  <2>1. Quiet
    BY <1>7, AllRemains, OnSyncRequestQuiet
  <2> QED
    BY <2>1 DEF Quiet
<1>8. CASE m.type = "SyncData" /\ OnSyncData(i, j, m, net)
  BY <1>8, SyncDataType
<1>9. CASE m.type = "Forward" /\ OnForwardRequest(i, j, m, net)
  <2>1. m.command \in Value /\ submits' \in [Command -> 0..MaxSubmits]
    BY <1>9, MessageFields DEF TypeOK
  <2> QED
    BY <1>9, <2>1, CommandType DEF OnForwardRequest
<1> QED
  BY <1>1, <1>2, <1>3, <1>4, <1>5, <1>6, <1>7, <1>8, <1>9 DEF OnMessage

-----------------------------------------------------------------------------
(* Types: the steps.                                                       *)

ClockTypes ==
  /\ up \subseteq Node /\ passed \subseteq up
  /\ draining \in passed \cup {0}
  /\ age \in 0..MaxSkew

LoopTypes ==
  /\ ready \in [Node -> Seq(Coroutine)] /\ waiters \in [Node -> Seq(Coroutine)]
  /\ timers \in [Node -> Seq(Sleeper)] /\ \A i \in Node : Asleep(timers[i])
  /\ silence \in [Node -> Nat] /\ \A i \in Node : silence[i] <= Timeout(i)
  /\ heard \in [Node -> Ballot \cup {-1}]

NetTypes ==
  /\ mailbox \in [Node -> Seq(Packet)] /\ inbound \in [Node -> Seq(Packet)]
  /\ wire \in [Node -> Seq(Packet)]
  /\ waited \in [Node -> 0..SelectRounds]

\* The types of the variables, those of Paxos among them.
Types == TypeOK /\ ClockTypes /\ LoopTypes /\ NetTypes

\* One sequence after another.
LEMMA Joined ==
  ASSUME NEW S, NEW a \in Seq(S), NEW b \in Seq(S)
  PROVE  a \o b \in Seq(S)
  BY ConcatProperties

\* Ticks do not make a silence longer than its time limit.
LEMMA AgedType ==
  ASSUME Types, NEW i \in Node, NEW ticks \in Nat
  PROVE  Aged(i, ticks) \in Nat /\ Aged(i, ticks) <= Timeout(i)
<1>1. silence[i] \in Nat /\ Timeout(i) \in Nat
  BY Times DEF Types, LoopTypes
<1> QED
  BY <1>1 DEF Aged

\* What one node's timers and time become.
Turned(i, q, quiet) ==
  /\ Asleep(q) /\ quiet \in Nat /\ quiet <= Timeout(i)
  /\ timers' = [timers EXCEPT ![i] = q]
  /\ silence' = [silence EXCEPT ![i] = quiet]
  /\ draining' \in {0, i}

\* What the loop that a pass resumes does.
LEMMA PassTurns ==
  ASSUME Types, NEW i \in Node, Pass(i), Woken(i) \in Seq(Coroutine)
  PROVE  TypeOK' /\ \E q, quiet : Turned(i, q, quiet)
<1> DEFINE due == Due(Woken(i), timers[i])
           who == due.ready[1]
           quiet == Aged(i, due.ticks)
<1>1. /\ draining = 0
      /\ \/ /\ who = "message" /\ draining' = i
            /\ timers' = [timers EXCEPT ![i] = due.timers]
            /\ silence' = [silence EXCEPT ![i] = quiet]
            /\ UNCHANGED vars
         \/ /\ who = "election" /\ draining' = draining
            /\ timers' = [timers EXCEPT ![i] = Scheduled(due.timers, "election", ElectionTicks)]
            /\ \/ StartElection(i) /\ silence' = [silence EXCEPT ![i] = 0]
               \/ UNCHANGED vars /\ silence' = [silence EXCEPT ![i] = quiet]
         \/ /\ who = "heartbeat" /\ draining' = draining
            /\ timers' = [timers EXCEPT ![i] = Scheduled(due.timers, "heartbeat", HeartbeatTicks)]
            /\ silence' = [silence EXCEPT ![i] = quiet]
            /\ BroadcastHeartbeat(i) \/ UNCHANGED vars
  BY DEF Pass
<1>2. TypeOK /\ Asleep(timers[i])
  BY DEF Types, LoopTypes
<1>3. Asleep(due.timers) /\ due.ticks \in Nat
  BY <1>2, DueAsleep
<1>4. quiet \in Nat /\ quiet <= Timeout(i) /\ 0 <= Timeout(i)
  <2>1. PICK ticks \in Nat : ticks = due.ticks
    BY <1>3
  <2>2. Aged(i, ticks) \in Nat /\ Aged(i, ticks) <= Timeout(i)
    BY AgedType
  <2>3. Timeout(i) \in Nat
    BY Times
  <2> QED
    BY <2>1, <2>2, <2>3
<1> HIDE DEF due, quiet
<1>5. TypeOK'
  <2>1. CASE StartElection(i)
    <3>1. Starts(i)
      BY <1>2, <2>1, StartElectionEffect
    <3> QED
      BY <3>1 DEF Starts
  <2>2. CASE BroadcastHeartbeat(i)
    <3>1. Quiet
      BY <1>2, <2>2, BroadcastHeartbeatQuiet
    <3> QED
      BY <3>1 DEF Quiet
  <2>3. CASE UNCHANGED vars
    BY <1>2, <2>3 DEF TypeOK, vars, voteVars, leadVars, logVars, CommitIndex
  <2> QED
    BY <1>1, <2>1, <2>2, <2>3
<1>6. /\ Asleep(Scheduled(due.timers, "election", ElectionTicks))
      /\ Asleep(Scheduled(due.timers, "heartbeat", HeartbeatTicks))
  BY <1>3, Times, ScheduledAsleep DEF Coroutine
<1>7. \E q, w : Turned(i, q, w)
  <2>1. CASE /\ who = "message" /\ draining' = i
             /\ timers' = [timers EXCEPT ![i] = due.timers]
             /\ silence' = [silence EXCEPT ![i] = quiet]
    <3>1. Turned(i, due.timers, quiet)
      BY <1>3, <1>4, <2>1 DEF Turned
    <3> QED
      BY <3>1
  <2>2. ASSUME NEW q, Asleep(q), draining' = 0, timers' = [timers EXCEPT ![i] = q],
               \/ silence' = [silence EXCEPT ![i] = 0]
               \/ silence' = [silence EXCEPT ![i] = quiet]
        PROVE  \E w : Turned(i, q, w)
    <3>1. PICK w : w \in {0, quiet} /\ silence' = [silence EXCEPT ![i] = w]
      BY <2>2
    <3>2. Turned(i, q, w)
      BY <1>4, <2>2, <3>1 DEF Turned
    <3> QED
      BY <3>2
  <2> QED
    BY <1>1, <1>6, <2>1, <2>2
<1> QED
  BY <1>5, <1>7

LEMMA PassTypes ==
  ASSUME Types, NEW i \in Node, Pass(i)
  PROVE  Types'
<1> DEFINE due == Due(Woken(i), timers[i])
           r   == SubSeq(due.ready, 2, Len(due.ready))
<1>1. /\ i \in up \ passed /\ passed' = passed \cup {i}
      /\ mailbox' = [mailbox EXCEPT ![i] = mailbox[i] \o inbound[i]]
      /\ inbound' = [inbound EXCEPT ![i] = <<>>]
      /\ waiters' = [waiters EXCEPT ![i] = StillWaiting(i)]
      /\ ready' = [ready EXCEPT ![i] = r]
      /\ UNCHANGED <<wire, waited, heard, age, up>>
  BY DEF Pass
<1>2. Woken(i) \in Seq(Coroutine) /\ StillWaiting(i) \in Seq(Coroutine)
  <2>1. ready[i] \in Seq(Coroutine) /\ waiters[i] \in Seq(Coroutine)
    BY DEF Types, LoopTypes
  <2> QED
    BY <2>1, Joined DEF Woken, StillWaiting
<1>3. r \in Seq(Coroutine)
  <2>1. due.ready \in Seq(Coroutine)
    BY <1>2, DueAsleep DEF Types, LoopTypes
  <2> DEFINE d == due.ready
  <2>2. d \in Seq(Coroutine) /\ Len(d) \in Nat
    BY <2>1
  <2> HIDE DEF d
  <2>3. SubSeq(d, 2, Len(d)) \in Seq(Coroutine)
    BY <2>2
  <2> QED
    BY <2>3 DEF d
<1> HIDE DEF r
<1>4. TypeOK' /\ \E q, quiet : Turned(i, q, quiet)
  BY <1>2, PassTurns
<1>5. PICK q, quiet : Turned(i, q, quiet)
  BY <1>4
<1>6. ClockTypes'
  BY <1>1, <1>5 DEF Types, ClockTypes, Turned
<1>7. LoopTypes'
  <2>1. ready' \in [Node -> Seq(Coroutine)] /\ waiters' \in [Node -> Seq(Coroutine)]
    BY <1>1, <1>2, <1>3 DEF Types, LoopTypes
  <2>2. timers' \in [Node -> Seq(Sleeper)] /\ \A j \in Node : Asleep(timers'[j])
    <3>1. q \in Seq(Sleeper) /\ Asleep(q) /\ timers' = [timers EXCEPT ![i] = q]
      BY <1>5 DEF Turned, Asleep
    <3> QED
      BY <3>1 DEF Types, LoopTypes
  <2>3. silence' \in [Node -> Nat] /\ \A j \in Node : silence'[j] <= Timeout(j)
    BY <1>5 DEF Types, LoopTypes, Turned
  <2>4. heard' \in [Node -> Ballot \cup {-1}]
    BY <1>1 DEF Types, LoopTypes
  <2> QED
    BY <2>1, <2>2, <2>3, <2>4 DEF LoopTypes, Asleep, Sorted, Timeout
<1>8. NetTypes'
  <2>1. mailbox[i] \in Seq(Packet) /\ inbound[i] \in Seq(Packet)
    BY DEF Types, NetTypes
  <2>2. PICK b \in Seq(Packet) : b = mailbox[i] \o inbound[i]
    BY <2>1, Joined
  <2> QED
    BY <1>1, <2>2 DEF Types, NetTypes
<1> QED
  BY <1>4, <1>6, <1>7, <1>8 DEF Types

LEMMA HandleTypes ==
  ASSUME Types, NEW i \in Node, Handle(i)
  PROVE  Types'
<1> DEFINE p == Head(mailbox[i])
           m == p.m
<1>1. /\ mailbox[i] # <<>>
      /\ mailbox' = [mailbox EXCEPT ![i] = Tail(mailbox[i])]
      /\ OnMessage(i, p.from, m, net)
      /\ \E w \in {0, silence[i]} : silence' = [silence EXCEPT ![i] = w]
      /\ \E h : /\ heard' = [heard EXCEPT ![i] = h]
                /\ h = heard[i] \/ (h = m.ballot /\ m.type = "Heartbeat")
      /\ UNCHANGED <<submits, ready, timers, waiters, inbound, wire, waited, draining, passed, age, up>>
  BY DEF Handle, ioVars, roundVars
<1>2. p \in Packet /\ Tail(mailbox[i]) \in Seq(Packet)
  <2>1. mailbox[i] \in Seq(Packet)
    BY DEF Types, NetTypes
  <2> QED
    BY <1>1, <2>1
<1> HIDE DEF p
<1>3. p.from \in Node /\ m \in Message
  BY <1>2 DEF Packet
<1> HIDE DEF m
<1>4. TypeOK'
  BY <1>1, <1>3, OnMessageType DEF Types
<1>5. ClockTypes'
  BY <1>1 DEF Types, ClockTypes
<1>6. LoopTypes'
  <2>1. silence' \in [Node -> Nat] /\ \A k \in Node : silence'[k] <= Timeout(k)
    BY <1>1, Times DEF Types, LoopTypes
  <2>2. heard' \in [Node -> Ballot \cup {-1}]
    <3>1. m.type = "Heartbeat" => m.ballot \in Ballot
      BY <1>3, MessageFields
    <3> QED
      BY <1>1, <3>1 DEF Types, LoopTypes
  <2> QED
    BY <1>1, <2>1, <2>2 DEF Types, LoopTypes, Asleep, Sorted, Timeout
<1>7. NetTypes'
  BY <1>1, <1>2 DEF Types, NetTypes
<1> QED
  BY <1>4, <1>5, <1>6, <1>7 DEF Types

\* What is on its way to a node are packets.
LEMMA OutboundType ==
  ASSUME TypeOK, NEW i \in Node, NEW j \in Node
  PROVE  Outbound(i, j) \in Seq(Packet)
<1> DEFINE q == net[<<i, j>>]
<1>1. q \in Seq(Message)
  BY DEF TypeOK, Channel
<1>2. Outbound(i, j) = [k \in DOMAIN q |-> [from |-> i, m |-> q[k]]]
  BY DEF Outbound
<1> HIDE DEF q
<1>3. Len(q) \in Nat /\ DOMAIN q = 1..Len(q)
  BY <1>1
<1>4. \A k \in 1..Len(q) : [from |-> i, m |-> q[k]] \in Packet
  BY <1>1 DEF Packet
<1>5. Outbound(i, j) \in [1..Len(q) -> Packet]
  BY <1>2, <1>3, <1>4
<1> QED
  BY <1>3, <1>5

LEMMA IoLoopTypes ==
  ASSUME Types, NEW i \in Node, IoLoop(i)
  PROVE  Types'
<1>1. /\ inbound' = [inbound EXCEPT ![i] = inbound[i] \o wire[i] \o Outbound(i, i)]
      /\ wire' = [j \in Node |-> IF j = i THEN <<>>
                   ELSE IF j \in up THEN wire[j] \o Outbound(i, j) ELSE wire[j]]
      /\ net' = [c \in Channel |-> IF c[1] = i THEN <<>> ELSE net[c]]
      /\ waited' = [waited EXCEPT ![i] = 0]
      /\ UNCHANGED <<voteVars, leadVars, logVars, submits>>
      /\ UNCHANGED <<ready, timers, waiters, mailbox, silence, heard, draining, passed, age, up>>
  BY DEF IoLoop, procVars, timeVars, roundVars
<1>2. TypeOK'
  <2>1. net' \in [Channel -> Seq(Message)]
    <3>1. <<>> \in Seq(Message)
      OBVIOUS
    <3> QED
      BY <1>1, <3>1 DEF Types, TypeOK
  <2> QED
    BY <1>1, <2>1 DEF Types, TypeOK, voteVars, leadVars, logVars, CommitIndex
<1>3. \A j \in Node : inbound[j] \in Seq(Packet) /\ wire[j] \in Seq(Packet)
                      /\ Outbound(i, j) \in Seq(Packet)
  BY OutboundType DEF Types, NetTypes
<1>4. PICK b \in Seq(Packet) : b = inbound[i] \o wire[i] \o Outbound(i, i)
  <2>1. inbound[i] \o wire[i] \in Seq(Packet)
    BY <1>3, Joined
  <2>2. (inbound[i] \o wire[i]) \o Outbound(i, i) \in Seq(Packet)
    BY <1>3, <2>1, Joined
  <2> QED
    BY <2>2
<1>5. \A j \in Node : wire[j] \o Outbound(i, j) \in Seq(Packet)
  BY <1>3, Joined
<1>6. inbound' \in [Node -> Seq(Packet)]
  BY <1>1, <1>4 DEF Types, NetTypes
<1>7. wire' \in [Node -> Seq(Packet)]
  <2>1. <<>> \in Seq(Packet)
    OBVIOUS
  <2>2. \A j \in Node : (IF j = i THEN <<>>
                         ELSE IF j \in up THEN wire[j] \o Outbound(i, j) ELSE wire[j])
                        \in Seq(Packet)
    BY <1>3, <1>5, <2>1
  <2> QED
    BY <1>1, <2>2
<1>8. NetTypes'
  <2>1. 0 \in 0..SelectRounds
    BY TimeAssumption
  <2> QED
    BY <1>1, <1>6, <1>7, <2>1 DEF Types, NetTypes
<1>9. ClockTypes' /\ LoopTypes'
  BY <1>1 DEF Types, ClockTypes, LoopTypes, Asleep, Sorted, Timeout
<1> QED
  BY <1>2, <1>8, <1>9 DEF Types

LEMMA NextRoundTypes ==
  ASSUME Types, NextRound
  PROVE  Types'
<1>1. /\ draining = 0 /\ passed' = {}
      /\ waited' = [i \in Node |-> IF i \in up THEN waited[i] + 1 ELSE 0]
      /\ age' = IF age < MaxSkew THEN age + 1 ELSE age
      /\ UNCHANGED vars
      /\ UNCHANGED <<ready, timers, waiters, mailbox, inbound, wire, silence, heard, draining, up>>
  BY DEF NextRound, procVars, timeVars
<1>2. \A i \in Node : ~IoAwake(i)
  BY DEF NextRound
<1>3. SelectRounds \in Nat /\ MaxSkew \in Nat
  BY TimeAssumption
<1>4. ClockTypes'
  BY <1>1, <1>3 DEF Types, ClockTypes
<1>5. LoopTypes'
  BY <1>1 DEF Types, LoopTypes, Asleep, Sorted, Timeout
<1>6. waited' \in [Node -> 0..SelectRounds]
  <2>1. ASSUME NEW i \in Node PROVE (IF i \in up THEN waited[i] + 1 ELSE 0) \in 0..SelectRounds
    <3>1. waited[i] \in 0..SelectRounds
      BY DEF Types, NetTypes
    <3>2. i \in up => ~(waited[i] >= SelectRounds)
      BY <1>2 DEF IoAwake
    <3> QED
      BY <1>3, <3>1, <3>2
  <2> QED
    BY <1>1, <2>1
<1>7. NetTypes'
  BY <1>1, <1>6 DEF Types, NetTypes
<1>8. TypeOK'
  BY <1>1 DEF Types, TypeOK, vars, voteVars, leadVars, logVars, CommitIndex
<1> QED
  BY <1>4, <1>5, <1>7, <1>8 DEF Types

\* A step that leaves the timers, the queues and the rounds alone.
LEMMA RestTypes ==
  ASSUME Types, TypeOK', up' \subseteq Node, up \subseteq up', waiters' \in [Node -> Seq(Coroutine)],
         draining' \in {0, draining}, UNCHANGED <<ready, timers, mailbox, ioVars, timeVars, passed, age>>
  PROVE  Types'
<1>1. ClockTypes'
  BY DEF Types, ClockTypes
<1>2. LoopTypes'
  BY DEF Types, LoopTypes, Asleep, Sorted, timeVars, Timeout
<1>3. NetTypes'
  BY DEF Types, NetTypes, ioVars
<1> QED
  BY <1>1, <1>2, <1>3 DEF Types

LEMMA NextTypes == Types /\ [TimedNext]_timedVars => Types'
<1> SUFFICES ASSUME Types, [TimedNext]_timedVars PROVE Types'
  OBVIOUS
<1>1. /\ TypeOK /\ up \subseteq Node /\ waiters \in [Node -> Seq(Coroutine)]
      /\ UNCHANGED vars => TypeOK'
  BY DEF Types, ClockTypes, LoopTypes, TypeOK, vars, voteVars, leadVars, logVars, CommitIndex
<1>2. ASSUME NEW i \in Node, Pass(i) PROVE Types'
  BY <1>2, PassTypes
<1>3. ASSUME NEW i \in Node, Handle(i) PROVE Types'
  BY <1>3, HandleTypes
<1>4. ASSUME NEW i \in Node, Wait(i) PROVE Types'
  <2>1. /\ waiters' = [waiters EXCEPT ![i] = Append(waiters[i], "message")]
        /\ draining' = 0
        /\ UNCHANGED <<vars, ready, timers, mailbox, ioVars, timeVars, passed, age, up>>
    BY <1>4 DEF Wait
  <2>2. Append(waiters[i], "message") \in Seq(Coroutine)
    <3>1. waiters[i] \in Seq(Coroutine) /\ "message" \in Coroutine
      BY <1>1 DEF Coroutine
    <3> QED
      BY <3>1
  <2>3. waiters' \in [Node -> Seq(Coroutine)]
    BY <1>1, <2>1, <2>2
  <2> QED
    BY <1>1, <2>1, <2>3, RestTypes
<1>5. ASSUME NEW i \in Node, IoLoop(i) PROVE Types'
  BY <1>5, IoLoopTypes
<1>6. ASSUME NEW i \in Node, NEW cmd \in Command, Submit(i, cmd) PROVE Types'
  <2>1. /\ ClientSubmit(i, cmd)
        /\ UNCHANGED <<procVars, ioVars, timeVars, roundVars, up>>
    BY <1>6 DEF Submit
  <2>2. submits' \in [Command -> 0..MaxSubmits]
    BY <1>1, <2>1, BoundAssumption DEF ClientSubmit, TypeOK
  <2>3. TypeOK'
    <3>1. cmd \in Value
      BY DEF Value
    <3> QED
      BY <1>1, <2>1, <2>2, <3>1, CommandType DEF ClientSubmit
  <2> QED
    BY <1>1, <2>1, <2>3, RestTypes DEF procVars, roundVars
<1>7. ASSUME NEW i \in Node, Start(i) PROVE Types'
  <2>1. /\ up' = up \cup {i}
        /\ UNCHANGED <<vars, procVars, ioVars, timeVars, roundVars>>
    BY <1>7 DEF Start
  <2> QED
    BY <1>1, <2>1, RestTypes DEF procVars, roundVars
<1>8. CASE NextRound
  BY <1>8, NextRoundTypes
<1>9. CASE UNCHANGED timedVars
  BY <1>1, <1>9, RestTypes DEF timedVars, procVars, roundVars
<1> QED
  BY <1>2, <1>3, <1>4, <1>5, <1>6, <1>7, <1>8, <1>9 DEF TimedNext

LEMMA InitTypes == TimedInit => Types
<1> SUFFICES ASSUME TimedInit PROVE Types
  OBVIOUS
<1>1. TypeOK
  BY InitType DEF TimedInit
<1>2. ClockTypes
  BY TimeAssumption DEF TimedInit, ClockTypes
<1>3. NetTypes
  BY TimeAssumption DEF TimedInit, NetTypes
<1>4. Asleep(<<>>) /\ <<>> \in Seq(Sleeper)
  BY DEF Asleep, Sorted
<1>5. <<"message", "election", "heartbeat">> \in Seq(Coroutine)
  BY DEF Coroutine
<1>6. LoopTypes
  BY <1>4, <1>5, Times DEF TimedInit, LoopTypes
<1> QED
  BY <1>1, <1>2, <1>3, <1>6 DEF Types

\* Every variable has its type: timers are in order and due later than now, since
\* run_one takes all the timers of the tick it jumps to and schedule keeps the
\* order of the multimap (runtime.hpp); a silence never passes its time limit, no
\* io thread waits longer than select does, and whatever passes through the
\* queues, every handler leaves the state of the node as Paxos describes it
\* (paxos.cpp, paxos_tcp_transport.cpp).
THEOREM WellTyped == TimedSpec => []TimedTypeOK
<1>1. Types => TimedTypeOK
  <2> SUFFICES ASSUME Types PROVE TimedTypeOK
    OBVIOUS
  <2>1. /\ TypeOK
        /\ up \subseteq Node /\ passed \subseteq up /\ draining \in passed \cup {0}
        /\ age \in 0..MaxSkew
    BY DEF Types, ClockTypes
  <2>2. ASSUME NEW i \in Node
        PROVE  /\ {ready[i], waiters[i]} \subseteq Seq(Coroutine)
               /\ timers[i] \in Seq([who : Coroutine, left : 1..MaxOf(HeartbeatTicks, ElectionTicks)])
               /\ \A k \in 2..Len(timers[i]) : timers[i][k - 1].left <= timers[i][k].left
               /\ silence[i] \in 0..Timeout(i)
               /\ heard[i] \in Ballot \cup {-1}
    <3>1. ready[i] \in Seq(Coroutine) /\ waiters[i] \in Seq(Coroutine)
      BY DEF Types, LoopTypes
    <3>2. timers[i] \in Seq(Sleeper) /\ Sorted(timers[i])
      BY DEF Types, LoopTypes, Asleep
    <3>3. silence[i] \in Nat /\ silence[i] <= Timeout(i) /\ Timeout(i) \in Nat
      BY Times DEF Types, LoopTypes
    <3>4. heard[i] \in Ballot \cup {-1}
      BY DEF Types, LoopTypes
    <3>5. silence[i] \in 0..Timeout(i)
      BY <3>3
    <3> QED
      BY <3>1, <3>2, <3>4, <3>5 DEF Sorted, Sleeper, Longest
  <2>3. ASSUME NEW i \in Node
        PROVE  /\ {mailbox[i], inbound[i], wire[i]} \subseteq Seq(Packet)
               /\ waited[i] \in 0..SelectRounds
    BY DEF Types, NetTypes
  <2> QED
    BY <2>1, <2>2, <2>3 DEF TimedTypeOK
<1> QED
  BY <1>1, InitTypes, NextTypes, PTL DEF TimedSpec

=============================================================================
