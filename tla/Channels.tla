------------------------------ MODULE Channels ------------------------------
(***************************************************************************)
(* What the transport promises the nodes, and what Paxos assumes of its    *)
(* reordering network: messages arrive at their destination only, in any   *)
(* order, each at most once, or never.                                     *)
(***************************************************************************)
EXTENDS FiniteSets, SequencesExt

CONSTANTS
  Node,
  Script  \* Script[i]: what node i sends, all of it different

VARIABLES
  sent,   \* how much of it each node has sent
  handed  \* what each node got

vars == <<sent, handed>>

Init ==
  /\ sent = [i \in Node |-> 0]
  /\ handed = [i \in Node |-> <<>>]

\* What may still arrive at j.
OnTheWay(j) ==
  {m \in UNION {Range(SubSeq(Script[i], 1, sent[i])) : i \in Node} : m.to = j}
    \ Range(handed[j])

\* Node i sends its next message.
Send(i) ==
  /\ sent[i] < Len(Script[i])
  /\ sent' = [sent EXCEPT ![i] = @ + 1]
  /\ UNCHANGED handed

\* Node j gets some of what is on its way, each message once.
Hand(j) ==
  LET new == SubSeq(handed'[j], Len(handed[j]) + 1, Len(handed'[j]))
  IN  /\ UNCHANGED sent
      /\ IsStrictPrefix(handed[j], handed'[j])
      /\ IsInjective(new)
      /\ Range(new) \subseteq OnTheWay(j)
      /\ \A i \in Node \ {j} : handed'[i] = handed[i]

Next == \E i \in Node : Send(i) \/ Hand(i)

Spec == Init /\ [][Next]_vars

====
