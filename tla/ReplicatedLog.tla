--------------------------- MODULE ReplicatedLog ---------------------------
(***************************************************************************)
(* What the replication promises the editor: one growing sequence of       *)
(* commands, each as often as it was submitted, of which every node has    *)
(* applied a prefix; a node that restarts begins again with none of it.    *)
(***************************************************************************)
EXTENDS Naturals, FiniteSets, SequencesExt

CONSTANTS
  Node, Command,
  Restarting  \* the nodes that may lose what they applied

VARIABLES
  chosen,   \* the sequence all nodes agree on
  applied,  \* what each node applied
  submits   \* how often each command was submitted

vars == <<chosen, applied, submits>>

Occurrences(q, cmd) == Cardinality({k \in DOMAIN q : q[k] = cmd})

Init ==
  /\ chosen = <<>>
  /\ applied = [i \in Node |-> <<>>]
  /\ submits = [cmd \in Command |-> 0]

Submit(cmd) ==
  /\ submits' = [submits EXCEPT ![cmd] = @ + 1]
  /\ UNCHANGED <<chosen, applied>>

\* Node i catches up with the chosen sequence, which may grow meanwhile.
Apply(i) ==
  /\ IsPrefix(chosen, chosen')
  /\ \A cmd \in Command : Occurrences(chosen', cmd) <= submits[cmd]
  /\ IsStrictPrefix(applied[i], applied'[i])
  /\ IsPrefix(applied'[i], chosen')
  /\ \A j \in Node \ {i} : applied'[j] = applied[j]
  /\ UNCHANGED submits

Forget(i) ==
  /\ applied' = [applied EXCEPT ![i] = <<>>]
  /\ UNCHANGED <<chosen, submits>>

Next ==
  \/ \E cmd \in Command : Submit(cmd)
  \/ \E i \in Node : Apply(i)
  \/ \E i \in Restarting : Forget(i)

Spec == Init /\ [][Next]_vars

====
