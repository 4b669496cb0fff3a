# Verification of the Paxos live document editor

TLA+ models of the editor in `src/`, the runs of TLC that check them on small
instances, and theorems TLAPS proves for every instance.

## 1. The system

Every user has a *page* (`frontend.html`) with a *bridge* (`bridge.js`) to a
*replica*, a C++ process (`paxos_node_main.cpp`). The replicas agree on one
sequence of edits with Paxos and each applies it to its own document.

```
 page --ws--> bridge --tcp--> EditorServer --input_queue--> main loop --submit--> Paxos node
   ^                               ^                          |   ^                  |
   '-------------- lines ----------'------- broadcast --------'   '-- applied log ---'
                                          Paxos node <--frames--> TCP transport <--> peers
```

| component | state | operations | interacts by |
|---|---|---|---|
| Paxos node (`paxos.cpp`, `paxos.hpp`, `messsage.hpp`) | role, ballots, log, applied log, prepare state, proposals | nine message handlers, election and heartbeat timers, `submit_client_command` | messages to all nodes, itself included; applied log read by main |
| Runtime, Mailbox (`runtime.hpp`, `nos.hpp`) | ready queue, timers, tick, queue, waiters | `schedule`, `run_one`, `push`, `receive` | resumes the node's three coroutines, one at a time |
| TCP transport (`paxos_tcp_transport.cpp`) | outbound and inbound queues, connections, frame buffers, crash flag | `send`, `pump_inbound`, the io thread, `crash`, `restore` | two mutexes between the main and io threads; sockets |
| Main loop (`paxos_node_main.cpp`) | `last_commit`, the document | pump, one coroutine step, drain `input_queue`, apply and broadcast commits | calls the node, the EditorServer, the document operations |
| EditorServer (`editor_server.cpp`) | `clients`, the streams | accept, one thread per client, full document, broadcast | `input_queue` under a mutex; the document, without one |
| Document operations (`interface.cpp`) | the document, its file | `apply_to_document`, `load_document`, `persist_document` | called by main |
| Bridge (`bridge.js`) | its socket, its page | connect and reconnect, fetch on connection, forwarding both ways | line stream to the replica, messages to the page |
| Page (`frontend.html`) | text, `logicalCursor`, `seen`, `pending`, `requestId` | typing, deleting, clicking, applying, retrying | messages to and from the bridge |

### What is hard, and what makes each part correct

* **Paxos node.** Competing leaders, stale promises, accepts and commits in any
  order, losses, commands that are forwarded and recovered. Correct if: one
  leader for a ballot, elected by a quorum; one command for a ballot and slot;
  a commit only behind a quorum; the applied logs agree, hold each command at
  most as often as it was submitted and are never rewritten; whoever missed
  something catches up.
* **Runtime and mailbox.** Timers run only when nothing is ready. Correct if no
  message waits without its receiver being woken and no timer starves.
* **Transport.** Two threads, connections that fail half way, a receiver that
  drops a buffer, the crash flag. Correct if what arrives was sent, once, and in
  order within a connection.
* **Main loop and EditorServer.** A client thread reads the document while main
  changes it. Correct if every committed entry is applied and broadcast once, in
  order, and a full document fits the entries that follow it.
* **Page and bridge.** Retries, deduplication, a cursor that is ahead of the
  text shown, losses while a socket is closed. Correct if a page ends up with
  its replica's document and every edit takes effect once.

`PROJECT.json` lists the hazards line by line, with the properties that cover
each one.

## 2. Modules

| module | what it is |
|---|---|
| `Paxos` | the PaxosNode and the channels between the nodes; its invariants |
| `PaxosRestart` | `Paxos` with processes that end and start again with nothing |
| `PaxosStable` | `PaxosRestart` while one node only starts elections: fairness, liveness, refinement |
| `ReplicatedLog` | abstract specification: one growing sequence, every node has applied a prefix |
| `PaxosProofs` | theorems about `Paxos`: types, elections, values |
| `PaxosHistoryProofs` | theorems about `Paxos`: what is applied, and how often; that winning an election commits nothing |
| `PaxosStableProofs` | theorems about `Paxos` and `PaxosRestart` with one candidate: history, agreement, restarts, and the refinement of `ReplicatedLog` |
| `Wire` | messages as words and words as messages: `serialize`, `deserialize`, the blobs of recovered entries |
| `Transport` | the queues, the io thread and the TCP connections of all processes, over `Wire` |
| `TransportProofs` | theorems about `Wire` and `Transport`: the format of messages, their order, and the refinement of `Channels` |
| `Channels` | abstract specification of the transport: the network `Paxos` assumes |
| `Runtime` | `Paxos` with time: coroutines, mailbox, ticks, the passes of main and the pace of the io thread decide when its handlers, timers and submissions run |
| `RuntimeProofs` | theorems about `Runtime`: wake-ups, where the coroutines are, types and the order of the timers |
| `Editor` | page, bridge, EditorServer, main loop and document, over a replicated log |
| `EditorProofs` | theorems about `Editor`: the documents of the replicas, the shape of the state, the keys of the edits |
| `EditorViewProofs` | theorems about `Editor`: what a page shows |
| `Folding` | lemmas about a fold with any step, for the folds of the models |
| `MCPaxos`, `MCPaxosStable`, `MCTransport`, `MCRuntime`, `MCEditor` | values for the constants |

Definitions marked *Slip* are not part of the models. Each is a mistake easily
made in the definition below it, and shows that some property depends on that
definition being right.

### `Paxos`: correspondence with the code

The variables are the members of `PaxosNode`, indexed by node: `is_leader`,
`active_ballot`, `promised_ballot`, `election_round`, `next_slot`
(`next_proposal_slot_`), `log`, `applied` (`applied_log_`; its length is
`commit_index_`), `prepare`, `proposals`. `net` holds the messages in transit
and `submits` counts, as history, what clients gave the nodes. Each `On...`
operator is the handler of that name with everything it calls, down to
`apply_commits` and the messages sent; `Receive` is `on_message`. Handlers run on
one thread without suspension, so one handler is one step.

What the model leaves out because it cannot be observed:

* `pending_client_commands_` is filled and emptied in the same call; a
  proposal's `committed` flag is set just before the proposal is erased;
  `accepted_ballot` of a promise (the sender's commit index) is never read.
* The first loop of `become_leader` writes log entries which the second one
  overwrites, and advances `next_proposal_slot_`; the model does the second and
  the advance.
* A log slot without an entry and one with the default entry are told apart by
  nothing the code does, so both are `NoEntry`.
* In `become_leader` the order of slots is that of an `unordered_map`, and
  `propose_slot` sends the Accepts of one slot before it looks at the next; the model
  takes every order of the Accepts. `propose_slot` may also commit, when the own
  accept or accepts left over from an earlier ballot reach the quorum, and apply
  before the next slot is written. With two nodes or more that never happens: the
  left-overs are less than a quorum and include the own accept. This is the
  property `ElectionCommitsNothing`, checked and proved.

Abstractions: the tick counts of the timers (a timer may fire whenever its
condition other than time holds: any timing the code can have is included), the
encoding of messages, and the transport, of which only the order of events is
kept in the constant `Network`. `"reliable"`: the channel of two nodes is a
queue. `"lossy"`: any message may be lost; taking a message loses those before
it, which gives the same behaviours as losing them one by one. `"reordering"`:
messages of two connections overtake each other. `/crash` and `/restore` are loss
together with timers that do not fire.

### `PaxosRestart`: correspondence with the code

`Restart` is the end of a process and the start of another one under the same id:
`NewNode` sets every member of `PaxosNode` as it is declared (`paxos.hpp:96-112`),
because nothing but the document is in a file. The queues of the process are
gone; what is on its way from and to other nodes may still arrive, be lost, or be
read by the new process (a superset of what closed sockets allow). `ReplicatedLog`
has the action `Forget` for it: the applied log begins again, with the same
sequence.

### `Wire`, `Transport`, `Channels`: correspondence with the code

A word of `Wire` is four bytes. `Written` is the table of payloads `serialize`
visits, `Read` the table of message types `deserialize` switches over; that both
describe one format is checked, not assumed. `WordSize` is 2^32 in the code and
256 in the run, so that the two words of a ballot and the sign of a length matter
for small numbers.

`Transport` has one action for each thing the io thread does between two points
where another thread or process can notice: taking the outbound queue, each
message of the batch (dropped, looped back, connection refused, written, broken
off), `select`, each connection it reads, each frame it decodes, the end of a
connection's turn. `crashed_` is read for every message, so `/crash` may fall
between any two. A connection is a stream of words from its
opener to its acceptor, with the acceptor's buffer; a read ends at one of its cuts,
behind the length of a frame or behind its body; several connections of one
channel may exist one after the other, and the acceptor serves them in any order
(`inbound_peer_buffers` is unordered). `Killed` is the signal that ends the
process where `SO_NOSIGPIPE` does not exist (`paxos_tcp_transport.cpp:313`).
`stop` is split: `Stop` clears `running_`, `Leave` is the end of the io thread.

What the nodes send is a script, `Script`, because only identity, type and length of
messages matter here. `ImplementsChannels` maps `handed` to what `Paxos` takes:
`Channels` is its `"reordering"` network, with losses.

### `Runtime`: correspondence with the code

`ready`, `timers`, `waiters` and `mailbox` are the containers of `Runtime` and
`Mailbox`; a coroutine is named by what it does. `timers` holds the ticks that
are left and is sorted as the priority queue pops; `Scheduled` inserts behind
those due no later, as `seq` does. `Pass` is one turn of main's loop:
`pump_inbound`, then `run_steps(1)`, that is, one `run_one` and what the resumed
coroutine does up to its next `co_await`. The message loop handles all messages
in one resumption, so `Pass` hands over to `Handle` and `Wait`, between which the
io thread may run. `tick_` only moves when nothing is ready (`Due`); a busy
process ages more slowly than its peers, and that is the hazard.

The node is all of `Paxos`, which the module extends: `Handle` is `OnMessage` with
everything it sends, the loops of `start` call `StartElection` and
`BroadcastHeartbeat`, and `Submit` is what main does with a line of the terminal or
page later in its pass. So a command has its consequences here too: the forward, the
Accepts with the loopback one, the Accepteds, the Commits, and the passes all of them
take. `net` is the outbound queue of each process (`Outbound`: its
part for one peer); `silence` is the time since `last_leader_contact_`, which
`IsContact` resets, and `TimedOut` is the early return of `maybe_start_election`. Wall time
is a sequence of rounds of 5 ms in which every process makes one pass; the io thread
sleeps up to `SelectRounds` rounds unless something arrives. `Established` is not in the code
and only used by the property: everybody has heard the leader.

### `Editor`: correspondence with the code

Member `i` of `Node` is a page, its bridge and its replica ("for this demo we
just have one client", bridge.js:47). The streams between them are sequences, one
for each hop and direction, because drops are decided hop by hop. In a replica
two threads interleave: `ClientLoop` and `SendFullDocument` are the client
thread, on either side of taking `clients_mu`; `RunPass`, `ApplyEntry` (or
`Die`) and `BroadcastEntry` are the main thread. `ReadDocument` gives what an
unlocked read can return while main changes the string: each character and the
length, old or new. (A read of memory the string has released is outside of the
model.) No two typed characters are the same, so texts show which edits they
contain and where.

`Agree` stands for the way of a command through Paxos (`propose_slot` to
`apply_commits`, `paxos.cpp:472-551`): it appends a submitted command, at the head of
the node's queue when `Replication = "ordered"`, from anywhere otherwise, as when
commands are forwarded. `Drop` is `paxos.cpp:129-138`: a forward to node -1 while a node
knows no leader. A node learns ever longer prefixes. This is what `ReplicatedLog` says, and what
`PaxosStable` shows of Paxos as long as the leader stays; what a change of leader can
do beyond that is the run `Agreement`.

Left out: reload of a page, selections of several characters and paste, the
replacement of newlines by `\n` (a typed backslash followed by an n also becomes
a newline), the file, restart, several clients of one EditorServer, terminal
commands.

## 3. Runs

| run | instance | what it shows |
|---|---|---|
| `Reordered` | 2 nodes, both candidates and beating, two elections each, reordering, 2 slots, the empty command | `OneLeaderPerBallot`, `ElectionQuorum`, `OneValuePerBallot`, `ElectionCommitsNothing` and `AppliedAtMostSubmitted` through elections, step-downs, recovery, left-over proposals and late acknowledgements; `TypeOK` and the proofs' inductive invariants `ElectionInv`, `ValueInv` |
| `Stable` | 3 nodes, 1 candidate, reliable, 2 slots | Paxos implements `ReplicatedLog`; `EveryProposalApplied` |
| `CatchUp` | 2 nodes, 1 candidate, beating, lossy, 2 slots, the empty command, the follower restarts once | `AppliedMatchesLog`, `Agreement`; the refinement with losses and a restart; `CatchUp` |
| `Delivery` | 2 processes; one sends a forward to node -1, a message to itself, a promise, a heartbeat and an oversized sync data; the other may crash, be restored, quit | `ImplementsChannels`, `OrderedOnOneConnection`, `EntriesSurvive`, `EventuallyHanded`, `TypeOK` |
| `Scheduling` | 2 processes, both candidates and beating, the time limits of the code, started up to 8 rounds apart, one command | `OnePlace`, `NoLostWakeUp`, `LeaderKeepsOffice`, `TimedTypeOK` |
| `Editing` | 2 nodes, open, reordering log, one edit resp. two edits in all | `DocumentsAgree`, `ViewFollowsDocument`, `TypeOK` |
| `Retrying` | 1 node, cold, dropping log, 2 edits, 2 copies | `ShowsEachEditOnce`; `EditTakesEffect` |
| `Agreement` | 3 nodes, 2 candidates, lossy | **violated**, finding 1 |
| `Promise` | 3 nodes, 2 candidates, reliable | **violated**, finding 2 |
| `Miscounted` | 2 nodes, both candidates, two elections each, reordering | **violated**, finding 3 |
| `Concurrent` | 2 nodes, open, ordered log, an edit each | **violated**, finding 4 |
| `Repeated` | 1 node, open, ordered log, 1 edit, 2 copies | **violated**, finding 5 |

Deadlock is not checked: the systems really come to rest, when nobody types and
nothing is left to deliver or to send, or when the bounds are used up.

`AppliedMatchesLog`, the refinement, `Agreement` and `CommitBackedByQuorum` are only
true while one node is the candidate. With two, finding 1 breaks the first three and
finding 3 the last.

### Bounds, and why they are enough

* `MaxRound = 1` allows one ballot per candidate; it bounds the ballot, so that a node
  that promised the other one's ballot cannot start again. It is enough where one node
  stands and for the runs `Agreement` and `Promise`. `Reordered` has `MaxRound = 2`, the least
  with a proposal left over from an earlier ballot of the same node and with an answer to
  the ballot before: up to four ballots, every one of which may be led, lost and
  overtaken. That instance contains the behaviours of `Agreement`, `Promise` and
  `Miscounted`: with their properties TLC finds each of them violated there.
* `MaxSlot = 2` is the least with a hole (slot 2 committed, slot 1 not) and with
  sync data of several entries; where the competition of three nodes needs the
  states, one slot is used.
* Three nodes are the least for which a quorum is not everybody and not half: `Stable`
  and the runs of findings 1 and 2. Two nodes keep the lossy and reordering networks
  small, and there a quorum is both nodes; that elections and values are sound for the
  quorums of any number of nodes is proved (section 4).
* `MaxInTransit` bounds timers and clients, never handlers: new work starts only
  while few messages are in transit, and what it leads to is delivered in every
  order. `SendHeartbeat` allows one heartbeat of a node and its consequences at
  a time. `MaxSubmits = 1`: texts are submitted once, so that a repetition in a
  log is the system's.
* `MaxRestarts = 1`, of a follower: the shortest history in which a node catches up
  with a log it has forgotten. A leader that restarts may build its old ballot
  again and an acceptor that restarts breaks its promises; both are outside of
  what the code can keep, and outside of `OneCandidateAssumption`.
* `Delivery`: five messages in one direction are enough for two on a connection
  and one on the next, for a frame behind one that is refused, and for each way to
  be dropped. `MaxFrame = 18` words stands for `kMaxFrameBytes`; only that one
  message is longer matters. The other direction is the same code.
* `Scheduling`: `MaxSkew = 8` rounds between starts covers the alignments of the
  two select limits up to a pass or two; `MaxRound = 2` allows an election duel
  and its repetition. One command (`MaxSubmits = 1`) is given to either node at any
  moment: what it leads to, forward, Accepts, Accepteds and Commits, falls into elections, between
  heartbeats and into the passes that follow. A stream of commands
  that gives every pass a message is not covered, and `LeaderKeepsOffice` is not claimed
  for it: the timers of such a process get no turn (`runtime.hpp:43`). And before a leader is
  established, the up to 50 ms of its first heartbeat let others stand against it:
  nothing in the code prevents that, and the property begins after it.
* `Editor`: `MaxEdits` per page, `MaxTyped` in all; two edits are the least that
  can conflict, from two pages or from one page ahead of its own echo.
  `MaxCopies` counts the copies of an edit that are not known lost: with 2 an
  edit and its retry are both under way, and after a loss it can be sent again
  without end.

### Fairness

`PaxosStable`: weak fairness of the delivery from each node to each other and of
both timers. Main empties the inbound queue and resumes one coroutine every 5 ms;
the message loop drains the mailbox in one resumption, and the timers get their
turn in a pass that finds it empty. This assumes that there are such passes; a
node that is sent messages in every pass would not run its timers
(`runtime.hpp:43`). There is one candidate: the others hear heartbeats in time, which
`LeaderKeepsOffice` shows for the commands of `Scheduling`.

`Runtime` has no liveness property, so its specification states no fairness.

`Transport`: weak fairness of `PumpInbound` (main calls it every 5 ms) and of the
steps of the io thread, nothing of which blocks longer than a socket's 300 ms. None
for a node that sends, for `/crash`, `/restore` or `/quit`.

`Editor`: weak fairness of the threads, the event loops and the timers; strong
fairness of `Agree`, that is, a command submitted again and again is not dropped
each time. This is an assumption about Paxos: there is a stable leader, and none of its
Accepts is lost, since nobody sends one again (`paxos.cpp:507-508`) and the slot would
stay open, and with it what is committed behind it. `EveryProposalApplied` is what Paxos
keeps of it. `RunPass` is fair in the sense that a node
learns all of the log in the end, which is `CatchUp` of `PaxosStable`. No fairness
for users.

### Findings

1. **Committed slots can be lost** (`Agreement`). Node 3 applies the command of
   slot 1 and then promises nothing for it, because promises report only what is
   above the commit index (`paxos.cpp:557`). A new leader that missed the commit
   puts another command into slot 1 and commits it.
2. **A late winner goes below its own promise** (`Promise`). A node that
   promised 102 to another one still counts promises for its own 101
   (`paxos.cpp:247`), leads 101 and accepts at 101 in its own log.
3. **A rejection is counted as an accept** (`Miscounted`). An acceptor that rejects an
   Accept answers with the ballot it has promised (`paxos.cpp:269`). When an Accept(102)
   arrives after the Prepare(202) of the same node, its answer is Accepted(202), and the
   leader of 202 counts it for what it proposes now (`paxos.cpp:286-294`): slot 1 is
   committed while the other node has stored nothing. It takes two connections for the
   Accept to be overtaken (`paxos_tcp_transport.cpp:542`).
4. **Concurrent edits end the processes** (`Concurrent`). An insert at the end
   of a text that has become shorter throws (`interface.cpp:143`) in every
   replica that applies it.
5. **Retries are applied twice** (`Repeated`). Pages drop the repetition of an
   edit, replicas apply it (`frontend.html:222`, `interface.cpp:127`); from then
   on the page's positions mean something else in the document.

**A page that joins late may stay wrong** as well. The client thread reads the document
without a lock (`editor_server.cpp:95`) and takes `clients_mu` only to send it, while main
applies an entry and broadcasts it: the page gets the entry twice, in the text and as an
edit, or not at all. Two nodes with `Start = "cold"`, one edit and one copy, else
`Repeated.cfg`, show TLC this in seconds. The condition `JoinsFirst` of the theorems about
pages is there because of it.

## 4. Proofs

`PaxosProofs` proves, from the assumptions on the constants alone (ids in 1..99,
candidates and beating nodes among them, natural bounds) and for each of the
three networks:

| theorem | states |
|---|---|
| `TypeCorrect` | `Spec => []TypeOK` |
| `ElectionsAreSound`, `OneLeader`, `LeaderHasQuorum` | `[]ElectionInv`, and from it `[]OneLeaderPerBallot`, `[]ElectionQuorum` |
| `ValuesAreSound`, `OneValue` | `[]ValueInv`, and from it `[]OneValuePerBallot` |

**Elections.** That two leaders of one ballot are one node is not inductive: it
needs that a leader leads the ballot it prepared (`LeaderWon`) and that this
ballot carries its own id (`PreparedBallot`, from the arithmetic of
`maybe_start_election`: `BallotOwner`, `ElectionBallotIsNew`). The quorum needs
that a promise, while it travels and once collected, is not undone
(`PromiseKept`): promises only grow. That holds although a node may *accept*
below its promise (finding 2), because `become_leader` keeps the higher promise.

**Values.** That a ballot proposes one command for a slot is a statement about
everything that speaks of a ballot: logs, Accepts, Commits, promises and sync
data, in transit or collected (`Entries`). It is inductive together with
`EntryBallotKnown` (nobody speaks of a ballot its owner has not won) and
`LeaderKnowsItsSlots` (what a leader said lies behind its next free slot and
agrees with its open proposal). The argument goes by kinds of steps: most
handlers are *quiet* (votes only go up, logs and messages repeat what was said,
leaders stay as they are: `Quiet`, one lemma per handler), and five are not:
a node starts an election, collects a promise, wins, counts an acknowledgement,
or takes a command (`StepKinds`). For each kind there is one lemma per invariant.

`PaxosHistoryProofs` proves from the same assumptions, still with any number of
candidates:

| theorem | states |
|---|---|
| `NothingTakenBack` | `Spec => [][AppliedGrows]_vars`: no step changes or drops an applied command |
| `NothingAppliedTwice` | `Spec => []AppliedAtMostSubmitted` |
| `WinningCommitsNothing` | with two nodes or more, `Spec => ElectionCommitsNothing` |

**Once at most.** What a node applied does not tell where a second copy could come
from, so `AppliedAtMostSubmitted` is strengthened to `EachInOnePlace`: the slots
anything says a command of (`Said`: entries, open proposals, applied logs), plus
the forwards that carry it (`Forwarded`), are no more than its submissions. Taking a
message removes a forward, submitting moves the command into one slot or one forward,
and everything else repeats what was said (`StepSubmits`, `SaidAgain`,
`SaidOnceMore`). The applied logs enter by `Grows`, one lemma per handler: they only
grow, by what the log has just committed, as far as it can be applied
(`FullyApplied`).

**Winning.** `propose_slot` commits at once if the accepts it finds reach a quorum, and it
may find some of an earlier ballot. `OpenProposals` says that the accepts of an open
proposal are less than a quorum and, if there are any, include the node itself; so adding itself
again changes nothing, and a fresh proposal has one accept. With `FullyApplied`, what is
applied does not change either.

`PaxosStableProofs` adds `OneCandidateAssumption` and proves, still for each network
and for any number of nodes:

| theorem | states |
|---|---|
| `HistoryStays` | `Spec => []AppliedMatchesLog` |
| `NodesAgree` | `Spec => []Agreement` |

**One candidate.** The inductive invariant is `StableInv`, next to the three above.
Its part `OneBallot` says that nobody knows of a ballot above the candidate's last
one (`Below`), and that as soon as anybody speaks of a proposal the candidate leads
and everything said is of its ballot. It stays so because only an election goes
above the known ballots (`OnlyElectionsRise`, one lemma per handler) and a leader
starts none; so nothing makes it step down (`Stays`). Then `ValueInv` gives a slot
one command for good (`SlotsKept`), and as applied logs only grow, by what has just
been committed (`Grows`, again per handler), they stay what the logs say and agree.

**Commits.** It also proves `CommitsAreBacked`, `Spec => []CommitBackedByQuorum`. Here the
assumption excludes what is dangerous: with one candidate no Accept is ever rejected and no
proposal is left over, and with two the statement is false (finding 3). It is kept for
its lemmas, on which the proofs with restarts rest. Its invariant `Stored` is about slots, not
ballots, as there is one ballot: whoever is counted in a proposal, or has an Accepted
on its way, holds the slot, and a slot that is committed anywhere, or said to be
(`Sure`), is held by a quorum. Each handler is shown to count, commit and say only
what has a reason before the step or in it (`Backed`, one lemma per handler); entries
are never dropped, so what was held stays held.

Its last part is about `RestartSpec`, in which every node but the candidate
may lose all it had, again and again:

| theorem | states |
|---|---|
| `HistorySurvivesRestarts` | `RestartSpec => []AppliedMatchesLog` |
| `NodesAgreeAfterRestarts` | `RestartSpec => []Agreement` |
| `ReplicatesOneLog` | `RestartSpec => ImplementsReplicatedLog` |

**Restarts.** Two parts of the argument above are lost: a restarted follower takes
its promises back, which `ElectionInv` forbids, and a quorum need not hold a commit any
more. What remains is enough: that a leader led by its own prepared ballot (`Elected`),
`ValueInv`, `StableInv` and `EachInOnePlace` survive, because a restart only takes
away (`Forgets`). In place of the quorum, the candidate remembers: it has committed
whatever is `Sure` (`CandidateKnows`, from `Backed`: only a leader makes a slot
sure), and everybody has applied all they can (`AllApplied`). `RestartInv` is the
conjunction.

**Refinement.** So nobody has applied more than the candidate (`CandidateAhead`), and
the `Longest` applied log of the refinement mapping, a `CHOOSE`, is the candidate's
(`InvShows`). `StepShows` then maps each step: a submission applies nothing, as a leader
alone is no quorum (`SubmitAppliesNothing`, where `Cardinality(Node) > 1` is needed); a
handler makes only its own node apply anything (`ReceiverApplies`) and is `Apply` or a
stutter (`AppliesShows`); a restart is `Forget`; timers stutter.

`RuntimeProofs` proves `WakeUps`, `TimedSpec => []NoLostWakeUp`, from the assumptions of
`Paxos` and `TimeAssumption`, for any number of nodes and any time limits. The inductive invariant `WakeInv` says
what the queues contain (`Queues`) and where the message loop is (`LoopInv`): ready,
running, or waiting, and waiting only with an empty mailbox. `NoLostWakeUp` alone is not
inductive: `push` must find the waiter for the wake-up to happen.

It also proves `InOnePlace`, `TimedSpec => []OnePlace`. `PlaceInv` adds that only the
message loop waits at the mailbox (`OnlyLoopWaits`), without which a pass might find
nothing to resume (`SomethingReady`) and its `pop_front` would take from an empty
queue. The rest is counting: a coroutine occurs in a concatenation as often as in its
parts (`CountConcat`, by a bijection of positions), so cutting, waking, expiring and
scheduling keep the sum (`CountSplit`, `WokenCount`, `DueCount`, `ScheduledCount`).

And `WellTyped`, `TimedSpec => []TimedTypeOK`, types of `Paxos` included. What is not obvious there is the order of the
timers: `Scheduled` inserts behind as many timers as are due no later, which is their
place only if these are the first ones (`DueAreFirst`, from a queue in order:
`NoLater`); and when the tick jumps, all of the first timer's tick are taken, so that the
rest is still due later than now (`DueAsleep`). A handler is called from `Handle` here, not
from `Receive`, with a message that has left the network; so each has a lemma of its own
that it leaves the node's state well-typed (`PromiseType`, `CommitType`, `CommandType`, ...), and
`OnMessageType` puts them together.

`EditorProofs` proves `ReplicasAgree`, `Spec => []DocumentsAgree`, for any number of
pages and for each kind of replication. Its invariant says that there is a function
from the prefixes of the log to documents, starting with `InitialText` and going from
each to the next by `Edited`, and that each replica has the document of the prefix it
has applied (`DocumentInv`). The function is quantified, not computed, so that no
recursion over the log is needed; agreeing on one more entry extends it by one place.

`EditorViewProofs` is about the pages, for any number of them, any `InitialLength`, each
kind of replication and any bounds, where all pages were open before anybody typed or
there is only one (`JoinsFirst`; the end of section 3 is why):

| theorem | states |
|---|---|
| `ShownOnce` | `Spec => []ShowsEachEditOnce` |
| `ViewFollowsPlainLog` | a loaded page shows its replica's document if what the replica applied is `Plain`: no entry twice, no position in front of the text. These are the ways they come apart on pages that `JoinsFirst` covers; joining late is another |
| `ViewFollows` | `Spec => []ViewFollowsDocument`, if `MaxCopies = 1` and nobody presses Delete |

**Folds.** `Settled` and `FirstOccurrences` are folds. `Folding` has lemmas, for a step `Op`
that is a parameter of the module, that the community modules' `FoldLeft`, defined through a
`CHOOSE` of a function on sets of indices, takes the elements one by one (`FoldRuns`,
`FoldOf`), and from that the laws of an element more at either end and of an invariant of
the run (`FoldStaysIn`). Its induction over numbers is the least number without a
property (`AllNumbers`, from `WellFoundedInduction`), as the library's induction theorems
take an operator. Each fold of the model is an instance of it.

**What a page will show.** Neither property says anything of a page that has lines on
its way to it, so the invariant is about `SettledPage`, the fold over the lines in the
three places where they wait (`InFlight`). A line that moves on leaves the fold as it is
(`SameInFlight`), as does a page that takes its next line. What changes it is the full
text, which makes a page whatever the document is, and the next entry applied, which
becomes the last line (`ViewStep`). `ViewIs` says what the fold is then: it has seen the
keys of the applied entries and shows the first occurrences, applied in order; and if
these are `Plain`, its text is the document, since JavaScript's `slice` and
`std::string` differ only for negative positions, among texts no insert of which throws
(`EditedAlike`). That a key stands for one edit is `KeyInv`: an edit is new when typed
(`KeysTyped`) and after that only passed on (`Passes`, one lemma per group of actions).

**Phases.** When the full text is sent, nothing may have been applied yet. `Phase`
lists where a member may be: `Unasked`, `Asking`, `Answering`, `Following`, or `Unserved`
(its fetch was dropped, and it is never loaded). The first three are only possible
while nothing has happened at the only member there is (`Nothing`): its edits come
behind its fetch, in the same stream.

**Copies and positions.** For `ViewFollows`, `OnceInv` says that where one copy of an
edit is sent at a time, the lists an edit passes through and the log hold it at most
once among them (`Single`, `Apart`), counted by `copies`; `PositionInv` says that
neither cursors nor positions anywhere are negative. Both conditions are needed: run
`Repeated`, and hazard `frontend.html:141`.

`TransportProofs` is about `Wire` and `Transport`, for any number of nodes, any
word size that can number the types of messages, and any sequences of messages:

| theorem | states |
|---|---|
| `RoundTrip` | `Fits(m) => Deserialize(Serialize(m)) = <<m>>` |
| `TransportTypes` | `Spec => []TypeOK` |
| `DeliversAsPromised` | `Spec => ImplementsChannels` |
| `InOrder` | `Spec => []OrderedOnOneConnection` |
| `EntriesBack` | `AreEntries(es) => DecodeEntries(EncodeEntries(es)) = [ok, es]` |
| `EntriesArrive` | `PacksEntries => (Spec => []EntriesSurvive)` |

It assumes that no message is sent twice (`ScriptAssumption`: messages are their own
names), that nodes sign what they send (`SenderAssumption`, from `paxos.cpp:587`) and that what is sent to a node has the values its C++ types have, with texts
shorter than 2^31 bytes (`FitAssumption`; longer ones `read_string` takes for negative
lengths). Nothing is assumed of messages for no node, such as forwards to leader -1.

**Format.** `RoundTrip` goes field by field: the words of a field, whatever follows
them, are read back as the field, and so are up to four fields in a row. `AllWords` and
`ReadFields` spell the four out, so that no induction is needed.

**Blobs.** The entries in a promise or in sync data are a text to the transport
and are packed and unpacked by loops of their own, over as many entries as there are:
folds, and instances of `Folding`. `BlobParts` gives a blob as the run of what has been written
after each entry, and `EntriesBack` walks back along it: before entry k, the reader has
the entries before k and, left to read, what k and those behind it wrote. `PacksEntries` is
what the callers do (`paxos.cpp:215`, `:354` and `:413`: what they send was made by
`encode_entries_blob` from accepted or committed slots, which have a ballot by `TypeCorrect`);
the messages of `MCTransport` are made so too.
`EntriesArrive` then takes from `TInv` that what is handed over was sent.

**Once at most.** `Channels` forbids duplicates and alterations among what is handed
over; this is not inductive without all that is still in the queues, the streams and
the buffers. Streams and buffers hold words, a frame may lie partly in each, and not all of it is
frames: the length of a frame whose body was never written is left at
the end of a closed connection. `TInv` therefore says that there is some `H`, which
gives each *box* (each queue of each node, each connection) a sequence of
messages, such that no message is in two places (`Once`), the queues are their
sequences (`Queued`) and the words of each connection, buffer before stream, are the
frames of its sequence, with at most one such word behind them if it is closed
(`Carried`), wherever the cuts are. `H` is quantified, so no action needs to compute it: each shows the
next one, in which a message moves from box to box (`Moves`) or boxes lose messages
(`Shortens`). That a whole frame at the head of a buffer is the first message's, and
decodes to it, is where `RoundTrip` is used. `Types`, `Served` and
`Linked` say which connections the io threads are at; a connection they
write to is open, so nothing is ever written behind half a frame.

**In order.** The boxes also say how far a message has come (`Stage`) and which messages
belong there (`Routed`). `Ordered`, a part of `TInv`, says that what was sent before on
the same channel is at a later stage or before it in the same box, for the channels that had
one connection at most (`Lone`; a channel leaves that set, never enters it). A move
keeps this if nothing sent before is left between where a message was and where it goes
(`OrderedMoves`, `Onward`). Only one such move needs `Lone`: a frame goes
to the newest connection, and what an older one still holds may come out later
(`OnwardToConn`; `OthersEmpty`: there is no older one). `InOrder` reads `Ordered` off
the box of what is handed over; a node's messages to itself use no connection and are
covered.

**Refinement.** `Send` is `Send` of `Channels`, `PumpInbound` is `Hand`: the inbound queue
holds messages sent to this node, each once and none of them handed over before. All
else leaves `sent` and `handed` alone.

**Only model-checked.** Agreement and the quorum behind a commit with several candidates are
not theorems: they are false. All liveness, `LeaderKeepsOffice`, and `TypeOK` of `Editor` are checked by TLC on
the instances above. Liveness and `ENABLED` are out of the prover's reach;
`LeaderKeepsOffice` is about how many passes, ticks and heartbeats fit between two
others, for which no inductive invariant was found. Of `Editor`'s `TypeOK` all but the
ranges of positions and `copies` is proved on the way to `ShownOnce` (`TypesNext` and
`LogInv`); those two ranges are bounds of the model, and sums over all edits. The upper
end of `Pos` is a fact about `Editing` only: with `Start = "cold"` TLC finds a cursor
beyond it, of a page that was given a text and then shown an edit the text already held;
with `"delete"`, a `slice(-1)` at the start of the text doubles the text.

## 5. Plan

Done: the modules above. To come, in this order:

1. `Editor`: pages that join while others edit, reload, and a replica that restarts
   with its file.

### Not modelled

* The file of the document: nothing reads it before a restart, and after one the
  code applies the whole log to it again (`paxos_node_main.cpp:83`, `:106`).
* `parse_command` (called by nobody), argument parsing and usage, `/status`, output.
* Several clients of one EditorServer, failing sends to them, and `stop()`: the
  descriptor that is closed twice (`editor_server.cpp:124`) needs the operating
  system's reuse of numbers.
* A `select` that fails, a length cut inside its four bytes, host names that
  resolve to several addresses.
* Restarted leaders and acceptors with competing candidates (see the bounds).
* The build and the notes: no behaviour.
