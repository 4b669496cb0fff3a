----------------------------- MODULE Transport -----------------------------
(***************************************************************************)
(* PaxosTcpTransport: the queues between the main thread and the io thread *)
(* of each process, the io loop, and the TCP connections between the       *)
(* processes.  What the nodes send is a given sequence of messages, all    *)
(* different, so that a message tells where it comes from.                 *)
(*                                                                         *)
(* A connection is opened by the sender of the messages and only carries   *)
(* its frames, as words.  What is there to read may end behind the length  *)
(* of a frame or behind its body: these are the cuts of the stream.        *)
(***************************************************************************)
EXTENDS Wire, FiniteSets

CONSTANTS
  Node,           \* the keys of nodes_
  Script,         \* Script[i]: the messages node i sends, in that order
  MaxFrame,       \* kMaxFrameBytes, in words
  Crashing,       \* the nodes that are given /crash and /restore
  Quitting,       \* the nodes that are given /quit
  SignalOnClosed  \* no SO_NOSIGPIPE: writing to a closed connection may kill

ASSUME ScriptAssumption ==
  /\ \A i \in Node : Script[i] \in Seq(Range(Script[i]))
  /\ \A i, j \in Node : \A k \in DOMAIN Script[i], l \in DOMAIN Script[j] :
       Script[i][k] = Script[j][l] => i = j /\ k = l

\* PaxosNode::send signs its messages.
ASSUME SenderAssumption == \A i \in Node : \A k \in DOMAIN Script[i] : Script[i][k].from = i

\* What is sent to a node can be written: ids are not negative, numbers are as
\* wide as their fields, and texts shorter than 2^31.
ASSUME FitAssumption ==
  \A i \in Node : \A k \in DOMAIN Script[i] :
    Script[i][k].to \in Node => Fits(Script[i][k])

VARIABLES
  sent,      \* how much of its script each node has passed to send
  outbound,  \* outbound_paxos_
  inbound,   \* inbound_paxos_
  handed,    \* history: what pump_inbound pushed into the mailbox
  crashed,   \* crashed_
  running,   \* running_
  at,        \* where the io thread is
  batch,     \* the queue it took from outbound_paxos_
  ready,     \* the accepted connections select reported and not served yet
  serving,   \* the connection being served, if any: <<sender, number>>
  decoded,   \* the messages decoded from it
  link,      \* outbound_peer_fd_by_id: the number of the connection, 0 for none
  conns,     \* conns[<<i, j>>]: the connections i opened to j so far
  failed     \* history: the channels on which something went wrong

mainVars == <<sent, handed>>
ioVars   == <<at, batch, ready, serving, decoded>>
tcpVars  == <<link, conns>>
vars     == <<mainVars, outbound, inbound, crashed, running, ioVars, tcpVars, failed>>

Channel == Node \X Node

Touching(i) == {c \in Channel : i \in {c[1], c[2]}}

\* A connection just made: the receiver has yet to accept it.
NewConnection ==
  [stream |-> <<>>, cuts |-> {}, open |-> TRUE, receiver |-> "backlog", buffer |-> <<>>]

\* The ends of a connection closed by its receiver, by its sender.
Dropped(k)  == [k EXCEPT !.receiver = "closed", !.stream = <<>>, !.cuts = {}, !.buffer = <<>>]
Finished(k) == [k EXCEPT !.open = FALSE]

-----------------------------------------------------------------------------
(* The main thread.                                                        *)

\* A handler of the node calls send: the message is queued, whatever it is.
Send(i) ==
  /\ running[i]
  /\ sent[i] < Len(Script[i])
  /\ sent' = [sent EXCEPT ![i] = @ + 1]
  /\ outbound' = [outbound EXCEPT ![i] = Append(@, Script[i][sent[i] + 1])]
  /\ UNCHANGED <<inbound, handed, crashed, running, ioVars, tcpVars, failed>>

\* pump_inbound: the queue is emptied under its lock, then pushed.
PumpInbound(i) ==
  /\ running[i]
  /\ inbound[i] # <<>>
  /\ handed' = [handed EXCEPT ![i] = @ \o inbound[i]]
  /\ inbound' = [inbound EXCEPT ![i] = <<>>]
  /\ UNCHANGED <<sent, outbound, crashed, running, ioVars, tcpVars, failed>>

Crash(i) ==
  /\ i \in Crashing
  /\ running[i] /\ ~crashed[i]
  /\ crashed' = [crashed EXCEPT ![i] = TRUE]
  /\ failed' = failed \cup Touching(i)
  /\ UNCHANGED <<mainVars, outbound, inbound, running, ioVars, tcpVars>>

Restore(i) ==
  /\ running[i] /\ crashed[i]
  /\ crashed' = [crashed EXCEPT ![i] = FALSE]
  /\ UNCHANGED <<mainVars, outbound, inbound, running, ioVars, tcpVars, failed>>

\* stop, which waits for the io thread to come to the head of its loop.
Stop(i) ==
  /\ i \in Quitting
  /\ running[i]
  /\ running' = [running EXCEPT ![i] = FALSE]
  /\ failed' = failed \cup Touching(i)
  /\ UNCHANGED <<mainVars, outbound, inbound, crashed, ioVars, tcpVars>>

-----------------------------------------------------------------------------
(* The io thread sends.                                                    *)

\* The end of a process: its connections are closed in both directions.
\* Nothing of it is left but what it had handed over.
Gone(i) ==
  /\ at' = [at EXCEPT ![i] = "ended"]
  /\ running' = [running EXCEPT ![i] = FALSE]
  /\ outbound' = [outbound EXCEPT ![i] = <<>>]
  /\ inbound' = [inbound EXCEPT ![i] = <<>>]
  /\ batch' = [batch EXCEPT ![i] = <<>>]
  /\ ready' = [ready EXCEPT ![i] = {}]
  /\ link' = [link EXCEPT ![i] = [j \in Node |-> 0]]
  /\ conns' = [c \in Channel |-> [n \in DOMAIN conns[c] |->
       IF c[1] = i THEN Finished(conns[c][n])
       ELSE IF c[2] = i THEN Dropped(conns[c][n]) ELSE conns[c][n]]]
  /\ failed' = failed \cup Touching(i)
  /\ UNCHANGED <<mainVars, crashed, serving, decoded>>

\* The io thread finds running_ unset and leaves.
Leave(i) == at[i] = "top" /\ ~running[i] /\ Gone(i)

\* The head of the loop: the outbound queue is taken over under its lock.
TakeOutbound(i) ==
  /\ at[i] = "top"
  /\ running[i]
  /\ at' = [at EXCEPT ![i] = "sending"]
  /\ batch' = [batch EXCEPT ![i] = outbound[i]]
  /\ outbound' = [outbound EXCEPT ![i] = <<>>]
  /\ UNCHANGED <<mainVars, inbound, crashed, running, ready, serving, decoded, tcpVars, failed>>

\* A message is dropped while crashed or without a known destination.
Discard(i) ==
  /\ at[i] = "sending" /\ batch[i] # <<>>
  /\ crashed[i] \/ Head(batch[i]).to \notin Node
  /\ batch' = [batch EXCEPT ![i] = Tail(@)]
  /\ UNCHANGED <<mainVars, outbound, inbound, crashed, running,
                 at, ready, serving, decoded, tcpVars, failed>>

\* A message of a node to itself goes to its inbound queue.
Loopback(i) ==
  /\ at[i] = "sending" /\ batch[i] # <<>>
  /\ ~crashed[i] /\ Head(batch[i]).to = i
  /\ inbound' = [inbound EXCEPT ![i] = Append(@, Head(batch[i]))]
  /\ batch' = [batch EXCEPT ![i] = Tail(@)]
  /\ UNCHANGED <<mainVars, outbound, crashed, running,
                 at, ready, serving, decoded, tcpVars, failed>>

\* The first message of the batch is for another node j, and is not dropped.
Sending(i, j) ==
  /\ at[i] = "sending" /\ batch[i] # <<>>
  /\ ~crashed[i] /\ Head(batch[i]).to = j /\ j # i

\* connect fails: nobody listens, or no answer within 300 ms.
ConnectFails(i, j) ==
  /\ Sending(i, j)
  /\ link[i][j] = 0
  /\ batch' = [batch EXCEPT ![i] = Tail(@)]
  /\ failed' = failed \cup {<<i, j>>}
  /\ UNCHANGED <<mainVars, outbound, inbound, crashed, running,
                 at, ready, serving, decoded, tcpVars>>

\* The connections to j once the one to use exists, and its number.
Connected(i, j) ==
  IF link[i][j] = 0 THEN Append(conns[<<i, j>>], NewConnection) ELSE conns[<<i, j>>]
Number(i, j) == IF link[i][j] = 0 THEN Len(conns[<<i, j>>]) + 1 ELSE link[i][j]

\* serialize and deserialize, tabulated for the messages of the scripts.
FrameOf == [m \in UNION {Range(Script[i]) : i \in Node} |-> Serialize(m)]
Known == [ws \in Range(FrameOf) |-> Deserialize(ws)]
MessageIn(ws) == IF ws \in DOMAIN Known THEN Known[ws] ELSE Deserialize(ws)

Frame(m) == <<Len(FrameOf[m])>> \o FrameOf[m]

\* Connection k after words of a frame have been written to it.
Streamed(k, ws) ==
  IF k.receiver = "closed" THEN k
  ELSE [k EXCEPT !.stream = @ \o ws,
                 !.cuts = @ \cup {Len(k.stream) + 1, Len(k.stream) + Len(ws)}]

\* send_frame with the message at the head of the batch: the connection is
\* made when there is none, and kept as long as sends succeed.
Transmit(i, j) ==
  LET c == <<i, j>>  n == Number(i, j)
  IN  /\ Sending(i, j)
      /\ link[i][j] = 0 => at[j] # "ended"
      /\ conns' = [conns EXCEPT ![c] =
           [Connected(i, j) EXCEPT ![n] = Streamed(@, Frame(Head(batch[i])))]]
      /\ link' = [link EXCEPT ![i][j] = n]
      /\ batch' = [batch EXCEPT ![i] = Tail(@)]
      /\ UNCHANGED <<mainVars, outbound, inbound, crashed, running,
                     at, ready, serving, decoded, failed>>

\* Slip: after a failed send the connection is closed but not forgotten.
SendFailsUnforgotten(i, j) ==
  LET c == <<i, j>>  n == Number(i, j)
  IN  /\ Sending(i, j)
      /\ link[i][j] = 0 => at[j] # "ended"
      /\ conns' = [conns EXCEPT ![c] = [Connected(i, j) EXCEPT ![n] = Finished(@)]]
      /\ link' = [link EXCEPT ![i][j] = n]
      /\ batch' = [batch EXCEPT ![i] = Tail(@)]
      /\ failed' = failed \cup {c}
      /\ UNCHANGED <<mainVars, outbound, inbound, crashed, running,
                     at, ready, serving, decoded>>

\* send_frame fails: the peer does not read for 300 ms or has closed.  Some of
\* the frame may be on its way; the message is given up with the connection.
SendFails(i, j) ==
  LET c == <<i, j>>  n == Number(i, j)
  IN  /\ Sending(i, j)
      /\ link[i][j] = 0 => at[j] # "ended"
      /\ \E begun \in BOOLEAN :
           conns' = [conns EXCEPT ![c] = [Connected(i, j) EXCEPT ![n] =
             Finished(IF begun THEN Streamed(@, <<Len(FrameOf[Head(batch[i])])>>) ELSE @)]]
      /\ link' = [link EXCEPT ![i][j] = 0]
      /\ batch' = [batch EXCEPT ![i] = Tail(@)]
      /\ failed' = failed \cup {c}
      /\ UNCHANGED <<mainVars, outbound, inbound, crashed, running,
                     at, ready, serving, decoded>>

\* Writing to a connection the peer has closed raises SIGPIPE where the socket
\* option set_no_sigpipe asks for does not exist; nobody handles it.
Killed(i, j) ==
  /\ SignalOnClosed
  /\ Sending(i, j)
  /\ link[i][j] # 0
  /\ conns[<<i, j>>][link[i][j]].receiver = "closed"
  /\ Gone(i)

-----------------------------------------------------------------------------
(* The io thread receives.                                                 *)

Accepted(i) ==
  UNION {{<<j, n>> : n \in {x \in DOMAIN conns[<<j, i>>] : conns[<<j, i>>][x].receiver = "open"}} :
         j \in Node}

\* A connection recv would not block on.
Readable(i, k) ==
  LET peer == conns[<<k[1], i>>][k[2]] IN peer.stream # <<>> \/ ~peer.open

\* select reports what has arrived by now; connections that wait to be
\* accepted, if it reports the listener, all are, to be served next time.
Select(i) ==
  /\ at[i] = "sending" /\ batch[i] = <<>>
  /\ \E R \in SUBSET {k \in Accepted(i) : Readable(i, k)}, accepting \in BOOLEAN :
       LET waiting(j, n) == accepting /\ conns[<<j, i>>][n].receiver = "backlog"
       IN  /\ R # {} \/ \E j \in Node : \E n \in DOMAIN conns[<<j, i>>] : waiting(j, n)
           /\ conns' = [c \in Channel |-> [n \in DOMAIN conns[c] |->
                IF c[2] = i /\ waiting(c[1], n)
                  THEN [conns[c][n] EXCEPT !.receiver = "open"] ELSE conns[c][n]]]
           /\ ready' = [ready EXCEPT ![i] = R]
           /\ at' = [at EXCEPT ![i] = IF R = {} THEN "top" ELSE "serving"]
  /\ UNCHANGED <<mainVars, outbound, inbound, crashed, running,
                 batch, serving, decoded, link, failed>>

\* select times out.  (Without anything to do at the head of the loop this
\* comes back to the same place.)
SelectTimesOut(i) ==
  /\ at[i] = "sending" /\ batch[i] = <<>>
  /\ outbound[i] # <<>> \/ ~running[i]
  /\ at' = [at EXCEPT ![i] = "top"]
  /\ UNCHANGED <<mainVars, outbound, inbound, crashed, running,
                 batch, ready, serving, decoded, tcpVars, failed>>

\* The io thread turns to a connection select reported: it reads what is
\* there and goes on to decode.
ReadPeer(i, j, n) ==
  LET peer == conns[<<j, i>>][n]
  IN  /\ at[i] = "serving" /\ serving[i] = <<>>
      /\ <<j, n>> \in ready[i]
      /\ \E k \in peer.cuts :
           conns' = [conns EXCEPT ![<<j, i>>][n] =
             [peer EXCEPT !.stream = SubSeq(@, k + 1, Len(@)),
                          !.cuts = {x - k : x \in {y \in @ : y > k}},
                          !.buffer = @ \o SubSeq(peer.stream, 1, k)]]
      /\ ready' = [ready EXCEPT ![i] = @ \ {<<j, n>>}]
      /\ serving' = [serving EXCEPT ![i] = <<j, n>>]
      /\ UNCHANGED <<mainVars, outbound, inbound, crashed, running,
                     at, batch, decoded, link, failed>>

\* Where the io thread goes after a connection: the next one, or the head.
AfterServing(i, left) == IF left = {} THEN "top" ELSE "serving"

\* Reading comes to the end of a connection its sender has closed: what had
\* been read before and just now is thrown away with the connection.
PeerClosed(i, j, n) ==
  /\ at[i] = "serving" /\ serving[i] = <<>>
  /\ <<j, n>> \in ready[i]
  /\ ~conns[<<j, i>>][n].open
  /\ conns' = [conns EXCEPT ![<<j, i>>][n] = Dropped(@)]
  /\ ready' = [ready EXCEPT ![i] = @ \ {<<j, n>>}]
  /\ at' = [at EXCEPT ![i] = AfterServing(i, ready'[i])]
  /\ UNCHANGED <<mainVars, outbound, inbound, crashed, running,
                 batch, serving, decoded, link, failed>>

\* The buffer of the connection i is serving, and its first frame.
Buffer(i) == conns[<<serving[i][1], i>>][serving[i][2]].buffer
FrameLength(i) == Buffer(i)[1]
BadFrame(i) == Buffer(i) # <<>> /\ (FrameLength(i) = 0 \/ FrameLength(i) > MaxFrame)
WholeFrame(i) ==
  Buffer(i) # <<>> /\ ~BadFrame(i) /\ Len(Buffer(i)) - 1 >= FrameLength(i)

\* Slip: what was decoded is not erased from the buffer when the turn is over.
DecodeAndKeep(i) ==
  LET m == MessageIn(SubSeq(Buffer(i), 2, 1 + FrameLength(i)))
  IN  /\ serving[i] # <<>> /\ WholeFrame(i)
      /\ inbound' = [inbound EXCEPT ![i] =
           IF m # <<>> /\ m[1].to = i /\ ~crashed[i] THEN @ \o m ELSE @]
      /\ serving' = [serving EXCEPT ![i] = <<>>]
      /\ at' = [at EXCEPT ![i] = IF ready[i] = {} THEN "top" ELSE "serving"]
      /\ UNCHANGED <<mainVars, outbound, crashed, running,
                     batch, ready, decoded, tcpVars, failed>>

\* Slip: a frame is decoded in front of those before it.
DecodeReversed(i) ==
  LET k == serving[i]
      m == MessageIn(SubSeq(Buffer(i), 2, 1 + FrameLength(i)))
  IN  /\ serving[i] # <<>> /\ WholeFrame(i)
      /\ decoded' = [decoded EXCEPT ![i] =
           IF m # <<>> /\ m[1].to = i /\ ~crashed[i] THEN m \o @ ELSE @]
      /\ conns' = [conns EXCEPT ![<<k[1], i>>][k[2]].buffer =
           SubSeq(@, 2 + FrameLength(i), Len(@))]
      /\ UNCHANGED <<mainVars, outbound, inbound, crashed, running,
                     at, batch, ready, serving, link, failed>>

\* One frame is taken from the buffer.  It is dropped if it is not a message,
\* not for this node, or if the node is crashed just then.
DecodeFrame(i) ==
  LET k == serving[i]
      m == MessageIn(SubSeq(Buffer(i), 2, 1 + FrameLength(i)))
  IN  /\ serving[i] # <<>> /\ WholeFrame(i)
      /\ decoded' = [decoded EXCEPT ![i] =
           IF m # <<>> /\ m[1].to = i /\ ~crashed[i] THEN @ \o m ELSE @]
      /\ conns' = [conns EXCEPT ![<<k[1], i>>][k[2]].buffer =
           SubSeq(@, 2 + FrameLength(i), Len(@))]
      /\ UNCHANGED <<mainVars, outbound, inbound, crashed, running,
                     at, batch, ready, serving, link, failed>>

\* The length of a frame is out of range: the connection is closed, and what
\* was decoded before it in this turn is dropped.
RefuseFrame(i) ==
  LET k == serving[i]
  IN  /\ serving[i] # <<>> /\ BadFrame(i)
      /\ conns' = [conns EXCEPT ![<<k[1], i>>][k[2]] = Dropped(@)]
      /\ serving' = [serving EXCEPT ![i] = <<>>]
      /\ decoded' = [decoded EXCEPT ![i] = <<>>]
      /\ at' = [at EXCEPT ![i] = AfterServing(i, ready[i])]
      /\ failed' = failed \cup {<<k[1], i>>}
      /\ UNCHANGED <<mainVars, outbound, inbound, crashed, running, batch, ready, link>>

\* Slip: one frame is decoded for each time the connection is readable.
PushFirstDecoded(i) ==
  /\ serving[i] # <<>> /\ ~BadFrame(i) /\ (decoded[i] # <<>> \/ ~WholeFrame(i))
  /\ inbound' = [inbound EXCEPT ![i] = @ \o decoded[i]]
  /\ decoded' = [decoded EXCEPT ![i] = <<>>]
  /\ serving' = [serving EXCEPT ![i] = <<>>]
  /\ at' = [at EXCEPT ![i] = AfterServing(i, ready[i])]
  /\ UNCHANGED <<mainVars, outbound, crashed, running, batch, ready, tcpVars, failed>>

\* No whole frame is left: what was decoded goes to the inbound queue.
PushDecoded(i) ==
  /\ serving[i] # <<>> /\ ~BadFrame(i) /\ ~WholeFrame(i)
  /\ inbound' = [inbound EXCEPT ![i] = @ \o decoded[i]]
  /\ decoded' = [decoded EXCEPT ![i] = <<>>]
  /\ serving' = [serving EXCEPT ![i] = <<>>]
  /\ at' = [at EXCEPT ![i] = AfterServing(i, ready[i])]
  /\ UNCHANGED <<mainVars, outbound, crashed, running, batch, ready, tcpVars, failed>>

-----------------------------------------------------------------------------
Init ==
  /\ sent = [i \in Node |-> 0]
  /\ outbound = [i \in Node |-> <<>>]
  /\ inbound = [i \in Node |-> <<>>]
  /\ handed = [i \in Node |-> <<>>]
  /\ crashed = [i \in Node |-> FALSE]
  /\ running = [i \in Node |-> TRUE]
  /\ at = [i \in Node |-> "top"]
  /\ batch = [i \in Node |-> <<>>]
  /\ ready = [i \in Node |-> {}]
  /\ serving = [i \in Node |-> <<>>]
  /\ decoded = [i \in Node |-> <<>>]
  /\ link = [i \in Node |-> [j \in Node |-> 0]]
  /\ conns = [c \in Channel |-> <<>>]
  /\ failed = {}

\* The io thread of i: the part that sends, the part that receives.
IoSends(i) ==
  \/ Leave(i) \/ TakeOutbound(i) \/ Discard(i) \/ Loopback(i)
  \/ \E j \in Node : ConnectFails(i, j) \/ Transmit(i, j) \/ SendFails(i, j) \/ Killed(i, j)

IoReceives(i) ==
  \/ Select(i) \/ SelectTimesOut(i)
  \/ \E j \in Node : \E n \in DOMAIN conns[<<j, i>>] : ReadPeer(i, j, n) \/ PeerClosed(i, j, n)
  \/ DecodeFrame(i) \/ RefuseFrame(i) \/ PushDecoded(i)

Next ==
  \E i \in Node :
    Send(i) \/ PumpInbound(i) \/ Crash(i) \/ Restore(i) \/ Stop(i) \/ IoSends(i) \/ IoReceives(i)

Spec == Init /\ [][Next]_vars

\* Both threads keep running: main calls pump_inbound every 5 ms, and nothing
\* the io thread does blocks it for longer than a time limit.
Fairness == \A i \in Node : WF_vars(PumpInbound(i)) /\ WF_vars(IoSends(i) \/ IoReceives(i))

FairSpec == Spec /\ Fairness

-----------------------------------------------------------------------------
\* The io thread serves accepted connections and writes to open ones; it holds
\* messages of a batch or of a connection only while it is at them.
TypeOK ==
  /\ \A i \in Node : sent[i] \in 0..Len(Script[i])
  /\ crashed \in [Node -> BOOLEAN] /\ running \in [Node -> BOOLEAN]
  /\ at \in [Node -> {"top", "sending", "serving", "ended"}]
  /\ \A i \in Node : batch[i] # <<>> => at[i] = "sending"
  /\ \A i \in Node : decoded[i] # <<>> => serving[i] # <<>>
  /\ \A i \in Node : ready[i] \subseteq Accepted(i)
  /\ \A i \in Node : serving[i] # <<>> => at[i] = "serving" /\ serving[i] \in Accepted(i)
  /\ \A i, j \in Node : link[i][j] # 0 => conns[<<i, j>>][link[i][j]].open
  /\ failed \subseteq Channel

Promised == INSTANCE Channels

\* Through partial writes, closed connections, thrown away buffers and
\* crashes, a node gets only what was sent to it, unaltered, and nothing
\* twice: the transport is the network Paxos assumes.
ImplementsChannels == Promised!Spec

Place(i, m) == CHOOSE k \in DOMAIN Script[i] : Script[i][k] = m

\* As long as one connection carried all of a channel, its messages are handed
\* over in the order they were sent in; it is the next connection that may
\* overtake the one before.  A node's messages to itself never overtake.
OrderedOnOneConnection ==
  \A i, j \in Node : Len(conns[<<i, j>>]) <= 1 =>
    \A p, q \in DOMAIN handed[j] :
      p < q /\ handed[j][p].from = i /\ handed[j][q].from = i
        => Place(i, handed[j][p]) < Place(i, handed[j][q])

\* The texts of a message that hold packed entries.
Blobs(m) ==
  CASE m.type = "SYNC_DATA" -> {m.payload[3]}
    [] m.type = "PROMISE"   -> Range(m.payload[3])
    [] OTHER                -> {}

\* The entries packed into a promise or into sync data come out again.
EntriesSurvive ==
  \A i \in Node : \A m \in Range(handed[i]) : \A blob \in Blobs(m) :
    /\ DecodeEntries(blob).ok
    /\ EncodeEntries(DecodeEntries(blob).entries) = blob

\* Again and again all that was sent has been handed over, but for channels on
\* which something went wrong: no frame is left in a queue or a buffer.
EventuallyHanded ==
  []<>(\A i, j \in Node : <<i, j>> \notin failed =>
         \A k \in 1..sent[i] : Script[i][k].to = j => Script[i][k] \in Range(handed[j]))

====
