------------------------------- MODULE Editor -------------------------------
(***************************************************************************)
(* The way of an edit: a page (frontend.html), its bridge (bridge.js), the *)
(* EditorServer and main loop of its replica (editor_server.cpp,           *)
(* paxos_node_main.cpp), the replicated log, and back from every replica   *)
(* to its own page.  Member i of Node is a page, a bridge and a replica.   *)
(*                                                                         *)
(* In a replica the client thread and the main thread interleave; between  *)
(* the processes everything is a stream.  The log is external here: what a *)
(* node may rely on is ReplicatedLog, which PaxosStable implements.        *)
(*                                                                         *)
(* A text is a sequence of characters and no two typed characters are the  *)
(* same: the n-th edit of page i types <<i, n>>.                           *)
(*                                                                         *)
(* Definitions marked "Slip" are mistakes easily made in the one below     *)
(* them, kept to see that the properties notice.                           *)
(***************************************************************************)
EXTENDS Integers, FiniteSets, SequencesExt

CONSTANTS
  Node,          \* the ids of the replicas
  Start,         \* "open": the pages have loaded; "cold": nothing has started
  Replication,   \* what the log may do to the commands of a node
  Keys,          \* what users do
  InitialLength, \* the length of the document the replicas load
  MaxEdits,      \* bound: edits of a page
  MaxTyped,      \* bound: edits of all pages
  MaxCopies      \* bound: copies sent of an edit, those known lost not counted

ASSUME EditorNodeAssumption == Node \subseteq Nat \ {0} /\ Node # {}
ASSUME StartAssumption == Start \in {"open", "cold"}
ASSUME ReplicationAssumption == Replication \in {"ordered", "reordering", "dropping"}
ASSUME KeysAssumption == Keys \subseteq {"insert", "backspace", "delete", "select"}
ASSUME EditorBoundAssumption ==
  /\ InitialLength \in Nat /\ MaxTyped \in Nat
  /\ MaxEdits \in Nat \ {0} /\ MaxCopies \in Nat \ {0}

VARIABLES
  server,       \* the process of the replica: "starting", "running", "dead"
  document,     \* document
  input_queue,  \* input_queue: lines for the main loop
  commit_index, \* node.commit_index()
  last_commit,  \* how many entries the main loop has applied
  unsent,       \* the entry applied and not yet broadcast, if any
  reply,        \* the full text the client thread is about to send, if any
  submitted,    \* what main gave to submit_client_command, not in the log yet
  agreed,       \* the replicated log
  tcp,          \* the bridge's socket: "connecting", "connected", "closed"
  to_server,    \* the stream from the bridge to its replica
  to_bridge,    \* and back
  joined,       \* the page's websocket is open
  to_ws,        \* the stream from the page to the bridge
  to_page,      \* and back
  page,         \* the page's script: see Page
  requestId,    \* requestId of the page
  copies        \* history: copies of each edit sent and not known lost

mainVars   == <<server, document, commit_index, last_commit, unsent>>
queueVars  == <<input_queue, reply>>
logVars    == <<submitted, agreed>>
bridgeVars == <<tcp, to_server, to_bridge>>
socketVars == <<joined, to_ws, to_page>>
pageVars   == <<page, requestId>>
vars == <<mainVars, queueVars, logVars, bridgeVars, socketVars, pageVars, copies>>

-----------------------------------------------------------------------------
MinOf(a, b) == IF a <= b THEN a ELSE b
MaxOf(a, b) == IF a >= b THEN a ELSE b

Char        == (Node \cup {0}) \X (0..MaxOf(MaxEdits, InitialLength))
InitialText == [k \in 1..InitialLength |-> <<0, k>>]

Key  == Node \X (0..MaxEdits - 1)
Pos  == -MaxTyped .. InitialLength + MaxTyped * MaxCopies
Edit == [type : {"INSERT"}, key : Key, pos : Pos, text : Char]
   \cup [type : {"DELETE"}, key : Key, pos : Pos, len : {1}]
Fetch       == [type |-> "FETCH"]
Full(text)  == [type |-> "FULL", text |-> text]

\* The page's state: editor.value, logicalCursor, seen, pending; loaded is
\* history, the page has been given a document.
Page == [value : Seq(Char), cursor : Pos, seen : SUBSET Key, pending : SUBSET Edit,
         loaded : BOOLEAN]

\* Copies of edit k among the lines q.
SentCopies(q, k) == Cardinality({n \in DOMAIN q : q[n].type # "FETCH" /\ q[n].key = k})

-----------------------------------------------------------------------------
(* The document and the page's text.                                       *)

\* doc.insert throws when the position is outside of the text, and nothing
\* catches the exception before main does.
Throws(doc, e) == e.type = "INSERT" /\ e.pos \notin 0..Len(doc)

\* apply_to_document.  A DELETE from outside of the text is ignored, one
\* that is too long is cut.
Edited(doc, e) ==
  IF e.type = "INSERT"
    THEN SubSeq(doc, 1, e.pos) \o <<e.text>> \o SubSeq(doc, e.pos + 1, Len(doc))
    ELSE IF e.pos \notin 0..Len(doc)
      THEN doc
      ELSE SubSeq(doc, 1, e.pos) \o SubSeq(doc, MinOf(e.pos + e.len, Len(doc)) + 1, Len(doc))

\* A position as JavaScript's slice reads it: a negative one counts from the
\* end, one beyond an end is that end.
Clipped(v, k) == IF k < 0 THEN MaxOf(Len(v) + k, 0) ELSE MinOf(k, Len(v))
Upto(v, k)    == SubSeq(v, 1, Clipped(v, k))
Onward(v, k)  == SubSeq(v, Clipped(v, k) + 1, Len(v))

\* editor.value after the page applied e to v.
PageEdited(v, e) ==
  IF e.type = "INSERT"
    THEN Upto(v, e.pos) \o <<e.text>> \o Onward(v, e.pos)
    ELSE Upto(v, e.pos) \o Onward(v, e.pos + e.len)

\* Slip: own edits move the cursor again when they come back.
CursorAfterAny(i, cursor, e) ==
  IF e.pos > cursor THEN cursor
  ELSE IF e.type = "INSERT" THEN cursor + 1
  ELSE cursor - MinOf(e.len, cursor - e.pos)

\* Edits of others move logicalCursor; an own edit moved it when it was typed.
CursorAfter(i, cursor, e) ==
  IF e.key[1] = i \/ e.pos > cursor THEN cursor
  ELSE IF e.type = "INSERT" THEN cursor + 1
  ELSE cursor - MinOf(e.len, cursor - e.pos)

\* Slip: seen remembers the request number without the sender.
ShownByNumber(i, p, m) ==
  IF m.type = "FULL"
    THEN [value |-> m.text, cursor |-> Len(m.text), seen |-> {}, pending |-> {},
          loaded |-> TRUE]
    ELSE IF \E k \in p.seen : k[2] = m.key[2]
      THEN p
      ELSE [p EXCEPT !.value = PageEdited(@, m), !.cursor = CursorAfter(i, @, m),
                     !.seen = @ \cup {m.key}, !.pending = @ \ {e \in @ : e.key = m.key}]

\* Slip: a repeated edit is shown again.
ShownAgain(i, p, m) ==
  IF m.type = "FULL"
    THEN [value |-> m.text, cursor |-> Len(m.text), seen |-> {}, pending |-> {},
          loaded |-> TRUE]
    ELSE [p EXCEPT !.value = PageEdited(@, m), !.cursor = CursorAfter(i, @, m),
                   !.seen = @ \cup {m.key}, !.pending = @ \ {e \in @ : e.key = m.key}]

\* applyOperation: page i in state p is sent m.  A full text forgets what was
\* seen and what is pending; an edit whose key was seen is dropped.
Shown(i, p, m) ==
  IF m.type = "FULL"
    THEN [value |-> m.text, cursor |-> Len(m.text), seen |-> {}, pending |-> {},
          loaded |-> TRUE]
    ELSE IF m.key \in p.seen
      THEN p
      ELSE [p EXCEPT !.value = PageEdited(@, m), !.cursor = CursorAfter(i, @, m),
                     !.seen = @ \cup {m.key}, !.pending = @ \ {e \in @ : e.key = m.key}]

-----------------------------------------------------------------------------
(* The page.                                                               *)

\* sendOp, after the handler of the key set the cursor: the edit is pending,
\* and on its way unless the websocket is not open, when send throws.
SendOp(i, e, cursor) ==
  /\ requestId[i] < MaxEdits
  /\ SumFunction(requestId) < MaxTyped
  /\ requestId' = [requestId EXCEPT ![i] = @ + 1]
  /\ page' = [page EXCEPT ![i].cursor = cursor, ![i].pending = @ \cup {e}]
  /\ IF joined[i]
       THEN /\ to_ws' = [to_ws EXCEPT ![i] = Append(@, e)]
            /\ copies' = [copies EXCEPT ![e.key] = 1]
       ELSE UNCHANGED <<to_ws, copies>>
  /\ UNCHANGED <<mainVars, queueVars, logVars, bridgeVars, joined, to_page>>

\* insertText.
Insert(i) ==
  /\ "insert" \in Keys
  /\ SendOp(i, [type |-> "INSERT", key |-> <<i, requestId[i]>>, pos |-> page[i].cursor,
                text |-> <<i, requestId[i]>>], page[i].cursor + 1)

\* deleteContentBackward without a selection.
DeleteBackward(i) ==
  /\ "backspace" \in Keys
  /\ page[i].cursor > 0
  /\ SendOp(i, [type |-> "DELETE", key |-> <<i, requestId[i]>>, pos |-> page[i].cursor - 1,
                len |-> 1], page[i].cursor - 1)

\* deleteContentForward without a selection: the cursor moves back, even
\* from the start of the text.
DeleteForward(i) ==
  /\ "delete" \in Keys
  /\ SendOp(i, [type |-> "DELETE", key |-> <<i, requestId[i]>>, pos |-> page[i].cursor,
                len |-> 1], page[i].cursor - 1)

\* selectionchange: the user puts the cursor somewhere in the text shown.
SelectionChange(i) ==
  /\ "select" \in Keys
  /\ \E k \in 0..Len(page[i].value) : page' = [page EXCEPT ![i].cursor = k]
  /\ UNCHANGED <<mainVars, queueVars, logVars, bridgeVars, socketVars, requestId, copies>>

\* Slip: an edit sent again is pending no longer.
RetryOnce(i) ==
  \E e \in page[i].pending :
    /\ joined[i]
    /\ copies[e.key] < MaxCopies
    /\ to_ws' = [to_ws EXCEPT ![i] = Append(@, e)]
    /\ copies' = [copies EXCEPT ![e.key] = @ + 1]
    /\ page' = [page EXCEPT ![i].pending = @ \ {e}]
    /\ UNCHANGED <<mainVars, queueVars, logVars, bridgeVars, joined, to_page, requestId>>

\* The retry timer: an edit pending for more than a second is sent again.
Retry(i) ==
  \E e \in page[i].pending :
    /\ joined[i]
    /\ copies[e.key] < MaxCopies
    /\ to_ws' = [to_ws EXCEPT ![i] = Append(@, e)]
    /\ copies' = [copies EXCEPT ![e.key] = @ + 1]
    /\ UNCHANGED <<mainVars, queueVars, logVars, bridgeVars, joined, to_page, pageVars>>

\* onmessage.
ApplyOperation(i) ==
  /\ to_page[i] # <<>>
  /\ page' = [page EXCEPT ![i] = Shown(i, @, Head(to_page[i]))]
  /\ to_page' = [to_page EXCEPT ![i] = Tail(@)]
  /\ UNCHANGED <<mainVars, queueVars, logVars, bridgeVars, joined, to_ws, requestId, copies>>

-----------------------------------------------------------------------------
(* The bridge.                                                             *)

\* What is written while the socket connects waits for the connection.
Connect(i) ==
  /\ tcp[i] = "connecting"
  /\ server[i] = "running"
  /\ tcp' = [tcp EXCEPT ![i] = "connected"]
  /\ UNCHANGED <<mainVars, queueVars, logVars, to_server, to_bridge, socketVars, pageVars, copies>>

\* Nobody listens: the socket is destroyed with what was written to it.
Refused(i) ==
  /\ tcp[i] = "connecting"
  /\ server[i] # "running"
  /\ tcp' = [tcp EXCEPT ![i] = "closed"]
  /\ to_server' = [to_server EXCEPT ![i] = <<>>]
  /\ copies' = [k \in Key |-> copies[k] - SentCopies(to_server[i], k)]
  /\ UNCHANGED <<mainVars, queueVars, logVars, to_bridge, socketVars, pageVars>>

\* connectTCP, one second after the close.
Reconnect(i) ==
  /\ tcp[i] = "closed"
  /\ tcp' = [tcp EXCEPT ![i] = "connecting"]
  /\ UNCHANGED <<mainVars, queueVars, logVars, to_server, to_bridge, socketVars, pageVars, copies>>

\* A page connects; the bridge asks for the document, once and only if it
\* has a socket.
Join(i) ==
  /\ ~joined[i]
  /\ joined' = [joined EXCEPT ![i] = TRUE]
  /\ to_server' = IF tcp[i] = "closed" THEN to_server
                    ELSE [to_server EXCEPT ![i] = Append(@, Fetch)]
  /\ UNCHANGED <<mainVars, queueVars, logVars, tcp, to_bridge, to_ws, to_page, pageVars, copies>>

\* A message of the page: written to the replica, or dropped without a socket.
Forward(i) ==
  /\ to_ws[i] # <<>>
  /\ to_ws' = [to_ws EXCEPT ![i] = Tail(@)]
  /\ IF tcp[i] = "closed"
       THEN /\ copies' = [copies EXCEPT ![Head(to_ws[i]).key] = @ - 1]
            /\ UNCHANGED to_server
       ELSE /\ to_server' = [to_server EXCEPT ![i] = Append(@, Head(to_ws[i]))]
            /\ UNCHANGED copies
  /\ UNCHANGED <<mainVars, queueVars, logVars, tcp, to_bridge, joined, to_page, pageVars>>

\* A line of the replica: for the page, if it is there.
Deliver(i) ==
  /\ to_bridge[i] # <<>>
  /\ to_bridge' = [to_bridge EXCEPT ![i] = Tail(@)]
  /\ to_page' = IF joined[i]
                  THEN [to_page EXCEPT ![i] = Append(@, Head(to_bridge[i]))]
                  ELSE to_page
  /\ UNCHANGED <<mainVars, queueVars, logVars, tcp, to_server, joined, to_ws, pageVars, copies>>

-----------------------------------------------------------------------------
(* The replica.                                                            *)

\* main up to the loop: the document is loaded, the port opened.
StartServer(i) ==
  /\ server[i] = "starting"
  /\ server' = [server EXCEPT ![i] = "running"]
  /\ UNCHANGED <<document, commit_index, last_commit, unsent>>
  /\ UNCHANGED <<queueVars, logVars, bridgeVars, socketVars, pageVars, copies>>

\* What the client thread can read while main may be changing the document:
\* no lock is held, each character and the length are old or new.
ReadDocument(i) ==
  LET old == document[i]
      new == IF last_commit[i] < commit_index[i] /\ unsent[i] = <<>>
                  /\ ~Throws(old, agreed[last_commit[i] + 1])
               THEN Edited(old, agreed[last_commit[i] + 1])
               ELSE old
  IN  UNION {{t \in [1..n -> Range(old) \cup Range(new)] :
                \A k \in 1..n : \/ k <= Len(old) /\ t[k] = old[k]
                                \/ k <= Len(new) /\ t[k] = new[k]} :
             n \in {Len(old), Len(new)}}

\* client_loop handles one line.
ClientLoop(i) ==
  /\ server[i] = "running"
  /\ tcp[i] = "connected"
  /\ reply[i] = <<>>
  /\ to_server[i] # <<>>
  /\ to_server' = [to_server EXCEPT ![i] = Tail(@)]
  /\ \/ /\ Head(to_server[i]) = Fetch
        /\ \E t \in ReadDocument(i) : reply' = [reply EXCEPT ![i] = <<Full(t)>>]
        /\ UNCHANGED input_queue
     \/ /\ Head(to_server[i]) # Fetch
        /\ input_queue' = [input_queue EXCEPT ![i] = Append(@, Head(to_server[i]))]
        /\ UNCHANGED reply
  /\ UNCHANGED <<mainVars, logVars, tcp, to_bridge, socketVars, pageVars, copies>>

\* send_full_document_to_client, from the lock on.
SendFullDocument(i) ==
  /\ server[i] = "running"
  /\ reply[i] # <<>>
  /\ to_bridge' = [to_bridge EXCEPT ![i] = @ \o reply[i]]
  /\ reply' = [reply EXCEPT ![i] = <<>>]
  /\ UNCHANGED <<mainVars, input_queue, logVars, tcp, to_server, socketVars, pageVars, copies>>

\* A pass of the main loop up to the committed entries: the node learns a
\* longer prefix of the log, the queue is drained under its lock.
RunPass(i) ==
  /\ server[i] = "running"
  /\ last_commit[i] = commit_index[i]
  /\ unsent[i] = <<>>
  /\ \E n \in commit_index[i] .. Len(agreed) :
       commit_index' = [commit_index EXCEPT ![i] = n]
  /\ submitted' = [submitted EXCEPT ![i] = @ \o input_queue[i]]
  /\ input_queue' = [input_queue EXCEPT ![i] = <<>>]
  /\ UNCHANGED <<server, document, last_commit, unsent, reply, agreed>>
  /\ UNCHANGED <<bridgeVars, socketVars, pageVars, copies>>

\* Slip: with several new entries, the newest is applied each time.
ApplyNewest(i) ==
  LET e == agreed[commit_index[i]]
  IN  /\ server[i] = "running"
      /\ last_commit[i] < commit_index[i]
      /\ unsent[i] = <<>>
      /\ ~Throws(document[i], e)
      /\ document' = [document EXCEPT ![i] = Edited(@, e)]
      /\ last_commit' = [last_commit EXCEPT ![i] = @ + 1]
      /\ unsent' = [unsent EXCEPT ![i] = <<e>>]
      /\ UNCHANGED <<server, commit_index, queueVars, logVars>>
      /\ UNCHANGED <<bridgeVars, socketVars, pageVars, copies>>

\* The loop over the committed entries applies the next one.
ApplyEntry(i) ==
  LET e == agreed[last_commit[i] + 1]
  IN  /\ server[i] = "running"
      /\ last_commit[i] < commit_index[i]
      /\ unsent[i] = <<>>
      /\ ~Throws(document[i], e)
      /\ document' = [document EXCEPT ![i] = Edited(@, e)]
      /\ last_commit' = [last_commit EXCEPT ![i] = @ + 1]
      /\ unsent' = [unsent EXCEPT ![i] = <<e>>]
      /\ UNCHANGED <<server, commit_index, queueVars, logVars>>
      /\ UNCHANGED <<bridgeVars, socketVars, pageVars, copies>>

\* The exception leaves the loop and main, the process ends.
Die(i) ==
  /\ server[i] = "running"
  /\ last_commit[i] < commit_index[i]
  /\ unsent[i] = <<>>
  /\ Throws(document[i], agreed[last_commit[i] + 1])
  /\ server' = [server EXCEPT ![i] = "dead"]
  /\ tcp' = [tcp EXCEPT ![i] = "closed"]
  /\ to_server' = [to_server EXCEPT ![i] = <<>>]
  /\ UNCHANGED <<document, commit_index, last_commit, unsent, queueVars, logVars>>
  /\ UNCHANGED <<to_bridge, socketVars, pageVars, copies>>

\* Slip: the replica that submitted an entry does not send it to its page.
BroadcastOthers(i) ==
  /\ server[i] = "running"
  /\ unsent[i] # <<>>
  /\ to_bridge' = IF tcp[i] = "connected" /\ unsent[i][1].key[1] # i
                    THEN [to_bridge EXCEPT ![i] = @ \o unsent[i]]
                    ELSE to_bridge
  /\ unsent' = [unsent EXCEPT ![i] = <<>>]
  /\ UNCHANGED <<server, document, commit_index, last_commit, queueVars, logVars>>
  /\ UNCHANGED <<tcp, to_server, socketVars, pageVars, copies>>

\* EditorServer::broadcast, to the clients there are.
BroadcastEntry(i) ==
  /\ server[i] = "running"
  /\ unsent[i] # <<>>
  /\ to_bridge' = IF tcp[i] = "connected"
                    THEN [to_bridge EXCEPT ![i] = @ \o unsent[i]]
                    ELSE to_bridge
  /\ unsent' = [unsent EXCEPT ![i] = <<>>]
  /\ UNCHANGED <<server, document, commit_index, last_commit, queueVars, logVars>>
  /\ UNCHANGED <<tcp, to_server, socketVars, pageVars, copies>>

-----------------------------------------------------------------------------
(* The replicated log, as ReplicatedLog describes it.                      *)

\* A submitted command is agreed on: in the order of submission, or not when
\* commands are forwarded over connections that come and go.
Agree(i) ==
  \E k \in DOMAIN submitted[i] :
    /\ k = 1 \/ Replication # "ordered"
    /\ agreed' = Append(agreed, submitted[i][k])
    /\ submitted' = [submitted EXCEPT ![i] = RemoveAt(@, k)]
    /\ UNCHANGED <<mainVars, queueVars, bridgeVars, socketVars, pageVars, copies>>

\* A command is dropped, as it is while a node knows no leader.
Drop(i) ==
  \E k \in DOMAIN submitted[i] :
    /\ Replication = "dropping"
    /\ submitted' = [submitted EXCEPT ![i] = RemoveAt(@, k)]
    /\ copies' = [copies EXCEPT ![submitted[i][k].key] = @ - 1]
    /\ UNCHANGED <<mainVars, queueVars, agreed, bridgeVars, socketVars, pageVars>>

-----------------------------------------------------------------------------
Init ==
  /\ server = [i \in Node |-> IF Start = "open" THEN "running" ELSE "starting"]
  /\ document = [i \in Node |-> InitialText]
  /\ input_queue = [i \in Node |-> <<>>]
  /\ commit_index = [i \in Node |-> 0]
  /\ last_commit = [i \in Node |-> 0]
  /\ unsent = [i \in Node |-> <<>>]
  /\ reply = [i \in Node |-> <<>>]
  /\ submitted = [i \in Node |-> <<>>]
  /\ agreed = <<>>
  /\ tcp = [i \in Node |-> IF Start = "open" THEN "connected" ELSE "connecting"]
  /\ to_server = [i \in Node |-> <<>>]
  /\ to_bridge = [i \in Node |-> <<>>]
  /\ joined = [i \in Node |-> Start = "open"]
  /\ to_ws = [i \in Node |-> <<>>]
  /\ to_page = [i \in Node |-> <<>>]
  /\ page = [i \in Node |->
       LET empty == [value |-> <<>>, cursor |-> 0, seen |-> {}, pending |-> {}, loaded |-> FALSE]
       IN  IF Start = "open" THEN Shown(i, empty, Full(InitialText)) ELSE empty]
  /\ requestId = [i \in Node |-> 0]
  /\ copies = [k \in Key |-> 0]

Type(i)    == Insert(i) \/ DeleteBackward(i) \/ DeleteForward(i) \/ SelectionChange(i)
Bridge(i)  == Connect(i) \/ Refused(i) \/ Reconnect(i) \/ Forward(i) \/ Deliver(i)
Replica(i) == \/ StartServer(i) \/ ClientLoop(i) \/ SendFullDocument(i) \/ RunPass(i)
              \/ ApplyEntry(i) \/ Die(i) \/ BroadcastEntry(i)

Next ==
  \E i \in Node :
    \/ Type(i) \/ Join(i) \/ Retry(i) \/ ApplyOperation(i)
    \/ Bridge(i)
    \/ Replica(i)
    \/ Agree(i) \/ Drop(i)

Spec == Init /\ [][Next]_vars

\* The processes and threads run; a node that looks learns the whole log in
\* the end (CatchUp of PaxosStable); a command submitted again and again is
\* not dropped each time.  Nobody has to type.
Fairness ==
  \A i \in Node :
    /\ WF_vars(Join(i)) /\ WF_vars(Retry(i)) /\ WF_vars(ApplyOperation(i))
    /\ WF_vars(Connect(i)) /\ WF_vars(Refused(i)) /\ WF_vars(Reconnect(i))
    /\ WF_vars(Forward(i)) /\ WF_vars(Deliver(i))
    /\ WF_vars(StartServer(i)) /\ WF_vars(ClientLoop(i)) /\ WF_vars(SendFullDocument(i))
    /\ WF_vars(RunPass(i) /\ commit_index'[i] = Len(agreed))
    /\ WF_vars(ApplyEntry(i)) /\ WF_vars(Die(i)) /\ WF_vars(BroadcastEntry(i))
    /\ SF_vars(Agree(i))

FairSpec == Spec /\ Fairness

-----------------------------------------------------------------------------
\* The state has the shape of the declarations; a cursor is moved at most once
\* by each edit, and the main loop is inside the prefix its node knows.  That
\* the cursor stays in Pos is for pages open from the start and for the keys
\* of Clicking: a page that connects later is shown again what the text it was
\* given already holds, and "delete" may double the text.
TypeOK ==
  /\ server \in [Node -> {"starting", "running", "dead"}]
  /\ document \in [Node -> Seq(Char)]
  /\ input_queue \in [Node -> Seq(Edit)]
  /\ submitted \in [Node -> Seq(Edit)]
  /\ agreed \in Seq(Edit)
  /\ tcp \in [Node -> {"connecting", "connected", "closed"}]
  /\ joined \in [Node -> BOOLEAN]
  /\ to_ws \in [Node -> Seq(Edit)]
  /\ page \in [Node -> Page]
  /\ requestId \in [Node -> 0..MaxEdits]
  /\ copies \in [Key -> 0..MaxCopies]
  /\ \A i \in Node :
       /\ 0 <= last_commit[i] /\ last_commit[i] <= commit_index[i]
       /\ commit_index[i] <= Len(agreed)
       /\ Len(unsent[i]) <= 1 /\ Len(reply[i]) <= 1

\* Replicas that have applied as many entries have the same document, typed
\* and deleted by whomever, in whichever passes of their loops.
DocumentsAgree ==
  \A i, j \in Node : last_commit[i] = last_commit[j] => document[i] = document[j]

\* What page i will be when all that is on its way to it has arrived.
Settled(i) ==
  FoldLeft(LAMBDA p, m : Shown(i, p, m), page[i], to_page[i] \o to_bridge[i] \o unsent[i])

\* A page that was given the document shows, once it has received what was
\* sent to it, the document of its replica.
ViewFollowsDocument ==
  \A i \in Node : Settled(i).loaded => Settled(i).value = document[i]

\* Each edit of the log q, the first time it occurs.
FirstOccurrences(q) ==
  FoldLeft(LAMBDA r, e : IF e \in Range(r) THEN r ELSE Append(r, e), <<>>, q)

\* However often an edit is sent and agreed on, a loaded page shows it once,
\* in the order of the log.
ShowsEachEditOnce ==
  \A i \in Node : Settled(i).loaded =>
    Settled(i).value =
      FoldLeft(PageEdited, InitialText, FirstOccurrences(SubSeq(agreed, 1, last_commit[i])))

\* An edit that is pending on a loaded page is shown in the end, whoever lost
\* it on the way, unless the replica dies.
EditTakesEffect ==
  \A i \in Node, k \in Key :
    (page[i].loaded /\ \E e \in page[i].pending : e.key = k)
      ~> (k \in page[i].seen \/ server[i] = "dead")

\* No edit a user can type ends the process of a replica.
NoReplicaDies == \A i \in Node : server[i] # "dead"

====
