-------------------------------- MODULE Wire --------------------------------
(***************************************************************************)
(* The frames of src/paxos_tcp_transport.cpp and the blobs of recovered    *)
(* entries of src/paxos.cpp: how a message becomes words and words a       *)
(* message again.  A word stands for four bytes; a u64 is two words, high  *)
(* one first; a text is its length and its characters.                     *)
(*                                                                         *)
(* serialize goes by the class of the payload, deserialize by the type of  *)
(* the message; the two tables below are theirs, and only agree if the     *)
(* code does.                                                              *)
(***************************************************************************)
EXTENDS Integers, SequencesExt

CONSTANT WordSize  \* 2^32: what an unsigned word can hold

\* A word can hold the number of any message type.
ASSUME WordSizeAssumption == WordSize \in Nat /\ WordSize > 10

\* The payload a message type is sent with, its fields in order.  The two sync
\* messages travel in the payload of a ForwardRequest.  The two client messages
\* are sent by nobody (payload_type would call them forwards): they are here as
\* deserialize reads them.
PayloadOf ==
  [CLIENT_REQUEST |-> "ClientRequest", CLIENT_RESPONSE |-> "ClientResponse",
   FORWARD_REQUEST |-> "ForwardRequest", SYNC_REQUEST |-> "ForwardRequest",
   SYNC_DATA |-> "ForwardRequest", PREPARE |-> "Prepare", PROMISE |-> "Promise",
   ACCEPT_REQUEST |-> "Accept", ACCEPTED |-> "Accepted", COMMIT |-> "Commit",
   HEARTBEAT |-> "Heartbeat"]

\* The numbers of enum MessageType.
TypeNames ==
  <<"CLIENT_REQUEST", "CLIENT_RESPONSE", "FORWARD_REQUEST", "PREPARE", "PROMISE",
    "ACCEPT_REQUEST", "ACCEPTED", "COMMIT", "HEARTBEAT", "SYNC_REQUEST", "SYNC_DATA">>
TypeNumber(t) == (CHOOSE k \in DOMAIN TypeNames : TypeNames[k] = t) - 1

\* What serialize writes for each class of payload.
Written ==
  [Prepare |-> <<"u64">>,
   Promise |-> <<"u64", "u64", "optional">>,
   Accept |-> <<"u64", "u64", "text">>,
   Accepted |-> <<"u64", "u64">>,
   Commit |-> <<"u64", "text">>,
   Heartbeat |-> <<"u64", "u64">>,
   ClientRequest |-> <<"u32", "u32", "text">>,
   ClientResponse |-> <<"u32", "u32">>,
   ForwardRequest |-> <<"u32", "u32", "text">>]

\* What deserialize reads for each type of message.
Read ==
  [PREPARE |-> <<"u64">>,
   PROMISE |-> <<"u64", "u64", "optional">>,
   ACCEPT_REQUEST |-> <<"u64", "u64", "text">>,
   ACCEPTED |-> <<"u64", "u64">>,
   COMMIT |-> <<"u64", "text">>,
   HEARTBEAT |-> <<"u64", "u64">>,
   SYNC_REQUEST |-> <<"u32", "u32", "text">>,
   SYNC_DATA |-> <<"u32", "u32", "text">>,
   CLIENT_REQUEST |-> <<"u32", "u32", "text">>,
   CLIENT_RESPONSE |-> <<"u32", "u32">>,
   FORWARD_REQUEST |-> <<"u32", "u32", "text">>]

-----------------------------------------------------------------------------
(* What fits: the values of the C++ types of the fields.                   *)

IsText(v) == v \in Seq(0..WordSize - 1) /\ Len(v) < WordSize \div 2

FitsField(kind, v) ==
  CASE kind = "u32"      -> v \in 0..WordSize - 1
    [] kind = "u64"      -> v \in 0..WordSize * WordSize - 1
    [] kind = "text"     -> IsText(v)
    [] kind = "optional" -> v = <<>> \/ (v = <<v[1]>> /\ IsText(v[1]))

FitsFields(kinds, vs) ==
  /\ vs = [k \in DOMAIN kinds |-> vs[k]]
  /\ \A k \in DOMAIN kinds : FitsField(kinds[k], vs[k])

\* The message is one of the C++ type Message, and its ids are ids of nodes.
Fits(m) ==
  /\ m = [from |-> m.from, to |-> m.to, type |-> m.type, term |-> m.term,
          payload |-> m.payload]
  /\ {m.from, m.to} \subseteq 0..WordSize \div 2 - 1
  /\ m.type \in Range(TypeNames)
  /\ FitsField("u64", m.term)
  /\ FitsFields(Written[PayloadOf[m.type]], m.payload)

-----------------------------------------------------------------------------
(* Writing.  An optional value is a sequence of at most one text.          *)

Words(kind, v) ==
  CASE kind = "u32"      -> <<v % WordSize>>
    [] kind = "u64"      -> <<v \div WordSize, v % WordSize>>
    [] kind = "text"     -> <<Len(v)>> \o v
    [] kind = "optional" -> IF v = <<>> THEN <<0>> ELSE <<1, Len(v[1])>> \o v[1]

\* The words of up to four fields, which is as many as are ever written in a row.
AllWords(kinds, vs) ==
  LET Field(k) == IF k \in DOMAIN kinds THEN Words(kinds[k], vs[k]) ELSE <<>>
  IN  Field(1) \o Field(2) \o Field(3) \o Field(4)

Serialize(m) ==
  AllWords(<<"u32", "u32", "u32", "u64">>, <<m.from, m.to, TypeNumber(m.type), m.term>>)
    \o AllWords(Written[PayloadOf[m.type]], m.payload)

-----------------------------------------------------------------------------
(* Reading.  The state of a reader is what is left of the words and the    *)
(* values read so far; it fails when the words run out.                    *)

AsInt(w) == IF w >= WordSize \div 2 THEN w - WordSize ELSE w

\* read_string at the words ws: its length and its text, if they are all there.
ReadText(ws) ==
  IF ws = <<>> \/ AsInt(ws[1]) < 0 \/ 1 + ws[1] > Len(ws)
    THEN [ok |-> FALSE, size |-> 0, value |-> <<>>]
    ELSE [ok |-> TRUE, size |-> 1 + ws[1], value |-> SubSeq(ws, 2, 1 + ws[1])]

\* One field of a kind at the words ws.
ReadField(ws, kind) ==
  CASE kind = "u32" ->
         IF ws = <<>> THEN [ok |-> FALSE, size |-> 0, value |-> 0]
                      ELSE [ok |-> TRUE, size |-> 1, value |-> ws[1]]
    [] kind = "u64" ->
         IF Len(ws) < 2 THEN [ok |-> FALSE, size |-> 0, value |-> 0]
                        ELSE [ok |-> TRUE, size |-> 2, value |-> ws[1] * WordSize + ws[2]]
    [] kind = "text" -> ReadText(ws)
    [] kind = "optional" ->
         IF ws = <<>> THEN [ok |-> FALSE, size |-> 0, value |-> <<>>]
         ELSE IF ws[1] = 0 THEN [ok |-> TRUE, size |-> 1, value |-> <<>>]
         ELSE LET t == ReadText(Tail(ws))
              IN  [ok |-> t.ok, size |-> 1 + t.size, value |-> <<t.value>>]

\* The next field, of the given kind, after what has been read.
Further(r, kind) ==
  LET f == ReadField(r.left, kind)
  IN  [ok     |-> r.ok /\ f.ok,
       left   |-> SubSeq(r.left, f.size + 1, Len(r.left)),
       values |-> Append(r.values, f.value)]

\* Up to four fields.
ReadFields(ws, kinds) ==
  LET After(r, k) == IF k \in DOMAIN kinds THEN Further(r, kinds[k]) ELSE r
  IN  After(After(After(After([ok |-> TRUE, left |-> ws, values |-> <<>>], 1), 2), 3), 4)

\* The message a frame holds, <<>> when it holds none.
Deserialize(ws) ==
  LET head == ReadFields(ws, <<"u32", "u32", "u32", "u64">>)
      type == head.values[3] + 1
  IN  IF ~head.ok \/ AsInt(head.values[1]) < 0 \/ AsInt(head.values[2]) < 0
           \/ type \notin DOMAIN TypeNames
        THEN <<>>
        ELSE LET body == ReadFields(head.left, Read[TypeNames[type]])
             IN  IF ~body.ok THEN <<>>
                 ELSE <<[from |-> head.values[1], to |-> head.values[2],
                         type |-> TypeNames[type], term |-> head.values[4],
                         payload |-> body.values]>>

-----------------------------------------------------------------------------
(* The entries a promise or sync data carries, packed into its text.       *)

EntryFields == <<"u32", "u32", "text">>

\* Slip: the ballots are left out.
EncodeWithoutBallots(es) ==
  FoldLeft(LAMBDA ws, e : ws \o AllWords(<<"u32", "text">>, <<e.slot, e.command>>),
           <<Len(es)>>, es)

EncodeEntries(es) ==
  FoldLeft(LAMBDA ws, e : ws \o AllWords(EntryFields, <<e.slot, e.ballot, e.command>>),
           <<Len(es)>>, es)

\* The next entry of a blob, after those read; nothing more once one broke off.
DecodeEntry(r) ==
  LET f == ReadFields(r.left, EntryFields)
  IN  IF ~r.ok \/ ~f.ok THEN [r EXCEPT !.ok = FALSE]
      ELSE [ok |-> TRUE, left |-> f.left,
            entries |-> Append(r.entries, [slot |-> AsInt(f.values[1]),
                                           ballot |-> AsInt(f.values[2]),
                                           command |-> f.values[3]])]

\* The entries of a blob and whether it could be read to the end; a blob that
\* breaks off leaves the entries before the break.
DecodeEntries(ws) ==
  IF ws = <<>> \/ AsInt(ws[1]) < 0 THEN [ok |-> FALSE, entries |-> <<>>]
  ELSE LET r == FoldLeft(LAMBDA s, k : DecodeEntry(s),
                         [ok |-> TRUE, left |-> Tail(ws), entries |-> <<>>],
                         [k \in 1..ws[1] |-> k])
       IN  [ok |-> r.ok, entries |-> r.entries]

====
