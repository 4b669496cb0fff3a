---------------------------- MODULE EditorProofs ----------------------------
(***************************************************************************)
(* Replicas that applied as many entries have the same document, for any   *)
(* number of pages, whatever they type and however often edits are sent    *)
(* again, dropped or agreed on in another order; and what the proofs about *)
(* the pages (EditorViewProofs) rest on: the shape of texts and of the     *)
(* state, the folds over lines and entries, and the keys of the edits.     *)
(***************************************************************************)
EXTENDS Editor, TLAPS, SequenceTheorems, FiniteSetTheorems

\* A sequence, of whatever elements.
IsList(q) == \E S : q \in Seq(S)

\* Appending one line leaves the others where they were.
LEMMA AppendToList ==
  ASSUME NEW q, IsList(q), NEW x
  PROVE  /\ IsList(Append(q, x)) /\ Len(q) \in Nat
         /\ Len(Append(q, x)) = Len(q) + 1
         /\ Append(q, x)[Len(q) + 1] = x
         /\ \A k \in 1..Len(q) : Append(q, x)[k] = q[k]
<1>1. PICK S : q \in Seq(S)
  BY DEF IsList
<1> DEFINE T == S \cup {x}
<1>2. q \in Seq(T) /\ x \in T
  <2>1. Len(q) \in Nat /\ q = [k \in 1..Len(q) |-> q[k]] /\ \A k \in 1..Len(q) : q[k] \in T
    BY <1>1
  <2> QED
    BY <2>1
<1> HIDE DEF T
<1>3. Append(q, x) \in Seq(T)
  BY <1>2
<1> QED
  BY <1>2, <1>3, AppendProperties DEF IsList

-----------------------------------------------------------------------------
(* The main loop is inside the prefix of the log its node knows.           *)

LogInv ==
  /\ IsList(agreed)
  /\ commit_index \in [Node -> Nat] /\ last_commit \in [Node -> Nat]
  /\ \A i \in Node : last_commit[i] <= commit_index[i] /\ commit_index[i] <= Len(agreed)

\* D gives the document after each prefix of the log.
Documents(D) ==
  /\ D[0] = InitialText
  /\ \A n \in 0..Len(agreed) - 1 : D[n + 1] = Edited(D[n], agreed[n + 1])

\* Every replica has the document of the prefix it has applied.
DocumentInv ==
  /\ DOMAIN document = Node
  /\ \E D : Documents(D) /\ \A i \in Node : document[i] = D[last_commit[i]]

\* Some entries are learned, none is applied.
LEMMA NothingApplied ==
  ASSUME LogInv, DocumentInv, UNCHANGED <<document, last_commit, agreed>>,
         commit_index' \in [Node -> Nat],
         \A i \in Node : commit_index[i] <= commit_index'[i] /\ commit_index'[i] <= Len(agreed)
  PROVE  LogInv' /\ DocumentInv'
<1>1. LogInv'
  BY DEF LogInv
<1>2. DocumentInv'
  BY DEF DocumentInv, Documents
<1> QED
  BY <1>1, <1>2

\* A replica applies the next entry.
LEMMA EntryApplied ==
  ASSUME LogInv, DocumentInv, NEW i \in Node, ApplyEntry(i)
  PROVE  LogInv' /\ DocumentInv'
<1> DEFINE e == agreed[last_commit[i] + 1]
<1>1. /\ last_commit[i] < commit_index[i]
      /\ document' = [document EXCEPT ![i] = Edited(document[i], e)]
      /\ last_commit' = [last_commit EXCEPT ![i] = last_commit[i] + 1]
      /\ UNCHANGED <<commit_index, agreed>>
  BY DEF ApplyEntry, logVars
<1>2. last_commit[i] \in Nat /\ commit_index[i] \in Nat /\ Len(agreed) \in Nat
      /\ commit_index[i] <= Len(agreed)
  BY AppendToList DEF LogInv
<1>3. LogInv'
  BY <1>1, <1>2 DEF LogInv
<1>4. PICK D : Documents(D) /\ \A j \in Node : document[j] = D[last_commit[j]]
  BY DEF DocumentInv
<1>5. D[last_commit[i] + 1] = Edited(D[last_commit[i]], e)
  <2>1. last_commit[i] \in 0..Len(agreed) - 1
    BY <1>1, <1>2
  <2> QED
    BY <1>4, <2>1 DEF Documents
<1>6. \A j \in Node : document'[j] = D[last_commit'[j]]
  BY <1>1, <1>4, <1>5 DEF LogInv, DocumentInv
<1>7. Documents(D)' /\ DOMAIN document' = Node
  BY <1>1, <1>4 DEF Documents, DocumentInv
<1> QED
  BY <1>3, <1>6, <1>7 DEF DocumentInv

\* The log gets one more command: the documents before it stay what they are.
LEMMA EntryAgreed ==
  ASSUME LogInv, DocumentInv, NEW x, agreed' = Append(agreed, x),
         UNCHANGED <<document, last_commit, commit_index>>
  PROVE  LogInv' /\ DocumentInv'
<1> DEFINE n == Len(agreed)
<1>1. /\ IsList(agreed') /\ n \in Nat /\ Len(agreed') = n + 1 /\ agreed'[n + 1] = x
      /\ \A k \in 1..n : agreed'[k] = agreed[k]
  BY AppendToList DEF LogInv
<1>2. LogInv'
  BY <1>1 DEF LogInv
<1>3. PICK D : Documents(D) /\ \A j \in Node : document[j] = D[last_commit[j]]
  BY DEF DocumentInv
<1>4. PICK E : E = [k \in 0..n + 1 |-> IF k <= n THEN D[k] ELSE Edited(D[n], x)]
  OBVIOUS
<1>5. \A k \in 0..n : E[k] = D[k]
  BY <1>1, <1>4
<1>6. E[n + 1] = Edited(E[n], x)
  BY <1>1, <1>4
<1> HIDE DEF n
<1>7. Documents(E)'
  <2>1. E[0] = InitialText
    BY <1>1, <1>3, <1>5 DEF Documents
  <2>2. ASSUME NEW k \in 0..Len(agreed') - 1
        PROVE  E[k + 1] = Edited(E[k], agreed'[k + 1])
    <3>1. k \in 0..n
      BY <1>1
    <3>2. CASE k = n
      BY <1>1, <1>6, <3>2
    <3>3. CASE k # n
      <4>1. /\ k \in 0..n - 1 /\ k + 1 \in 1..n /\ E[k + 1] = D[k + 1] /\ E[k] = D[k]
        BY <1>1, <1>5, <3>1, <3>3
      <4>2. D[k + 1] = Edited(D[k], agreed[k + 1])
        BY <1>3, <4>1 DEF Documents, n
      <4> QED
        BY <1>1, <4>1, <4>2
    <3> QED
      BY <3>1, <3>2, <3>3
  <2> QED
    BY <2>1, <2>2 DEF Documents
<1>8. \A j \in Node : document'[j] = E[last_commit'[j]]
  <2> SUFFICES ASSUME NEW j \in Node PROVE document'[j] = E[last_commit'[j]]
    OBVIOUS
  <2>1. last_commit[j] \in 0..n
    BY <1>1 DEF LogInv, n
  <2> QED
    BY <1>3, <1>5, <2>1
<1>9. DOMAIN document' = Node
  BY DEF DocumentInv
<1>10. DocumentInv'
  BY <1>7, <1>8, <1>9 DEF DocumentInv
<1> QED
  BY <1>2, <1>10

LEMMA NextDocuments == LogInv /\ DocumentInv /\ [Next]_vars => LogInv' /\ DocumentInv'
<1> SUFFICES ASSUME LogInv, DocumentInv, [Next]_vars PROVE LogInv' /\ DocumentInv'
  OBVIOUS
<1>1. ASSUME UNCHANGED <<document, last_commit, commit_index, agreed>>
      PROVE  LogInv' /\ DocumentInv'
  <2>1. /\ commit_index' \in [Node -> Nat]
        /\ \A i \in Node : commit_index[i] <= commit_index'[i] /\ commit_index'[i] <= Len(agreed)
    BY <1>1 DEF LogInv
  <2> QED
    BY <1>1, <2>1, NothingApplied
<1>2. CASE UNCHANGED vars
  BY <1>1, <1>2 DEF vars, mainVars, logVars
<1>3. ASSUME NEW i \in Node, Type(i) \/ Join(i) \/ Retry(i) \/ ApplyOperation(i) \/ Bridge(i)
      PROVE  LogInv' /\ DocumentInv'
  BY <1>1, <1>3 DEF Type, Insert, DeleteBackward, DeleteForward, SendOp, SelectionChange, Join,
                    Retry, ApplyOperation, Bridge, Connect, Refused, Reconnect, Forward, Deliver,
                    mainVars, logVars
<1>4. ASSUME NEW i \in Node,
             \/ StartServer(i) \/ ClientLoop(i) \/ SendFullDocument(i) \/ Die(i)
             \/ BroadcastEntry(i) \/ Drop(i)
      PROVE  LogInv' /\ DocumentInv'
  BY <1>1, <1>4 DEF StartServer, ClientLoop, SendFullDocument, Die, BroadcastEntry, Drop,
                    mainVars, logVars
<1>5. ASSUME NEW i \in Node, RunPass(i) PROVE LogInv' /\ DocumentInv'
  <2>1. PICK n \in commit_index[i] .. Len(agreed) : commit_index' = [commit_index EXCEPT ![i] = n]
    BY <1>5 DEF RunPass
  <2>2. UNCHANGED <<document, last_commit, agreed>>
    BY <1>5 DEF RunPass
  <2>3. Len(agreed) \in Nat /\ commit_index \in [Node -> Nat]
        /\ \A j \in Node : commit_index[j] <= Len(agreed)
    BY AppendToList DEF LogInv
  <2>4. /\ commit_index' \in [Node -> Nat]
        /\ \A j \in Node : commit_index[j] <= commit_index'[j] /\ commit_index'[j] <= Len(agreed)
    BY <2>1, <2>3
  <2> QED
    BY <2>2, <2>4, NothingApplied
<1>6. ASSUME NEW i \in Node, Agree(i) PROVE LogInv' /\ DocumentInv'
  <2>1. PICK x : agreed' = Append(agreed, x)
    BY <1>6 DEF Agree
  <2>2. UNCHANGED <<document, last_commit, commit_index>>
    BY <1>6 DEF Agree, mainVars
  <2> QED
    BY <2>1, <2>2, EntryAgreed
<1> QED
  BY <1>2, <1>3, <1>4, <1>5, <1>6, EntryApplied DEF Next, Replica

\* Replicas that have applied as many entries have the same document, though
\* each applies them in passes of its own, and whatever the entries say
\* (apply_to_document, the main loop of paxos_node_main.cpp).
THEOREM ReplicasAgree == Spec => []DocumentsAgree
<1>1. Init => LogInv /\ DocumentInv
  <2> SUFFICES ASSUME Init PROVE LogInv /\ DocumentInv
    OBVIOUS
  <2>1. agreed = <<>> /\ IsList(agreed) /\ Len(agreed) = 0
    <3>1. agreed \in Seq({})
      BY DEF Init
    <3> QED
      BY <3>1 DEF Init, IsList
  <2>2. LogInv
    BY <2>1 DEF Init, LogInv
  <2>3. Documents([n \in {0} |-> InitialText])
    BY <2>1 DEF Documents
  <2>4. DocumentInv
    BY <2>3 DEF Init, DocumentInv
  <2> QED
    BY <2>2, <2>4
<1>2. DocumentInv => DocumentsAgree
  BY DEF DocumentInv, DocumentsAgree
<1> QED
  BY <1>1, <1>2, NextDocuments, PTL DEF Spec

-----------------------------------------------------------------------------
(* Edits, lines and pages, and where the edits are.                        *)

\* The folds of the model, each as an instance of Folding.
ShownFold  == INSTANCE Folding WITH Op <- Shown
EditedFold == INSTANCE Folding WITH Op <- LAMBDA c, v, e : PageEdited(v, e)
FirstFold  == INSTANCE Folding WITH Op <- LAMBDA c, r, e : IF e \in Range(r) THEN r ELSE Append(r, e)

\* Edits at any position, full texts, and what is written to a replica or a page.
AnyEdit == [type : {"INSERT"}, key : Key, pos : Int, text : Char]
      \cup [type : {"DELETE"}, key : Key, pos : Int, len : {1}]
FullLine == [type : {"FULL"}, text : Seq(Char)]
Line == AnyEdit \cup FullLine
Written == AnyEdit \cup {Fetch}
AnyPage == [value : Seq(Char), cursor : Int, seen : SUBSET Key, pending : SUBSET AnyEdit,
            loaded : BOOLEAN]

\* The state has the shape of the declarations; positions are any numbers.
Types ==
  /\ server \in [Node -> {"starting", "running", "dead"}]
  /\ document \in [Node -> Seq(Char)]
  /\ input_queue \in [Node -> Seq(AnyEdit)]
  /\ submitted \in [Node -> Seq(AnyEdit)]
  /\ agreed \in Seq(AnyEdit)
  /\ unsent \in [Node -> Seq(AnyEdit)]
  /\ reply \in [Node -> Seq(FullLine)]
  /\ tcp \in [Node -> {"connecting", "connected", "closed"}]
  /\ to_server \in [Node -> Seq(Written)]
  /\ to_bridge \in [Node -> Seq(Line)]
  /\ joined \in [Node -> BOOLEAN]
  /\ to_ws \in [Node -> Seq(AnyEdit)]
  /\ to_page \in [Node -> Seq(Line)]
  /\ page \in [Node -> AnyPage]
  /\ requestId \in [Node -> 0..MaxEdits]

\* The edits of page i on their way to the log; those and the ones in it.
EditsOf(i) ==
  page[i].pending \cup ((Range(to_ws[i]) \cup Range(to_server[i])
                           \cup Range(input_queue[i]) \cup Range(submitted[i])) \ {Fetch})
Around == {e \in AnyEdit : e \in Range(agreed) \/ \E i \in Node : e \in EditsOf(i)}

\* An edit has a key of its own, given out by its page.
KeyInv ==
  /\ \A e, f \in Around : e.key = f.key => e = f
  /\ \A e \in Around : e.key[2] < requestId[e.key[1]]
  /\ \A i \in Node : \A e \in EditsOf(i) : e.key[1] = i

\* What is on its way to the page, what its replica has applied, and the keys there.
InFlight(i) == to_page[i] \o to_bridge[i] \o unsent[i]
Applied(i) == SubSeq(agreed, 1, last_commit[i])
KeysOf(q) == {e.key : e \in Range(q)}

-----------------------------------------------------------------------------
(* The shapes of texts and pages.                                          *)

\* The document the replicas load is a text.
LEMMA CharTexts == InitialText \in Seq(Char)
<1>1. \A k \in 1..InitialLength : <<0, k>> \in Char
  BY EditorBoundAssumption DEF Char, MaxOf
<1> QED
  BY <1>1, EditorBoundAssumption DEF InitialText

\* A part of a sequence is one over the same elements.
LEMMA SubSeqIn ==
  ASSUME NEW S, NEW v \in Seq(S), NEW a \in Int, NEW b \in Int, a >= 1, b <= Len(v)
  PROVE  SubSeq(v, a, b) \in Seq(S)
<1>1. Len(v) \in Nat /\ \A k \in 1..Len(v) : v[k] \in S
  OBVIOUS
<1>2. CASE a > b
  BY <1>2
<1>3. CASE a <= b
  BY <1>1, <1>3
<1> QED
  BY <1>2, <1>3

\* The elements of a sequence with one more.
LEMMA RangeOfAppend ==
  ASSUME NEW S, NEW q \in Seq(S), NEW e \in S
  PROVE  Append(q, e) \in Seq(S) /\ Range(Append(q, e)) = Range(q) \cup {e}
<1> DEFINE n == Len(q)
<1>1. n \in Nat /\ DOMAIN q = 1..n /\ DOMAIN Append(q, e) = 1..n + 1 /\ Append(q, e) \in Seq(S)
  OBVIOUS
<1>2. Append(q, e)[n + 1] = e /\ \A k \in 1..n : Append(q, e)[k] = q[k]
  OBVIOUS
<1>3. 1..n + 1 = (1..n) \cup {n + 1}
  BY <1>1
<1> HIDE DEF n
<1> QED
  BY <1>1, <1>2, <1>3 DEF Range

\* Where JavaScript's slice cuts a text, and what it leaves.
LEMMA ClippedType ==
  ASSUME NEW v \in Seq(Char), NEW k \in Int
  PROVE  /\ Clipped(v, k) \in 0..Len(v)
         /\ Upto(v, k) \in Seq(Char) /\ Onward(v, k) \in Seq(Char)
<1>1. Len(v) \in Nat
  OBVIOUS
<1>2. Clipped(v, k) \in 0..Len(v)
  BY <1>1 DEF Clipped, MaxOf, MinOf
<1> DEFINE c == Clipped(v, k)
<1>3. c \in Int /\ c <= Len(v) /\ c + 1 >= 1 /\ c + 1 \in Int
  BY <1>1, <1>2
<1> HIDE DEF c
<1>4. SubSeq(v, 1, c) \in Seq(Char) /\ SubSeq(v, c + 1, Len(v)) \in Seq(Char)
  BY <1>1, <1>3, SubSeqIn
<1> QED
  BY <1>2, <1>4 DEF Upto, Onward, c

\* The fields of an edit.
LEMMA EditFields ==
  ASSUME NEW e \in AnyEdit
  PROVE  /\ e.type \in {"INSERT", "DELETE"} /\ e.key \in Key /\ e.pos \in Int
         /\ e.type = "INSERT" => e.text \in Char
         /\ e.type = "DELETE" => e.len = 1
         /\ e # Fetch /\ e \notin FullLine /\ e.type # "FULL"
BY DEF AnyEdit, Fetch, FullLine

\* What a page does with its text.
LEMMA PageEditedType ==
  ASSUME NEW v \in Seq(Char), NEW e \in AnyEdit
  PROVE  PageEdited(v, e) \in Seq(Char)
<1>1. CASE e.type = "INSERT"
  <2>1. e.pos \in Int /\ e.text \in Char
    BY <1>1, EditFields
  <2>2. Upto(v, e.pos) \in Seq(Char) /\ Onward(v, e.pos) \in Seq(Char)
    BY <2>1, ClippedType
  <2>3. <<e.text>> \in Seq(Char)
    BY <2>1
  <2> QED
    BY <1>1, <2>2, <2>3 DEF PageEdited
<1>2. CASE e.type = "DELETE"
  <2>1. e.pos \in Int /\ e.pos + e.len \in Int
    BY <1>2, EditFields
  <2>2. Upto(v, e.pos) \in Seq(Char) /\ Onward(v, e.pos + e.len) \in Seq(Char)
    BY <2>1, ClippedType
  <2> QED
    BY <1>2, <2>2 DEF PageEdited
<1> QED
  BY <1>1, <1>2, EditFields

\* What a replica does with its document.
LEMMA EditedType ==
  ASSUME NEW v \in Seq(Char), NEW e \in AnyEdit, ~Throws(v, e)
  PROVE  Edited(v, e) \in Seq(Char)
<1>1. Len(v) \in Nat /\ e.pos \in Int
  BY EditFields
<1>2. CASE e.type = "INSERT"
  <2>1. e.pos \in 0..Len(v)
    BY <1>2 DEF Throws
  <2>2. /\ SubSeq(v, 1, e.pos) \in Seq(Char) /\ SubSeq(v, e.pos + 1, Len(v)) \in Seq(Char)
        /\ <<e.text>> \in Seq(Char)
    <3>1. e.pos <= Len(v) /\ e.pos + 1 >= 1 /\ e.pos + 1 \in Int
      BY <1>1, <2>1
    <3> QED
      BY <1>1, <1>2, <3>1, SubSeqIn, EditFields
  <2> QED
    BY <1>2, <2>2 DEF Edited
<1>3. CASE e.type = "DELETE" /\ e.pos \in 0..Len(v)
  <2>1. /\ e.pos <= Len(v) /\ MinOf(e.pos + e.len, Len(v)) \in Int
        /\ MinOf(e.pos + e.len, Len(v)) + 1 >= 1
    BY <1>1, <1>3, EditFields DEF MinOf
  <2> DEFINE b == MinOf(e.pos + e.len, Len(v)) + 1
  <2>2. b \in Int /\ b >= 1
    BY <2>1
  <2> HIDE DEF b
  <2>3. SubSeq(v, 1, e.pos) \in Seq(Char) /\ SubSeq(v, b, Len(v)) \in Seq(Char)
    BY <1>1, <2>1, <2>2, SubSeqIn
  <2> QED
    BY <1>3, <2>3 DEF Edited, b
<1>4. CASE e.type = "DELETE" /\ e.pos \notin 0..Len(v)
  BY <1>4 DEF Edited
<1> QED
  BY <1>2, <1>3, <1>4, EditFields

\* The page and the replica do the same with an edit behind the start of the text
\* that the replica survives.
LEMMA EditedAlike ==
  ASSUME NEW v \in Seq(Char), NEW e \in AnyEdit, e.pos >= 0, ~Throws(v, e)
  PROVE  Edited(v, e) = PageEdited(v, e)
<1>1. Len(v) \in Nat /\ e.pos \in Nat /\ v = SubSeq(v, 1, Len(v))
  BY EditFields
<1>2. CASE e.type = "INSERT"
  <2>1. e.pos \in 0..Len(v) /\ Clipped(v, e.pos) = e.pos
    BY <1>1, <1>2 DEF Throws, Clipped, MinOf
  <2> QED
    BY <1>2, <2>1 DEF Edited, PageEdited, Upto, Onward
<1>3. CASE e.type = "DELETE" /\ e.pos <= Len(v)
  <2>1. e.len = 1 /\ e.pos \in 0..Len(v)
    BY <1>1, <1>3, EditFields
  <2>2. Clipped(v, e.pos) = e.pos /\ Clipped(v, e.pos + e.len) = MinOf(e.pos + e.len, Len(v))
    BY <1>1, <1>3, <2>1 DEF Clipped, MinOf
  <2> QED
    BY <1>3, <2>1, <2>2 DEF Edited, PageEdited, Upto, Onward
<1>4. CASE e.type = "DELETE" /\ e.pos > Len(v)
  <2>1. e.len = 1 /\ e.pos \notin 0..Len(v)
    BY <1>1, <1>4, EditFields
  <2>2. Clipped(v, e.pos) = Len(v) /\ Clipped(v, e.pos + e.len) = Len(v)
    BY <1>1, <1>4, <2>1 DEF Clipped, MinOf
  <2>3. Edited(v, e) = v
    BY <1>4, <2>1 DEF Edited
  <2>4. PageEdited(v, e) = SubSeq(v, 1, Len(v)) \o SubSeq(v, Len(v) + 1, Len(v))
    BY <1>4, <2>2 DEF PageEdited, Upto, Onward
  <2>5. SubSeq(v, Len(v) + 1, Len(v)) = <<>>
    BY <1>1
  <2>6. v \o <<>> = v
    OBVIOUS
  <2> QED
    BY <1>1, <2>3, <2>4, <2>5, <2>6
<1> QED
  BY <1>1, <1>2, <1>3, <1>4, EditFields

\* The cursor stays a number.
LEMMA CursorType ==
  ASSUME NEW i, NEW c \in Int, NEW e \in AnyEdit
  PROVE  CursorAfter(i, c, e) \in Int
BY EditFields DEF CursorAfter, MinOf

\* The fields of a page.
LEMMA PageFields ==
  ASSUME NEW p \in AnyPage
  PROVE  /\ p.value \in Seq(Char) /\ p.cursor \in Int /\ p.seen \in SUBSET Key
         /\ p.pending \in SUBSET AnyEdit /\ p.loaded \in BOOLEAN
         /\ p = [value |-> p.value, cursor |-> p.cursor, seen |-> p.seen, pending |-> p.pending,
                 loaded |-> p.loaded]
BY DEF AnyPage

\* A page and a line of the replica, case by case.
LEMMA ShownFull ==
  ASSUME NEW i, NEW p \in AnyPage, NEW m \in FullLine
  PROVE  /\ Shown(i, p, m) \in AnyPage
         /\ Shown(i, p, m).value = m.text /\ Shown(i, p, m).seen = {}
         /\ Shown(i, p, m).loaded = TRUE
<1>1. m.type = "FULL" /\ m.text \in Seq(Char) /\ Len(m.text) \in Int
  BY DEF FullLine
<1>2. Shown(i, p, m) = [value |-> m.text, cursor |-> Len(m.text), seen |-> {}, pending |-> {},
                        loaded |-> TRUE]
  BY <1>1 DEF Shown
<1> QED
  BY <1>1, <1>2 DEF AnyPage

\* An edit is shown unless its key was seen.
LEMMA ShownEdit ==
  ASSUME NEW i, NEW p \in AnyPage, NEW m \in AnyEdit
  PROVE  /\ Shown(i, p, m) \in AnyPage
         /\ Shown(i, p, m).value = IF m.key \in p.seen THEN p.value ELSE PageEdited(p.value, m)
         /\ Shown(i, p, m).seen = p.seen \cup {m.key}
         /\ Shown(i, p, m).loaded = p.loaded
<1>1. m.type # "FULL" /\ m.key \in Key
  BY EditFields
<1>2. CASE m.key \in p.seen
  <2>1. Shown(i, p, m) = p
    BY <1>1, <1>2 DEF Shown
  <2> QED
    BY <1>2, <2>1
<1>3. CASE m.key \notin p.seen
  <2> DEFINE a == PageEdited(p.value, m)
             b == CursorAfter(i, p.cursor, m)
             c == p.seen \cup {m.key}
             d == p.pending \ {e \in p.pending : e.key = m.key}
             r == [p EXCEPT !.value = a, !.cursor = b, !.seen = c, !.pending = d]
  <2>1. Shown(i, p, m) = r
    BY <1>1, <1>3 DEF Shown
  <2>2. a \in Seq(Char) /\ b \in Int
    BY PageFields, PageEditedType, CursorType
  <2>3. c \in SUBSET Key /\ d \in SUBSET AnyEdit
    BY <1>1, PageFields
  <2>4. r \in AnyPage /\ r.value = a /\ r.seen = c /\ r.loaded = p.loaded
    <3> HIDE DEF a, b, c, d
    <3> QED
      BY <2>2, <2>3 DEF AnyPage
  <2> QED
    BY <1>3, <2>1, <2>4
<1> QED
  BY <1>2, <1>3

\* What a page becomes is a page.
LEMMA ShownType ==
  ASSUME NEW i, NEW p \in AnyPage, NEW m \in Line
  PROVE  Shown(i, p, m) \in AnyPage
BY ShownFull, ShownEdit DEF Line

-----------------------------------------------------------------------------
(* The folds of the properties are folds of their steps.                   *)

\* What a page becomes with all that is on its way to it.
LEMMA SettledFolds ==
  \A i \in Node : Settled(i) = ShownFold!Fold(i, page[i], InFlight(i))
BY DEF Settled, InFlight, ShownFold!Fold, ShownFold!FoldLeft, FoldLeft, ShownFold!MapThenFoldSet,
       MapThenFoldSet, ShownFold!Max, Max

\* The first occurrences.
LEMMA FirstFolds == \A q : FirstOccurrences(q) = FirstFold!Fold(0, <<>>, q)
BY DEF FirstOccurrences, FirstFold!Fold, FirstFold!FoldLeft, FoldLeft, FirstFold!MapThenFoldSet,
       MapThenFoldSet, FirstFold!Max, Max, FirstFold!Range, Range

\* The text that some edits make.
LEMMA EditedFolds ==
  \A q : FoldLeft(PageEdited, InitialText, q) = EditedFold!Fold(0, InitialText, q)
BY DEF EditedFold!Fold, EditedFold!FoldLeft, FoldLeft, EditedFold!MapThenFoldSet, MapThenFoldSet,
       EditedFold!Max, Max

\* A page sent any lines is a page.
LEMMA PageStays ==
  ASSUME NEW i, NEW p \in AnyPage, NEW q \in Seq(Line)
  PROVE  ShownFold!Fold(i, p, q) \in AnyPage
<1> DEFINE n == Len(q)  T == [k \in 0..n |-> AnyPage]
<1>1. n \in Nat /\ DOMAIN q = 1..n /\ p \in T[0]
  OBVIOUS
<1>2. ASSUME NEW k \in 1..n, NEW r \in T[k - 1] PROVE Shown(i, r, q[k]) \in T[k]
  <2>1. k - 1 \in 0..n /\ k \in 0..n /\ q[k] \in Line
    BY <1>1
  <2> QED
    BY <2>1, ShownType
<1>3. T[n] = AnyPage
  BY <1>1
<1> HIDE DEF n, T
<1> QED
  BY <1>1, <1>2, <1>3, ShownFold!FoldStaysIn

\* Edits do not load a page.
LEMMA EditsLoadNothing ==
  ASSUME NEW i, NEW p \in AnyPage, ~p.loaded, NEW q \in Seq(AnyEdit)
  PROVE  ~ShownFold!Fold(i, p, q).loaded
<1> DEFINE n == Len(q)  T == [k \in 0..n |-> {r \in AnyPage : ~r.loaded}]
<1>1. n \in Nat /\ DOMAIN q = 1..n /\ p \in T[0]
  OBVIOUS
<1>2. ASSUME NEW k \in 1..n, NEW r \in T[k - 1] PROVE Shown(i, r, q[k]) \in T[k]
  <2>1. k - 1 \in 0..n /\ k \in 0..n /\ q[k] \in AnyEdit
    BY <1>1
  <2>2. r \in AnyPage /\ ~r.loaded
    BY <2>1
  <2>3. \A m \in AnyEdit : Shown(i, r, m).loaded = r.loaded
    BY <2>2, ShownEdit
  <2>4. \A m \in AnyEdit : Shown(i, r, m) \in AnyPage
    BY <2>2, ShownEdit
  <2>5. Shown(i, r, q[k]) \in AnyPage /\ Shown(i, r, q[k]).loaded = FALSE
    BY <2>1, <2>2, <2>3, <2>4
  <2> QED
    BY <2>1, <2>5
<1>3. T[n] = {r \in AnyPage : ~r.loaded}
  BY <1>1
<1> HIDE DEF n, T
<1>4. ShownFold!Fold(i, p, q) \in T[n]
  BY <1>1, <1>2, ShownFold!FoldStaysIn
<1> QED
  BY <1>3, <1>4

\* What the user sees of a page, and whether the page will show an edit again.
Look(p) == <<p.value, p.seen, p.loaded>>

\* What a page shows next depends on what it shows, not on its cursor.
LEMMA ShownLook ==
  ASSUME NEW i, NEW p \in AnyPage, NEW r \in AnyPage, Look(p) = Look(r), NEW m \in Line
  PROVE  Look(Shown(i, p, m)) = Look(Shown(i, r, m))
<1>1. p.value = r.value /\ p.seen = r.seen /\ p.loaded = r.loaded
  BY DEF Look
<1>2. CASE m \in FullLine
  <2>1. \A s \in AnyPage : Shown(i, s, m).value = m.text /\ Shown(i, s, m).seen = {}
                              /\ Shown(i, s, m).loaded = TRUE
    BY <1>2, ShownFull, Zenon
  <2> QED
    BY <2>1 DEF Look
<1>3. CASE m \in AnyEdit
  <2>1. \A s \in AnyPage :
          Shown(i, s, m).value = IF m.key \in s.seen THEN s.value ELSE PageEdited(s.value, m)
    BY <1>3, ShownEdit
  <2>2. \A s \in AnyPage : Shown(i, s, m).seen = s.seen \cup {m.key}
    BY <1>3, ShownEdit
  <2>3. \A s \in AnyPage : Shown(i, s, m).loaded = s.loaded
    BY <1>3, ShownEdit
  <2>4. Shown(i, p, m).value = Shown(i, r, m).value /\ Shown(i, p, m).seen = Shown(i, r, m).seen
    BY <1>1, <2>1, <2>2
  <2>5. Shown(i, p, m).loaded = Shown(i, r, m).loaded
    BY <1>1, <2>3
  <2> QED
    BY <2>4, <2>5, Zenon DEF Look
<1> QED
  BY <1>2, <1>3 DEF Line

\* The cursor and what is pending make no difference to what is shown.
LEMMA LookKept ==
  ASSUME NEW i, NEW p \in AnyPage, NEW r \in AnyPage, Look(p) = Look(r), NEW q \in Seq(Line)
  PROVE  Look(ShownFold!Fold(i, p, q)) = Look(ShownFold!Fold(i, r, q))
<1> DEFINE n == Len(q)
<1>1. n \in Nat /\ DOMAIN q = 1..n /\ \A k \in 1..n : q[k] \in Line
  OBVIOUS
<1> HIDE DEF n
<1>2. PICK g : ShownFold!Runs(i, r, q, n, g) /\ ShownFold!Fold(i, r, q) = g[n]
  BY <1>1, ShownFold!FoldRuns
<1> DEFINE T == [k \in 0..n |-> {s \in AnyPage : g[k] \in AnyPage /\ Look(s) = Look(g[k])}]
<1>3. p \in T[0]
  <2>1. g[0] = r
    BY <1>2 DEF ShownFold!Runs
  <2> QED
    BY <1>1, <2>1
<1>4. ASSUME NEW k \in 1..n, NEW s \in T[k - 1] PROVE Shown(i, s, q[k]) \in T[k]
  <2>1. k - 1 \in 0..n /\ k \in 0..n /\ q[k] \in Line
    BY <1>1
  <2>2. s \in AnyPage /\ g[k - 1] \in AnyPage /\ Look(s) = Look(g[k - 1])
    BY <2>1
  <2>3. g[k] = Shown(i, g[k - 1], q[k])
    BY <1>2 DEF ShownFold!Runs
  <2>4. Shown(i, s, q[k]) \in AnyPage /\ g[k] \in AnyPage
    BY <2>1, <2>2, <2>3, ShownType
  <2>5. Look(Shown(i, s, q[k])) = Look(g[k])
    BY <2>1, <2>2, <2>3, ShownLook
  <2> QED
    BY <2>1, <2>4, <2>5
<1>5. T[n] = {s \in AnyPage : g[n] \in AnyPage /\ Look(s) = Look(g[n])}
  BY <1>1
<1> HIDE DEF T
<1>6. ShownFold!Fold(i, p, q) \in T[n]
  BY <1>1, <1>3, <1>4, ShownFold!FoldStaysIn
<1> QED
  BY <1>2, <1>5, <1>6

\* The first occurrences in the log are some of its entries, and all that occur.
LEMMA FirstType ==
  ASSUME NEW q \in Seq(AnyEdit)
  PROVE  FirstOccurrences(q) \in Seq(AnyEdit) /\ Range(FirstOccurrences(q)) = Range(q)
<1> DEFINE n == Len(q)
           T == [k \in 0..n |-> {r \in Seq(AnyEdit) : Range(r) = {q[m] : m \in 1..k}}]
<1>1. n \in Nat /\ DOMAIN q = 1..n /\ \A k \in 1..n : q[k] \in AnyEdit
  OBVIOUS
<1>2. <<>> \in T[0]
  <2>1. Range(<<>>) = {} /\ {q[m] : m \in 1..0} = {} /\ <<>> \in Seq(AnyEdit)
    BY DEF Range
  <2> QED
    BY <1>1, <2>1
<1>3. ASSUME NEW k \in 1..n, NEW r \in T[k - 1]
      PROVE  (IF q[k] \in Range(r) THEN r ELSE Append(r, q[k])) \in T[k]
  <2>1. k - 1 \in 0..n /\ k \in 0..n /\ q[k] \in AnyEdit
    BY <1>1
  <2>2. r \in Seq(AnyEdit) /\ Range(r) = {q[m] : m \in 1..k - 1}
    BY <2>1
  <2>3. {q[m] : m \in 1..k} = {q[m] : m \in 1..k - 1} \cup {q[k]}
    <3>1. 1..k = (1..k - 1) \cup {k}
      OBVIOUS
    <3> QED
      BY <3>1
  <2>4. CASE q[k] \in Range(r)
    <3>1. Range(r) = {q[m] : m \in 1..k}
      BY <2>2, <2>3, <2>4
    <3> QED
      BY <2>1, <2>2, <2>4, <3>1
  <2>5. CASE q[k] \notin Range(r)
    <3>1. Append(r, q[k]) \in Seq(AnyEdit) /\ Range(Append(r, q[k])) = Range(r) \cup {q[k]}
      BY <2>1, <2>2, RangeOfAppend
    <3> QED
      BY <2>1, <2>2, <2>3, <2>5, <3>1
  <2> QED
    BY <2>4, <2>5
<1>4. T[n] = {r \in Seq(AnyEdit) : Range(r) = Range(q)}
  <2>1. {q[m] : m \in 1..n} = Range(q)
    BY <1>1 DEF Range
  <2>2. T[n] = {r \in Seq(AnyEdit) : Range(r) = {q[m] : m \in 1..n}}
    BY <1>1
  <2> HIDE DEF n, T
  <2> QED
    BY <2>1, <2>2
<1> HIDE DEF n, T
<1>5. FirstFold!Fold(0, <<>>, q) \in T[n]
  <2>1. \A k \in 1..n : \A r \in T[k - 1] :
          (IF q[k] \in FirstFold!Range(r) THEN r ELSE Append(r, q[k])) \in T[k]
    BY <1>3 DEF FirstFold!Range, Range
  <2> QED
    BY <1>1, <1>2, <1>3, <2>1, FirstFold!FoldStaysIn
<1> QED
  BY <1>4, <1>5, FirstFolds

\* An entry that occurred makes no difference to the first occurrences.
LEMMA FirstAppend ==
  ASSUME NEW q \in Seq(AnyEdit), NEW e \in AnyEdit
  PROVE  FirstOccurrences(Append(q, e)) =
           IF e \in Range(q) THEN FirstOccurrences(q) ELSE Append(FirstOccurrences(q), e)
<1>1. FirstFold!Fold(0, <<>>, Append(q, e)) =
        IF e \in Range(FirstFold!Fold(0, <<>>, q)) THEN FirstFold!Fold(0, <<>>, q)
        ELSE Append(FirstFold!Fold(0, <<>>, q), e)
  BY FirstFold!FoldAppend DEF FirstFold!Range, Range
<1> QED
  BY <1>1, FirstFolds, FirstType

\* The last edit is applied to the text of those before it.
LEMMA EditedAppend ==
  ASSUME NEW q \in Seq(AnyEdit), NEW e \in AnyEdit
  PROVE  FoldLeft(PageEdited, InitialText, Append(q, e)) =
           PageEdited(FoldLeft(PageEdited, InitialText, q), e)
<1>1. EditedFold!Fold(0, InitialText, Append(q, e)) =
        PageEdited(EditedFold!Fold(0, InitialText, q), e)
  BY EditedFold!FoldAppend
<1> QED
  BY <1>1, EditedFolds

-----------------------------------------------------------------------------
(* Every step keeps the shape of the state.                                *)

\* What the client thread reads without a lock, torn or not, is a text.
LEMMA TextsTyped ==
  ASSUME Types, NEW i \in Node, NEW t \in ReadDocument(i), LogInv
  PROVE  Full(t) \in FullLine /\ Full(t) # Fetch
<1> DEFINE old == document[i]
           e == agreed[last_commit[i] + 1]
           new == IF last_commit[i] < commit_index[i] /\ unsent[i] = <<>> /\ ~Throws(old, e)
                    THEN Edited(old, e) ELSE old
<1>1. old \in Seq(Char)
  BY DEF Types
<1>2. new \in Seq(Char)
  <2>1. CASE last_commit[i] < commit_index[i] /\ ~Throws(old, e)
    <3>1. last_commit[i] + 1 \in 1..Len(agreed)
      BY <2>1, AppendToList DEF LogInv
    <3>2. e \in AnyEdit
      BY <3>1 DEF Types
    <3> HIDE DEF e, old
    <3> QED
      BY <1>1, <2>1, <3>2, EditedType
  <2> QED
    BY <1>1, <2>1
<1>3. t \in UNION {{u \in [1..n -> Range(old) \cup Range(new)] :
                      \A k \in 1..n : \/ k <= Len(old) /\ u[k] = old[k]
                                      \/ k <= Len(new) /\ u[k] = new[k]} :
                   n \in {Len(old), Len(new)}}
  BY DEF ReadDocument
<1> HIDE DEF new, e, old
<1>4. PICK n \in {Len(old), Len(new)} : t \in [1..n -> Range(old) \cup Range(new)]
  BY <1>3
<1>5. Range(old) \subseteq Char /\ Range(new) \subseteq Char /\ n \in Nat
  BY <1>1, <1>2 DEF Range
<1>6. t \in Seq(Char)
  <2>1. t \in [1..n -> Char]
    BY <1>4, <1>5
  <2> QED
    BY <1>5, <2>1
<1> QED
  BY <1>6 DEF Full, FullLine, Fetch

\* A line taken from the front of a list, and the rest.
LEMMA TailTyped ==
  ASSUME NEW S, NEW q \in Seq(S), q # <<>>
  PROVE  /\ Tail(q) \in Seq(S) /\ Head(q) \in S /\ q = <<Head(q)>> \o Tail(q)
         /\ Range(q) = {Head(q)} \cup Range(Tail(q))
<1>1. Tail(q) \in Seq(S) /\ Head(q) \in S /\ q = <<Head(q)>> \o Tail(q)
  OBVIOUS
<1>2. Range(q) = {Head(q)} \cup Range(Tail(q))
  <2> DEFINE n == Len(q)
  <2>1. n \in Nat /\ n >= 1 /\ DOMAIN q = 1..n /\ DOMAIN Tail(q) = 1..n - 1
    OBVIOUS
  <2>2. q[1] = Head(q) /\ \A k \in 1..n - 1 : Tail(q)[k] = q[k + 1]
    OBVIOUS
  <2> HIDE DEF n
  <2>3. \A k \in 1..n : k = 1 \/ (k - 1 \in 1..n - 1 /\ (k - 1) + 1 = k)
    BY <2>1
  <2>4. \A k \in 1..n - 1 : k + 1 \in 1..n
    BY <2>1
  <2>5. Range(q) \subseteq {Head(q)} \cup Range(Tail(q))
    <3> SUFFICES ASSUME NEW k \in 1..n PROVE q[k] \in {Head(q)} \cup Range(Tail(q))
      BY <2>1 DEF Range
    <3>1. CASE k = 1
      BY <2>2, <3>1
    <3>2. CASE k # 1
      <4>1. k - 1 \in 1..n - 1 /\ Tail(q)[k - 1] = q[k]
        BY <2>2, <2>3, <3>2
      <4> QED
        BY <2>1, <4>1 DEF Range
    <3> QED
      BY <3>1, <3>2
  <2>6. {Head(q)} \cup Range(Tail(q)) \subseteq Range(q)
    BY <2>1, <2>2, <2>4 DEF Range
  <2> QED
    BY <2>5, <2>6
<1> QED
  BY <1>1, <1>2

\* A command taken from the middle of a list.
LEMMA RemovedTyped ==
  ASSUME NEW S, NEW q \in Seq(S), NEW k \in DOMAIN q
  PROVE  /\ RemoveAt(q, k) \in Seq(S) /\ q[k] \in S
         /\ Range(RemoveAt(q, k)) \subseteq Range(q)
<1> DEFINE n == Len(q)  a == SubSeq(q, 1, k - 1)  b == SubSeq(q, k + 1, n)
<1>1. n \in Nat /\ k \in 1..n /\ DOMAIN q = 1..n
  OBVIOUS
<1>2. /\ a \in Seq(S) /\ Len(a) = k - 1 /\ \A m \in 1..k - 1 : a[m] = q[m]
      /\ b \in Seq(S) /\ Len(b) = n - k /\ \A m \in 1..n - k : b[m] = q[k + m]
  <2>1. k - 1 <= n /\ k + 1 >= 1 /\ n <= n
    BY <1>1
  <2>2. a \in Seq(S) /\ b \in Seq(S)
    BY <1>1, <2>1, SubSeqIn
  <2>3. Len(a) = k - 1 /\ \A m \in 1..k - 1 : a[m] = q[m]
    BY <1>1
  <2>4. Len(b) = n - k /\ \A m \in 1..n - k : b[m] = q[k + m]
    BY <1>1
  <2> QED
    BY <2>2, <2>3, <2>4
<1>3. RemoveAt(q, k) = a \o b
  BY DEF RemoveAt
<1> HIDE DEF a, b, n
<1>4. a \o b \in Seq(S) /\ Len(a \o b) = n - 1
  <2>1. a \in Seq(S) /\ b \in Seq(S)
    BY <1>2
  <2>2. a \o b \in Seq(S) /\ Len(a \o b) = Len(a) + Len(b)
    BY <2>1, ConcatProperties
  <2>3. (k - 1) + (n - k) = n - 1
    BY <1>1
  <2> QED
    BY <1>2, <2>2, <2>3
<1>5. \A m \in 1..n - 1 : (a \o b)[m] = IF m <= k - 1 THEN a[m] ELSE b[m - (k - 1)]
  <2>1. \A m \in 1..Len(a) + Len(b) : (a \o b)[m] = IF m <= Len(a) THEN a[m] ELSE b[m - Len(a)]
    BY <1>2
  <2>2. (k - 1) + (n - k) = n - 1
    BY <1>1
  <2> QED
    BY <1>2, <2>1, <2>2
<1>6. \A m \in 1..n : q[m] \in Range(q)
  BY <1>1 DEF Range
<1>7. ASSUME NEW m \in 1..n - 1 PROVE (a \o b)[m] \in Range(q)
  <2>1. CASE m <= k - 1
    <3>1. (a \o b)[m] = q[m] /\ m \in 1..n
      BY <1>1, <1>2, <1>5, <2>1
    <3> QED
      BY <1>6, <3>1
  <2>2. CASE m > k - 1
    <3>1. m - (k - 1) \in 1..n - k /\ k + (m - (k - 1)) \in 1..n
      BY <1>1, <2>2
    <3>2. (a \o b)[m] = q[k + (m - (k - 1))]
      BY <1>1, <1>2, <1>5, <2>2, <3>1
    <3> QED
      BY <1>6, <3>1, <3>2
  <2>3. m \in Int /\ k \in Int /\ (m <= k - 1 \/ m > k - 1)
    BY <1>1
  <2> QED
    BY <2>1, <2>2, <2>3
<1>8. DOMAIN (a \o b) = 1..n - 1
  BY <1>4
<1>9. Range(a \o b) \subseteq Range(q)
  BY <1>7, <1>8 DEF Range
<1>10. q[k] \in S
  BY <1>1
<1> QED
  BY <1>3, <1>4, <1>9, <1>10

\* The elements of two lists in a row.
LEMMA RangeOfConcat ==
  ASSUME NEW S, NEW q \in Seq(S), NEW r \in Seq(S)
  PROVE  q \o r \in Seq(S) /\ Range(q \o r) = Range(q) \cup Range(r)
<1> DEFINE m == Len(q)  n == Len(r)
<1>1. m \in Nat /\ n \in Nat /\ DOMAIN q = 1..m /\ DOMAIN r = 1..n /\ DOMAIN (q \o r) = 1..m + n
  OBVIOUS
<1>2. /\ \A k \in 1..m : (q \o r)[k] = q[k]
      /\ \A k \in 1..n : (q \o r)[m + k] = r[k]
  OBVIOUS
<1>3. q \o r \in Seq(S)
  OBVIOUS
<1> HIDE DEF m, n
<1>4. \A k \in 1..m + n : k \in 1..m \/ (k - m \in 1..n /\ m + (k - m) = k)
  BY <1>1
<1>5. (\A k \in 1..m : k \in 1..m + n) /\ (\A k \in 1..n : m + k \in 1..m + n)
  BY <1>1
<1>6. Range(q \o r) \subseteq Range(q) \cup Range(r)
  <2> SUFFICES ASSUME NEW k \in 1..m + n PROVE (q \o r)[k] \in Range(q) \cup Range(r)
    BY <1>1 DEF Range
  <2>1. CASE k \in 1..m
    BY <1>1, <1>2, <2>1 DEF Range
  <2>2. CASE k - m \in 1..n /\ m + (k - m) = k
    <3>1. (q \o r)[k] = r[k - m]
      BY <1>2, <2>2
    <3> QED
      BY <1>1, <2>2, <3>1 DEF Range
  <2> QED
    BY <1>4, <2>1, <2>2
<1>7. Range(q) \cup Range(r) \subseteq Range(q \o r)
  <2>1. \A k \in 1..m : q[k] \in Range(q \o r)
    BY <1>1, <1>2, <1>5 DEF Range
  <2>2. \A k \in 1..n : r[k] \in Range(q \o r)
    BY <1>1, <1>2, <1>5 DEF Range
  <2> QED
    BY <1>1, <2>1, <2>2 DEF Range
<1> QED
  BY <1>3, <1>6, <1>7

\* What typing does: an edit with the next key of the page, on its way if the
\* websocket is open.
Typed(i, e, c) ==
  /\ e \in AnyEdit /\ c \in Int /\ e.key = <<i, requestId[i]>>
  /\ requestId[i] < MaxEdits
  /\ requestId' = [requestId EXCEPT ![i] = @ + 1]
  /\ \E r \in AnyPage :
       /\ page' = [page EXCEPT ![i] = r]
       /\ Look(r) = Look(page[i]) /\ r.pending = page[i].pending \cup {e} /\ r.cursor = c
  /\ "delete" \notin Keys /\ page[i].cursor >= 0 => e.pos >= 0 /\ c >= 0
  /\ to_ws' = IF joined[i] THEN [to_ws EXCEPT ![i] = Append(@, e)] ELSE to_ws
  /\ copies' = IF joined[i] THEN [copies EXCEPT ![e.key] = 1] ELSE copies
  /\ UNCHANGED <<mainVars, queueVars, logVars, bridgeVars, joined, to_page>>

\* The three keys that edit do what Typed says.
LEMMA Typing ==
  ASSUME Types, NEW i \in Node, Insert(i) \/ DeleteBackward(i) \/ DeleteForward(i)
  PROVE  \E e, c : Typed(i, e, c)
<1>1. page[i].cursor \in Int /\ requestId[i] \in Nat
  BY PageFields, EditorBoundAssumption DEF Types
<1>2. requestId[i] < MaxEdits => <<i, requestId[i]>> \in Key /\ <<i, requestId[i]>> \in Char
  BY <1>1, EditorBoundAssumption DEF Key, Char, MaxOf
<1>3. ASSUME NEW e \in AnyEdit, NEW c \in Int, e.key = <<i, requestId[i]>>, SendOp(i, e, c),
             "delete" \notin Keys /\ page[i].cursor >= 0 => e.pos >= 0 /\ c >= 0
      PROVE  Typed(i, e, c)
  <2> DEFINE d == page[i].pending \cup {e}
             r == [page[i] EXCEPT !.cursor = c, !.pending = d]
  <2>1. page' = [page EXCEPT ![i] = r]
    BY <1>3 DEF SendOp, Types
  <2>2. page[i] \in AnyPage /\ d \in SUBSET AnyEdit
    BY <1>3, PageFields DEF Types
  <2>3. r \in AnyPage
    <3> HIDE DEF d
    <3> QED
      BY <1>3, <2>2 DEF AnyPage
  <2>4. /\ r.value = page[i].value /\ r.seen = page[i].seen /\ r.pending = d
        /\ r.cursor = c
    <3> HIDE DEF d
    <3> QED
      BY <1>3, <2>2 DEF AnyPage
  <2>5. r.loaded = page[i].loaded
    <3> HIDE DEF d
    <3> QED
      BY <1>3, <2>2 DEF AnyPage
  <2> HIDE DEF r
  <2>6. Look(r) = Look(page[i])
    BY <2>4, <2>5, Zenon DEF Look
  <2> QED
    BY <1>3, <2>1, <2>3, <2>4, <2>6 DEF SendOp, Typed
<1>4. CASE Insert(i)
  <2> DEFINE e == [type |-> "INSERT", key |-> <<i, requestId[i]>>, pos |-> page[i].cursor,
                   text |-> <<i, requestId[i]>>]
  <2>1. SendOp(i, e, page[i].cursor + 1) /\ requestId[i] < MaxEdits
    BY <1>4 DEF Insert, SendOp
  <2>2. e \in AnyEdit /\ page[i].cursor + 1 \in Int /\ e.key = <<i, requestId[i]>>
    BY <1>1, <1>2, <2>1 DEF AnyEdit
  <2>3. page[i].cursor >= 0 => e.pos >= 0 /\ page[i].cursor + 1 >= 0
    BY <1>1
  <2> HIDE DEF e
  <2> QED
    BY <1>3, <2>1, <2>2, <2>3
<1>5. CASE DeleteBackward(i) \/ DeleteForward(i)
  <2> DEFINE e(k) == [type |-> "DELETE", key |-> <<i, requestId[i]>>, pos |-> k, len |-> 1]
  <2>1. PICK k \in {page[i].cursor, page[i].cursor - 1} :
          /\ SendOp(i, e(k), page[i].cursor - 1)
          /\ "delete" \notin Keys => page[i].cursor > 0
    BY <1>5 DEF DeleteBackward, DeleteForward
  <2>2. requestId[i] < MaxEdits
    BY <2>1 DEF SendOp
  <2>3. e(k) \in AnyEdit /\ page[i].cursor - 1 \in Int /\ e(k).key = <<i, requestId[i]>>
    BY <1>1, <1>2, <2>2 DEF AnyEdit
  <2>4. "delete" \notin Keys => e(k).pos >= 0 /\ page[i].cursor - 1 >= 0
    BY <1>1, <2>1
  <2> HIDE DEF e
  <2> QED
    BY <1>3, <2>1, <2>3, <2>4
<1> QED
  BY <1>4, <1>5

\* Moving the cursor changes nothing else of the page.
LEMMA PageMoved ==
  ASSUME NEW p \in AnyPage, NEW c \in Int
  PROVE  LET r == [p EXCEPT !.cursor = c]
         IN  r \in AnyPage /\ Look(r) = Look(p) /\ r.pending = p.pending /\ r.loaded = p.loaded
<1> DEFINE r == [p EXCEPT !.cursor = c]
<1>1. r \in AnyPage
  BY DEF AnyPage
<1>2. r.value = p.value /\ r.seen = p.seen /\ r.pending = p.pending
  BY DEF AnyPage
<1>3. r.loaded = p.loaded
  BY DEF AnyPage
<1> HIDE DEF r
<1>4. Look(r) = Look(p)
  BY <1>2, <1>3, Zenon DEF Look
<1> QED
  BY <1>1, <1>2, <1>3, <1>4 DEF r

\* Typing keeps the shape of the state.
LEMMA TypesTyping ==
  ASSUME Types, NEW i \in Node, NEW e, NEW c, Typed(i, e, c) PROVE Types'
<1>1. e \in AnyEdit /\ c \in Int /\ requestId' = [requestId EXCEPT ![i] = @ + 1]
      /\ requestId[i] < MaxEdits
  BY DEF Typed
<1>2. PICK r \in AnyPage : page' = [page EXCEPT ![i] = r]
  BY DEF Typed
<1>3. page' \in [Node -> AnyPage] /\ requestId' \in [Node -> 0..MaxEdits]
  BY <1>1, <1>2, EditorBoundAssumption DEF Types
<1>4. to_ws' \in [Node -> Seq(AnyEdit)]
  BY <1>1 DEF Typed, Types
<1> QED
  BY <1>3, <1>4 DEF Typed, Types, mainVars, queueVars, logVars, bridgeVars

\* So do the page's other steps.
LEMMA TypesPage ==
  ASSUME Types, NEW i \in Node,
         SelectionChange(i) \/ ApplyOperation(i) \/ Retry(i) \/ Join(i)
  PROVE  Types'
<1>1. CASE SelectionChange(i)
  <2>1. PICK k \in 0..Len(page[i].value) : page' = [page EXCEPT ![i].cursor = k]
    BY <1>1 DEF SelectionChange
  <2>2. page[i] \in AnyPage /\ k \in Int
    BY PageFields DEF Types
  <2>3. page' \in [Node -> AnyPage]
    BY <2>1, <2>2, PageMoved DEF Types
  <2> QED
    BY <1>1, <2>3 DEF SelectionChange, Types, mainVars, queueVars, logVars, bridgeVars, socketVars
<1>2. CASE ApplyOperation(i)
  <2>1. /\ to_page[i] # <<>> /\ page' = [page EXCEPT ![i] = Shown(i, page[i], Head(to_page[i]))]
        /\ to_page' = [to_page EXCEPT ![i] = Tail(@)]
    BY <1>2 DEF ApplyOperation
  <2>2. Head(to_page[i]) \in Line /\ Tail(to_page[i]) \in Seq(Line) /\ page[i] \in AnyPage
    BY <2>1, TailTyped DEF Types
  <2>3. Shown(i, page[i], Head(to_page[i])) \in AnyPage
    BY <2>2, ShownType
  <2>4. page' \in [Node -> AnyPage] /\ to_page' \in [Node -> Seq(Line)]
    BY <2>1, <2>2, <2>3 DEF Types
  <2> QED
    BY <1>2, <2>4 DEF ApplyOperation, Types, mainVars, queueVars, logVars, bridgeVars
<1>3. CASE Retry(i)
  <2>1. PICK e \in page[i].pending : to_ws' = [to_ws EXCEPT ![i] = Append(@, e)]
    BY <1>3 DEF Retry
  <2>2. e \in AnyEdit
    BY <2>1, PageFields DEF Types
  <2>3. to_ws' \in [Node -> Seq(AnyEdit)]
    BY <2>1, <2>2 DEF Types
  <2> QED
    BY <1>3, <2>3 DEF Retry, Types, mainVars, queueVars, logVars, bridgeVars, pageVars
<1>4. CASE Join(i)
  <2>1. joined' \in [Node -> BOOLEAN]
    BY <1>4 DEF Join, Types
  <2>2. to_server' \in [Node -> Seq(Written)]
    <3>1. \A q \in Seq(Written) : Append(q, Fetch) \in Seq(Written)
      BY DEF Written
    <3> QED
      BY <1>4, <3>1 DEF Join, Types
  <2> QED
    BY <1>4, <2>1, <2>2 DEF Join, Types, mainVars, queueVars, logVars, pageVars
<1> QED
  BY <1>1, <1>2, <1>3, <1>4

\* So do the bridge's.
LEMMA TypesBridge ==
  ASSUME Types, NEW i \in Node, Bridge(i)
  PROVE  Types'
<1>1. CASE Connect(i) \/ Reconnect(i)
  BY <1>1 DEF Connect, Reconnect, Types, mainVars, queueVars, logVars, socketVars, pageVars
<1>2. CASE Refused(i)
  <2>1. to_server' \in [Node -> Seq(Written)]
    BY <1>2 DEF Refused, Types
  <2> QED
    BY <1>2, <2>1 DEF Refused, Types, mainVars, queueVars, logVars, socketVars, pageVars
<1>3. CASE Forward(i)
  <2>1. to_ws[i] # <<>> /\ to_ws' = [to_ws EXCEPT ![i] = Tail(@)]
    BY <1>3 DEF Forward
  <2>2. Head(to_ws[i]) \in AnyEdit /\ Tail(to_ws[i]) \in Seq(AnyEdit)
    BY <2>1, TailTyped DEF Types
  <2>3. to_ws' \in [Node -> Seq(AnyEdit)]
    BY <2>1, <2>2 DEF Types
  <2>4. to_server' \in [Node -> Seq(Written)]
    <3>1. Head(to_ws[i]) \in Written
      BY <2>2 DEF Written
    <3>2. Append(to_server[i], Head(to_ws[i])) \in Seq(Written)
      BY <3>1 DEF Types
    <3> QED
      BY <1>3, <3>2 DEF Forward, Types
  <2> QED
    BY <1>3, <2>3, <2>4 DEF Forward, Types, mainVars, queueVars, logVars, pageVars
<1>4. CASE Deliver(i)
  <2>1. to_bridge[i] # <<>> /\ to_bridge' = [to_bridge EXCEPT ![i] = Tail(@)]
    BY <1>4 DEF Deliver
  <2>2. Head(to_bridge[i]) \in Line /\ Tail(to_bridge[i]) \in Seq(Line)
    BY <2>1, TailTyped DEF Types
  <2>3. to_bridge' \in [Node -> Seq(Line)] /\ to_page' \in [Node -> Seq(Line)]
    BY <1>4, <2>1, <2>2 DEF Deliver, Types
  <2> QED
    BY <1>4, <2>3 DEF Deliver, Types, mainVars, queueVars, logVars, pageVars
<1> QED
  BY <1>1, <1>2, <1>3, <1>4 DEF Bridge

\* So do the replica's.
LEMMA TypesReplica ==
  ASSUME Types, LogInv, NEW i \in Node, Replica(i)
  PROVE  Types'
<1>1. CASE StartServer(i)
  BY <1>1 DEF StartServer, Types, queueVars, logVars, bridgeVars, socketVars, pageVars
<1>2. CASE ClientLoop(i)
  <2>1. to_server[i] # <<>> /\ to_server' = [to_server EXCEPT ![i] = Tail(@)]
    BY <1>2 DEF ClientLoop
  <2>2. Head(to_server[i]) \in Written /\ Tail(to_server[i]) \in Seq(Written)
    BY <2>1, TailTyped DEF Types
  <2>3. to_server' \in [Node -> Seq(Written)]
    BY <2>1, <2>2 DEF Types
  <2>4. reply' \in [Node -> Seq(FullLine)]
    <3>1. CASE UNCHANGED reply
      BY <3>1 DEF Types
    <3>2. ASSUME NEW t \in ReadDocument(i), reply' = [reply EXCEPT ![i] = <<Full(t)>>]
          PROVE  reply' \in [Node -> Seq(FullLine)]
      <4>1. Full(t) \in FullLine
        BY TextsTyped
      <4>2. <<Full(t)>> \in Seq(FullLine)
        BY <4>1
      <4> QED
        BY <3>2, <4>2 DEF Types
    <3> QED
      BY <1>2, <3>1, <3>2 DEF ClientLoop
  <2>5. input_queue' \in [Node -> Seq(AnyEdit)]
    <3>1. Head(to_server[i]) # Fetch => Head(to_server[i]) \in AnyEdit
      BY <2>2 DEF Written
    <3>2. Head(to_server[i]) # Fetch => Append(input_queue[i], Head(to_server[i])) \in Seq(AnyEdit)
      BY <3>1 DEF Types
    <3> QED
      BY <1>2, <3>2 DEF ClientLoop, Types
  <2> QED
    BY <1>2, <2>3, <2>4, <2>5 DEF ClientLoop, Types, mainVars, logVars, socketVars, pageVars
<1>3. CASE SendFullDocument(i)
  <2>1. to_bridge[i] \o reply[i] \in Seq(Line)
    <3>1. reply[i] \in Seq(Line)
      BY DEF Types, Line
    <3> QED
      BY <3>1 DEF Types
  <2>2. to_bridge' \in [Node -> Seq(Line)] /\ reply' \in [Node -> Seq(FullLine)]
    BY <1>3, <2>1 DEF SendFullDocument, Types
  <2> QED
    BY <1>3, <2>2 DEF SendFullDocument, Types, mainVars, logVars, socketVars, pageVars
<1>4. CASE RunPass(i)
  <2>1. submitted' \in [Node -> Seq(AnyEdit)] /\ input_queue' \in [Node -> Seq(AnyEdit)]
    BY <1>4 DEF RunPass, Types
  <2> QED
    BY <1>4, <2>1 DEF RunPass, Types, bridgeVars, socketVars, pageVars
<1>5. CASE ApplyEntry(i)
  <2> DEFINE e == agreed[last_commit[i] + 1]
  <2>1. /\ ~Throws(document[i], e) /\ document' = [document EXCEPT ![i] = Edited(@, e)]
        /\ unsent' = [unsent EXCEPT ![i] = <<e>>]
    BY <1>5 DEF ApplyEntry
  <2>2. e \in AnyEdit
    <3>1. last_commit[i] + 1 \in 1..Len(agreed)
      BY <1>5, AppendToList DEF ApplyEntry, LogInv
    <3> QED
      BY <3>1 DEF Types
  <2> HIDE DEF e
  <2>3. Edited(document[i], e) \in Seq(Char)
    BY <2>1, <2>2, EditedType DEF Types
  <2>4. document' \in [Node -> Seq(Char)] /\ unsent' \in [Node -> Seq(AnyEdit)]
    BY <2>1, <2>2, <2>3 DEF Types
  <2> QED
    BY <1>5, <2>4 DEF ApplyEntry, Types, queueVars, logVars, bridgeVars, socketVars, pageVars
<1>6. CASE Die(i)
  <2>1. to_server' \in [Node -> Seq(Written)]
    BY <1>6 DEF Die, Types
  <2> QED
    BY <1>6, <2>1 DEF Die, Types, queueVars, logVars, socketVars, pageVars
<1>7. CASE BroadcastEntry(i)
  <2>1. to_bridge[i] \o unsent[i] \in Seq(Line)
    <3>1. unsent[i] \in Seq(Line)
      BY DEF Types, Line
    <3> QED
      BY <3>1 DEF Types
  <2>2. to_bridge' \in [Node -> Seq(Line)] /\ unsent' \in [Node -> Seq(AnyEdit)]
    BY <1>7, <2>1 DEF BroadcastEntry, Types
  <2> QED
    BY <1>7, <2>2 DEF BroadcastEntry, Types, queueVars, logVars, socketVars, pageVars
<1> QED
  BY <1>1, <1>2, <1>3, <1>4, <1>5, <1>6, <1>7 DEF Replica

\* So do the log's.
LEMMA TypesLog ==
  ASSUME Types, NEW i \in Node, Agree(i) \/ Drop(i)
  PROVE  Types'
<1>1. \A k \in DOMAIN submitted[i] :
        RemoveAt(submitted[i], k) \in Seq(AnyEdit) /\ submitted[i][k] \in AnyEdit
  BY RemovedTyped DEF Types
<1>2. PICK k \in DOMAIN submitted[i] :
        /\ submitted' = [submitted EXCEPT ![i] = RemoveAt(@, k)]
        /\ agreed' = agreed \/ agreed' = Append(agreed, submitted[i][k])
  BY DEF Agree, Drop
<1>3. submitted' \in [Node -> Seq(AnyEdit)] /\ agreed' \in Seq(AnyEdit)
  <2>1. RemoveAt(submitted[i], k) \in Seq(AnyEdit) /\ submitted[i][k] \in AnyEdit
    BY <1>1
  <2>2. Append(agreed, submitted[i][k]) \in Seq(AnyEdit)
    BY <2>1 DEF Types
  <2>3. submitted' \in [Node -> Seq(AnyEdit)]
    BY <1>2, <2>1 DEF Types
  <2> QED
    BY <1>2, <2>2, <2>3 DEF Types
<1> QED
  BY <1>3 DEF Agree, Drop, Types, mainVars, queueVars, bridgeVars, socketVars, pageVars

\* So does every step.
LEMMA TypesNext == Types /\ LogInv /\ [Next]_vars => Types'
<1> SUFFICES ASSUME Types, LogInv, [Next]_vars PROVE Types'
  OBVIOUS
<1>1. CASE UNCHANGED vars
  BY <1>1 DEF Types, vars, mainVars, queueVars, logVars, bridgeVars, socketVars, pageVars
<1>2. ASSUME NEW i \in Node, Type(i) PROVE Types'
  BY <1>2, Typing, TypesTyping, TypesPage DEF Type
<1> QED
  BY <1>1, <1>2, TypesPage, TypesBridge, TypesReplica, TypesLog DEF Next

-----------------------------------------------------------------------------
(* The edits around are those that were typed, each with a key of its own. *)

\* The page and the lists its edits pass through on their way to the log.
Same(i) ==
  /\ page'[i] = page[i] /\ to_ws'[i] = to_ws[i] /\ to_server'[i] = to_server[i]
  /\ input_queue'[i] = input_queue[i] /\ submitted'[i] = submitted[i]

\* A step of member i that types nothing.
Passes(i) ==
  /\ \A j \in Node : j # i => Same(j)
  /\ EditsOf(i)' \subseteq EditsOf(i)
  /\ Range(agreed') \subseteq Range(agreed) \cup EditsOf(i)
  /\ UNCHANGED requestId

\* Where nothing is typed there are no new edits.
LEMMA AroundKept ==
  ASSUME NEW i \in Node, Passes(i)
  PROVE  Around' \subseteq Around /\ \A j \in Node : EditsOf(j)' \subseteq EditsOf(j)
<1>1. \A j \in Node : EditsOf(j)' \subseteq EditsOf(j)
  <2> SUFFICES ASSUME NEW j \in Node, j # i PROVE EditsOf(j)' \subseteq EditsOf(j)
    BY DEF Passes
  <2>1. Same(j)
    BY DEF Passes
  <2> QED
    BY <2>1 DEF EditsOf, Same
<1> QED
  BY <1>1 DEF Passes, Around

\* And the keys stay apart.
LEMMA KeysKept ==
  ASSUME KeyInv, NEW i \in Node, Passes(i)
  PROVE  KeyInv'
BY AroundKept DEF KeyInv, Passes

\* Typing adds one edit.
LEMMA AroundTyped ==
  ASSUME Types, NEW i \in Node, NEW e, NEW c, Typed(i, e, c)
  PROVE  /\ Around' \subseteq Around \cup {e}
         /\ EditsOf(i)' \subseteq EditsOf(i) \cup {e}
         /\ \A j \in Node : j # i => EditsOf(j)' = EditsOf(j)
<1>1. e \in AnyEdit /\ agreed' = agreed
  BY DEF Typed, logVars
<1>2. page'[i].pending = page[i].pending \cup {e}
  BY DEF Typed, Types
<1>3. Range(to_ws'[i]) \subseteq Range(to_ws[i]) \cup {e}
  BY <1>1, RangeOfAppend DEF Typed, Types
<1>4. EditsOf(i)' \subseteq EditsOf(i) \cup {e}
  BY <1>2, <1>3 DEF EditsOf, Typed, bridgeVars, queueVars, logVars
<1>5. \A j \in Node : j # i => EditsOf(j)' = EditsOf(j)
  BY DEF EditsOf, Typed, bridgeVars, queueVars, logVars, Types
<1> QED
  BY <1>1, <1>4, <1>5 DEF Around

\* And that one has a new key.
LEMMA KeysTyped ==
  ASSUME Types, KeyInv, NEW i \in Node, NEW e, NEW c, Typed(i, e, c)
  PROVE  KeyInv'
<1>1. /\ e \in AnyEdit /\ c \in Int /\ e.key = <<i, requestId[i]>> /\ requestId[i] \in Nat
      /\ requestId' = [requestId EXCEPT ![i] = requestId[i] + 1]
      /\ agreed' = agreed
  BY EditorBoundAssumption DEF Typed, Types, logVars
<1>2. /\ Around' \subseteq Around \cup {e} /\ EditsOf(i)' \subseteq EditsOf(i) \cup {e}
      /\ \A j \in Node : j # i => EditsOf(j)' = EditsOf(j)
  BY AroundTyped
<1>3. \A f \in Around : f.key # e.key
  <2> SUFFICES ASSUME NEW f \in Around, f.key = e.key PROVE FALSE
    OBVIOUS
  <2>1. f.key[2] < requestId[f.key[1]]
    BY DEF KeyInv
  <2> QED
    BY <1>1, <2>1
<1>4. \A f \in Around : f.key[2] < requestId'[f.key[1]]
  <2> SUFFICES ASSUME NEW f \in Around PROVE f.key[2] < requestId'[f.key[1]]
    OBVIOUS
  <2>1. f.key[2] < requestId[f.key[1]]
    BY DEF KeyInv
  <2>2. f.key \in Key
    BY EditFields DEF Around
  <2>3. f.key[1] \in Node /\ f.key[2] \in Int
    BY <2>2, EditorBoundAssumption DEF Key
  <2>4. requestId[f.key[1]] \in Int
    BY <2>3, EditorBoundAssumption DEF Types
  <2>5. requestId'[f.key[1]] = requestId[f.key[1]] \/ requestId'[f.key[1]] = requestId[f.key[1]] + 1
    BY <1>1, <2>3 DEF Types
  <2> QED
    BY <2>1, <2>3, <2>4, <2>5
<1>5. e.key[2] < requestId'[e.key[1]]
  BY <1>1 DEF Types
<1>6. \A j \in Node : \A f \in EditsOf(j)' : f.key[1] = j
  BY <1>1, <1>2 DEF KeyInv
<1>7. \A f, g \in Around' : f.key = g.key => f = g
  BY <1>2, <1>3 DEF KeyInv
<1>8. \A f \in Around' : f.key[2] < requestId'[f.key[1]]
  BY <1>2, <1>4, <1>5
<1> QED
  BY <1>6, <1>7, <1>8 DEF KeyInv

\* A line from the replica makes no edit pending.
LEMMA ShownPending ==
  ASSUME NEW i, NEW p \in AnyPage, NEW m \in Line
  PROVE  Shown(i, p, m).pending \subseteq p.pending
<1>1. CASE m.type = "FULL"
  BY <1>1 DEF Shown
<1>2. CASE m.type # "FULL" /\ m.key \in p.seen
  BY <1>2 DEF Shown
<1>3. CASE m.type # "FULL" /\ m.key \notin p.seen
  <2> DEFINE a == PageEdited(p.value, m)
             b == CursorAfter(i, p.cursor, m)
             c == p.seen \cup {m.key}
             d == p.pending \ {e \in p.pending : e.key = m.key}
             r == [p EXCEPT !.value = a, !.cursor = b, !.seen = c, !.pending = d]
  <2>1. Shown(i, p, m) = r
    BY <1>3 DEF Shown
  <2>2. d \subseteq p.pending
    OBVIOUS
  <2> HIDE DEF a, b, c, d
  <2>3. r.pending = d
    BY DEF AnyPage
  <2> QED
    BY <2>1, <2>2, <2>3
<1> QED
  BY <1>1, <1>2, <1>3

\* The page's steps other than typing pass edits on.
LEMMA PassesPage ==
  ASSUME Types, NEW i \in Node,
         SelectionChange(i) \/ ApplyOperation(i) \/ Retry(i) \/ Join(i)
  PROVE  Passes(i)
<1>1. CASE SelectionChange(i)
  <2>1. PICK k \in 0..Len(page[i].value) : page' = [page EXCEPT ![i].cursor = k]
    BY <1>1 DEF SelectionChange
  <2>2. page[i] \in AnyPage /\ k \in Int
    BY PageFields DEF Types
  <2>3. page'[i].pending = page[i].pending /\ \A j \in Node : j # i => page'[j] = page[j]
    BY <2>1, <2>2, PageMoved DEF Types
  <2> QED
    BY <1>1, <2>3 DEF SelectionChange, Passes, EditsOf, Same, mainVars, queueVars, logVars,
                      bridgeVars, socketVars, pageVars
<1>2. CASE ApplyOperation(i)
  <2>1. /\ to_page[i] # <<>> /\ page' = [page EXCEPT ![i] = Shown(i, page[i], Head(to_page[i]))]
    BY <1>2 DEF ApplyOperation
  <2>2. Head(to_page[i]) \in Line /\ page[i] \in AnyPage
    BY <2>1, TailTyped DEF Types
  <2>3. page'[i].pending \subseteq page[i].pending /\ \A j \in Node : j # i => page'[j] = page[j]
    BY <2>1, <2>2, ShownPending DEF Types
  <2>4. UNCHANGED <<to_ws, to_server, input_queue, submitted, agreed, requestId>>
    BY <1>2 DEF ApplyOperation, mainVars, queueVars, logVars, bridgeVars
  <2> QED
    BY <2>3, <2>4 DEF Passes, EditsOf, Same
<1>3. CASE Retry(i)
  <2>1. PICK e \in page[i].pending : to_ws' = [to_ws EXCEPT ![i] = Append(to_ws[i], e)]
    BY <1>3 DEF Retry
  <2>2. e \in AnyEdit
    BY <2>1, PageFields DEF Types
  <2>3. /\ Range(to_ws'[i]) = Range(to_ws[i]) \cup {e}
        /\ \A j \in Node : j # i => to_ws'[j] = to_ws[j]
    BY <2>1, <2>2, RangeOfAppend DEF Types
  <2>4. UNCHANGED <<page, to_server, input_queue, submitted, agreed, requestId>>
    BY <1>3 DEF Retry, mainVars, queueVars, logVars, bridgeVars, pageVars
  <2> QED
    BY <2>1, <2>3, <2>4 DEF Passes, EditsOf, Same
<1>4. CASE Join(i)
  <2>1. Range(to_server'[i]) \subseteq Range(to_server[i]) \cup {Fetch}
    <3>1. Range(Append(to_server[i], Fetch)) = Range(to_server[i]) \cup {Fetch}
      <4>1. Fetch \in Written /\ to_server[i] \in Seq(Written)
        BY DEF Types, Written
      <4> QED
        BY <4>1, RangeOfAppend
    <3> QED
      BY <1>4, <3>1 DEF Join, Types
  <2>2. \A j \in Node : j # i => to_server'[j] = to_server[j]
    BY <1>4 DEF Join, Types
  <2>3. UNCHANGED <<page, to_ws, input_queue, submitted, agreed, requestId>>
    BY <1>4 DEF Join, mainVars, queueVars, logVars, bridgeVars, pageVars
  <2> QED
    BY <2>1, <2>2, <2>3 DEF Passes, EditsOf, Same
<1> QED
  BY <1>1, <1>2, <1>3, <1>4

\* An empty list has no elements.
LEMMA NoLines == Range(<<>>) = {}
BY DEF Range

\* The bridge passes edits on or drops them.
LEMMA PassesBridge ==
  ASSUME Types, NEW i \in Node, Bridge(i)
  PROVE  Passes(i)
<1>1. CASE Connect(i) \/ Reconnect(i)
  <2>1. UNCHANGED <<page, to_ws, to_server, input_queue, submitted, agreed, requestId>>
    BY <1>1 DEF Connect, Reconnect, queueVars, logVars, socketVars, pageVars
  <2> QED
    BY <2>1 DEF Passes, EditsOf, Same
<1>2. CASE Refused(i)
  <2>1. Range(to_server'[i]) = {} /\ \A j \in Node : j # i => to_server'[j] = to_server[j]
    BY <1>2, NoLines DEF Refused, Types
  <2>2. UNCHANGED <<page, to_ws, input_queue, submitted, agreed, requestId>>
    BY <1>2 DEF Refused, queueVars, logVars, socketVars, pageVars
  <2> QED
    BY <2>1, <2>2 DEF Passes, EditsOf, Same
<1>3. CASE Forward(i)
  <2> DEFINE h == Head(to_ws[i])
  <2>1. to_ws[i] # <<>> /\ to_ws' = [to_ws EXCEPT ![i] = Tail(@)]
        /\ (to_server' = to_server \/ to_server' = [to_server EXCEPT ![i] = Append(to_server[i], h)])
    BY <1>3 DEF Forward
  <2>2. h \in AnyEdit /\ Range(to_ws[i]) = {h} \cup Range(Tail(to_ws[i]))
    BY <2>1, TailTyped DEF Types
  <2>3. h \in Written
    BY <2>2 DEF Written
  <2> HIDE DEF h
  <2>4. Range(Append(to_server[i], h)) = Range(to_server[i]) \cup {h}
    BY <2>3, RangeOfAppend DEF Types
  <2>5. Range(to_server'[i]) \subseteq Range(to_server[i]) \cup {h}
        /\ Range(to_ws'[i]) \subseteq Range(to_ws[i]) /\ h \in Range(to_ws[i])
    BY <2>1, <2>2, <2>4 DEF Types
  <2>6. \A j \in Node : j # i => to_server'[j] = to_server[j] /\ to_ws'[j] = to_ws[j]
    BY <2>1 DEF Types
  <2>7. UNCHANGED <<page, input_queue, submitted, agreed, requestId>>
    BY <1>3 DEF Forward, queueVars, logVars, pageVars
  <2> QED
    BY <2>5, <2>6, <2>7 DEF Passes, EditsOf, Same
<1>4. CASE Deliver(i)
  <2>1. UNCHANGED <<page, to_ws, to_server, input_queue, submitted, agreed, requestId>>
    BY <1>4 DEF Deliver, queueVars, logVars, pageVars
  <2> QED
    BY <2>1 DEF Passes, EditsOf, Same
<1> QED
  BY <1>1, <1>2, <1>3, <1>4 DEF Bridge

\* The replica queues and submits edits.
LEMMA PassesReplica ==
  ASSUME Types, NEW i \in Node, Replica(i)
  PROVE  Passes(i)
<1>1. CASE StartServer(i) \/ SendFullDocument(i) \/ ApplyEntry(i) \/ BroadcastEntry(i)
  <2>1. UNCHANGED <<page, to_ws, to_server, input_queue, submitted, agreed, requestId>>
    BY <1>1 DEF StartServer, SendFullDocument, ApplyEntry, BroadcastEntry, queueVars, logVars,
                bridgeVars, socketVars, pageVars
  <2> QED
    BY <2>1 DEF Passes, EditsOf, Same
<1>2. CASE Die(i)
  <2>1. Range(to_server'[i]) = {} /\ \A j \in Node : j # i => to_server'[j] = to_server[j]
    BY <1>2, NoLines DEF Die, Types
  <2>2. UNCHANGED <<page, to_ws, input_queue, submitted, agreed, requestId>>
    BY <1>2 DEF Die, queueVars, logVars, socketVars, pageVars
  <2> QED
    BY <2>1, <2>2 DEF Passes, EditsOf, Same
<1>3. CASE ClientLoop(i)
  <2> DEFINE h == Head(to_server[i])
  <2>1. to_server[i] # <<>> /\ to_server' = [to_server EXCEPT ![i] = Tail(@)]
        /\ (input_queue' = input_queue
              \/ (h # Fetch /\ input_queue' = [input_queue EXCEPT ![i] = Append(input_queue[i], h)]))
    BY <1>3 DEF ClientLoop
  <2>2. h \in Written /\ Range(to_server[i]) = {h} \cup Range(Tail(to_server[i]))
    BY <2>1, TailTyped DEF Types
  <2>3. h # Fetch => h \in AnyEdit
    BY <2>2 DEF Written
  <2> HIDE DEF h
  <2>4. h # Fetch => Range(Append(input_queue[i], h)) = Range(input_queue[i]) \cup {h}
    BY <2>3, RangeOfAppend DEF Types
  <2>5. Range(to_server'[i]) \subseteq Range(to_server[i]) /\ h \in Range(to_server[i])
        /\ Range(input_queue'[i]) \subseteq Range(input_queue[i]) \cup {h}
    BY <2>1, <2>2, <2>4 DEF Types
  <2>6. \A j \in Node : j # i => to_server'[j] = to_server[j] /\ input_queue'[j] = input_queue[j]
    BY <2>1 DEF Types
  <2>7. UNCHANGED <<page, to_ws, submitted, agreed, requestId>>
    BY <1>3 DEF ClientLoop, logVars, socketVars, pageVars
  <2> QED
    BY <2>5, <2>6, <2>7 DEF Passes, EditsOf, Same
<1>4. CASE RunPass(i)
  <2>1. /\ submitted' = [submitted EXCEPT ![i] = submitted[i] \o input_queue[i]]
        /\ input_queue' = [input_queue EXCEPT ![i] = <<>>]
    BY <1>4 DEF RunPass
  <2>2. Range(submitted[i] \o input_queue[i]) = Range(submitted[i]) \cup Range(input_queue[i])
    BY RangeOfConcat DEF Types
  <2>3. Range(submitted'[i]) = Range(submitted[i]) \cup Range(input_queue[i])
        /\ Range(input_queue'[i]) = {}
    BY <2>1, <2>2, NoLines DEF Types
  <2>4. \A j \in Node : j # i => submitted'[j] = submitted[j] /\ input_queue'[j] = input_queue[j]
    BY <2>1 DEF Types
  <2>5. UNCHANGED <<page, to_ws, to_server, agreed, requestId>>
    BY <1>4 DEF RunPass, bridgeVars, socketVars, pageVars
  <2> QED
    BY <2>3, <2>4, <2>5 DEF Passes, EditsOf, Same
<1> QED
  BY <1>1, <1>2, <1>3, <1>4 DEF Replica

\* The log agrees on what was submitted, or drops it.
LEMMA PassesLog ==
  ASSUME Types, NEW i \in Node, Agree(i) \/ Drop(i)
  PROVE  Passes(i)
<1>1. PICK k \in DOMAIN submitted[i] :
        /\ submitted' = [submitted EXCEPT ![i] = RemoveAt(@, k)]
        /\ agreed' = agreed \/ agreed' = Append(agreed, submitted[i][k])
  BY DEF Agree, Drop
<1> DEFINE s == submitted[i]  e == s[k]
<1>2. e \in AnyEdit /\ Range(RemoveAt(s, k)) \subseteq Range(s) /\ e \in Range(s)
  <2>1. s \in Seq(AnyEdit)
    BY DEF Types
  <2>2. s[k] \in Range(s)
    BY DEF Range
  <2> QED
    BY <2>1, <2>2, RemovedTyped
<1>3. e # Fetch
  BY <1>2, EditFields
<1>4. submitted' = [submitted EXCEPT ![i] = RemoveAt(s, k)]
      /\ (agreed' = agreed \/ agreed' = Append(agreed, e))
  BY <1>1
<1>5. e \in EditsOf(i)
  BY <1>2, <1>3 DEF EditsOf
<1> HIDE DEF e
<1>6. Range(Append(agreed, e)) = Range(agreed) \cup {e}
  BY <1>2, RangeOfAppend DEF Types
<1>7. Range(agreed') \subseteq Range(agreed) \cup EditsOf(i)
  BY <1>4, <1>5, <1>6
<1>8. Range(submitted'[i]) \subseteq Range(s) /\ \A j \in Node : j # i => submitted'[j] = submitted[j]
  BY <1>2, <1>4 DEF Types
<1>9. UNCHANGED <<page, to_ws, to_server, input_queue, requestId>>
  BY DEF Agree, Drop, queueVars, bridgeVars, socketVars, pageVars
<1> QED
  BY <1>7, <1>8, <1>9 DEF Passes, EditsOf, Same

\* No step makes two edits of one key.
LEMMA KeysNext == Types /\ KeyInv /\ [Next]_vars => KeyInv'
<1> SUFFICES ASSUME Types, KeyInv, [Next]_vars PROVE KeyInv'
  OBVIOUS
<1>1. CASE UNCHANGED vars
  <2>1. UNCHANGED <<page, to_ws, to_server, input_queue, submitted, agreed, requestId>>
    BY <1>1 DEF vars, mainVars, queueVars, logVars, bridgeVars, socketVars, pageVars
  <2>2. PICK i : i \in Node
    BY EditorNodeAssumption
  <2>3. Passes(i)
    BY <2>1 DEF Passes, EditsOf, Same
  <2> QED
    BY <2>2, <2>3, KeysKept
<1>2. ASSUME NEW i \in Node, Type(i) PROVE KeyInv'
  BY <1>2, Typing, KeysTyped, PassesPage, KeysKept DEF Type
<1> QED
  BY <1>1, <1>2, PassesPage, PassesBridge, PassesReplica, PassesLog, KeysKept DEF Next

=============================================================================
