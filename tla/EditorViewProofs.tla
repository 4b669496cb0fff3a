-------------------------- MODULE EditorViewProofs --------------------------
(***************************************************************************)
(* What a page shows (applyOperation of frontend.html) and the document of *)
(* its replica (apply_to_document), whatever is typed, for any number of   *)
(* pages that were open from the start, or one that was not.               *)
(*                                                                         *)
(* The argument: what a page will show is a fold over the lines on their   *)
(* way to it, and a line that moves on is still one of them; so only the   *)
(* full text and the next entry applied change it, and they change the     *)
(* replica's document in the same way, unless the entry is repeated or its *)
(* position is in front of the text.                                       *)
(***************************************************************************)
EXTENDS EditorProofs

\* The entries are all different, and no position is in front of the text.
Plain(q) ==
  /\ \A m, n \in DOMAIN q : q[m].key = q[n].key => m = n
  /\ \A n \in DOMAIN q : q[n].pos >= 0

\* Page p shows the entries q, each once; and doc when they are plain.
ViewIs(p, q, doc) ==
  /\ p.seen = KeysOf(q)
  /\ p.value = FoldLeft(PageEdited, InitialText, FirstOccurrences(q))
  /\ Plain(q) => p.value = doc

\* Page i once it is sent nothing more than what is on its way.
SettledPage(i) == ShownFold!Fold(i, page[i], InFlight(i))

\* Nothing has happened at the only member.
Nothing(i) ==
  /\ Node = {i}
  /\ agreed = <<>> /\ input_queue[i] = <<>> /\ submitted[i] = <<>>
  /\ document[i] = InitialText
  /\ to_page[i] = <<>> /\ to_bridge[i] = <<>> /\ unsent[i] = <<>>
  /\ ~page[i].loaded

\* Where a member is: its page is not there yet, has asked for the document, is being
\* answered; it follows its replica, or the document was never sent and never will be.
Unasked(i) ==
  Nothing(i) /\ ~joined[i] /\ to_ws[i] = <<>> /\ to_server[i] = <<>> /\ reply[i] = <<>>
Asking(i) ==
  /\ Nothing(i) /\ joined[i] /\ reply[i] = <<>>
  /\ to_server[i] # <<>> /\ Head(to_server[i]) = Fetch /\ Tail(to_server[i]) \in Seq(AnyEdit)
Answering(i) ==
  /\ Nothing(i) /\ joined[i] /\ server[i] = "running" /\ tcp[i] = "connected"
  /\ reply[i] = <<Full(InitialText)>> /\ to_server[i] \in Seq(AnyEdit)
Answered(i) ==
  joined[i] /\ reply[i] = <<>> /\ to_server[i] \in Seq(AnyEdit)
Following(i) ==
  /\ Answered(i)
  /\ server[i] # "starting" /\ (server[i] = "running" => tcp[i] = "connected")
  /\ ViewIs(SettledPage(i), Applied(i), document[i])
Unserved(i) ==
  /\ Answered(i)
  /\ to_page[i] \in Seq(AnyEdit) /\ to_bridge[i] \in Seq(AnyEdit) /\ ~page[i].loaded

Phase(i) == Unasked(i) \/ Asking(i) \/ Answering(i) \/ Following(i) \/ Unserved(i)

\* The inductive invariant of ShownOnce; ViewFollows needs OnceInv and PositionInv too.
ShownInv == Types /\ KeyInv /\ \A i \in Node : Phase(i)

-----------------------------------------------------------------------------
(* What a page will be given, and what it makes of it.                     *)

\* What is on its way to a page are lines.
LEMMA InFlightType ==
  ASSUME Types, NEW i \in Node
  PROVE  InFlight(i) \in Seq(Line) /\ page[i] \in AnyPage /\ unsent[i] \in Seq(Line)
<1>1. to_page[i] \in Seq(Line) /\ to_bridge[i] \in Seq(Line) /\ unsent[i] \in Seq(Line)
  BY DEF Types, Line
<1>2. to_page[i] \o to_bridge[i] \in Seq(Line)
  BY <1>1, ConcatProperties
<1>3. InFlight(i) \in Seq(Line)
  BY <1>1, <1>2, ConcatProperties DEF InFlight
<1> QED
  BY <1>1, <1>3 DEF Types

\* The view depends on what is shown only.
LEMMA ViewLook ==
  ASSUME NEW p, NEW r, Look(p) = Look(r), NEW q, NEW doc, ViewIs(p, q, doc)
  PROVE  ViewIs(r, q, doc)
<1>1. p.value = r.value /\ p.seen = r.seen
  BY DEF Look
<1> QED
  BY <1>1 DEF ViewIs

\* The next entry is applied, broadcast, delivered and shown.
LEMMA ViewStep ==
  ASSUME NEW i, NEW p \in AnyPage, NEW q \in Seq(AnyEdit), NEW e \in AnyEdit,
         NEW doc \in Seq(Char), ViewIs(p, q, doc), ~Throws(doc, e),
         \A f \in Range(q) : f.key = e.key => f = e
  PROVE  ViewIs(Shown(i, p, e), Append(q, e), Edited(doc, e))
<1> DEFINE r == Shown(i, p, e)  w == Append(q, e)  n == Len(q)
<1>1. /\ r.value = IF e.key \in p.seen THEN p.value ELSE PageEdited(p.value, e)
      /\ r.seen = p.seen \cup {e.key}
  BY ShownEdit
<1>2. /\ w \in Seq(AnyEdit) /\ Range(w) = Range(q) \cup {e}
      /\ n \in Nat /\ DOMAIN q = 1..n /\ DOMAIN w = 1..n + 1
      /\ w[n + 1] = e /\ \A k \in 1..n : w[k] = q[k]
  BY RangeOfAppend, AppendProperties
<1>3. p.seen = KeysOf(q) /\ p.value = FoldLeft(PageEdited, InitialText, FirstOccurrences(q))
      /\ (Plain(q) => p.value = doc)
  BY DEF ViewIs
<1>4. r.seen = KeysOf(w)
  <2>1. KeysOf(w) = KeysOf(q) \cup {e.key}
    BY <1>2 DEF KeysOf
  <2> QED
    BY <1>1, <1>3, <2>1
<1>5. e.key \in p.seen <=> e \in Range(q)
  BY <1>3 DEF KeysOf
<1>6. FirstOccurrences(w) = IF e \in Range(q) THEN FirstOccurrences(q)
                            ELSE Append(FirstOccurrences(q), e)
  BY FirstAppend
<1>7. r.value = FoldLeft(PageEdited, InitialText, FirstOccurrences(w))
  <2>1. CASE e \in Range(q)
    BY <1>1, <1>3, <1>5, <1>6, <2>1
  <2>2. CASE e \notin Range(q)
    <3>1. FirstOccurrences(q) \in Seq(AnyEdit)
      BY FirstType
    <3>2. FoldLeft(PageEdited, InitialText, Append(FirstOccurrences(q), e)) =
            PageEdited(FoldLeft(PageEdited, InitialText, FirstOccurrences(q)), e)
      BY <3>1, EditedAppend
    <3> QED
      BY <1>1, <1>3, <1>5, <1>6, <2>2, <3>2
  <2> QED
    BY <2>1, <2>2
<1>8. ASSUME Plain(w) PROVE r.value = Edited(doc, e)
  <2>1. n + 1 \in 1..n + 1 /\ \A k \in 1..n : k \in 1..n + 1 /\ k # n + 1
    BY <1>2
  <2>2. Plain(q) /\ e.pos >= 0
    <3>1. \A k, m \in 1..n : q[k].key = q[m].key => k = m
      BY <1>2, <1>8, <2>1 DEF Plain
    <3>2. \A k \in 1..n : q[k].pos >= 0
      BY <1>2, <1>8, <2>1 DEF Plain
    <3>3. e.pos >= 0
      BY <1>2, <1>8, <2>1 DEF Plain
    <3> QED
      BY <1>2, <3>1, <3>2, <3>3 DEF Plain
  <2>3. e \notin Range(q)
    <3> SUFFICES ASSUME NEW k \in 1..n, q[k] = e PROVE FALSE
      BY <1>2 DEF Range
    <3>1. w[k].key = w[n + 1].key
      BY <1>2
    <3> QED
      BY <1>2, <1>8, <2>1, <3>1 DEF Plain
  <2>4. r.value = PageEdited(doc, e)
    BY <1>1, <1>3, <1>5, <2>2, <2>3
  <2> QED
    BY <2>2, <2>4, EditedAlike
<1> HIDE DEF r, w
<1>9. ViewIs(r, w, Edited(doc, e))
  BY <1>4, <1>7, <1>8 DEF ViewIs
<1> QED
  BY <1>9 DEF r, w

\* With nothing applied the view is the document that was loaded.
LEMMA ViewStart ==
  ASSUME NEW p, p.value = InitialText, p.seen = {}
  PROVE  ViewIs(p, <<>>, InitialText)
<1>1. KeysOf(<<>>) = {}
  BY DEF KeysOf, Range
<1>2. FirstOccurrences(<<>>) = <<>>
  BY FirstFolds, FirstFold!FoldEmpty
<1>3. FoldLeft(PageEdited, InitialText, <<>>) = InitialText
  BY EditedFolds, EditedFold!FoldEmpty
<1> QED
  BY <1>1, <1>2, <1>3 DEF ViewIs

\* The front of two lists in a row.
LEMMA HeadTailConcat ==
  ASSUME NEW S, NEW q \in Seq(S), q # <<>>, NEW r \in Seq(S)
  PROVE  /\ q \o r \in Seq(S) /\ q \o r # <<>>
         /\ Head(q \o r) = Head(q) /\ Tail(q \o r) = Tail(q) \o r
<1>1. Tail(q) \in Seq(S) /\ Head(q) \in S /\ q = <<Head(q)>> \o Tail(q) /\ <<Head(q)>> \in Seq(S)
  BY TailTyped
<1> DEFINE h == Head(q)  t == Tail(q)  u == t \o r
<1>2. u \in Seq(S)
  BY <1>1, ConcatProperties
<1>3. q \o r = <<h>> \o u
  BY <1>1, ConcatAssociative
<1>4. h \in S
  BY <1>1
<1>5. q \o r \in Seq(S)
  BY ConcatProperties
<1> HIDE DEF h, t, u
<1>6. Len(<<h>> \o u) = Len(u) + 1 /\ Len(u) \in Nat /\ (<<h>> \o u)[1] = h
      /\ \A k \in 1..Len(u) : (<<h>> \o u)[k + 1] = u[k]
  BY <1>2, <1>4
<1>7. <<h>> \o u # <<>>
  BY <1>6
<1>8. Head(<<h>> \o u) = h
  BY <1>3, <1>5, <1>6, <1>7
<1>9. Tail(<<h>> \o u) = u
  <2>1. /\ Tail(<<h>> \o u) \in Seq(S) /\ Len(Tail(<<h>> \o u)) = Len(<<h>> \o u) - 1
        /\ \A k \in 1..Len(Tail(<<h>> \o u)) : Tail(<<h>> \o u)[k] = (<<h>> \o u)[k + 1]
    BY <1>3, <1>5, <1>7, HeadTailProperties
  <2>2. Len(Tail(<<h>> \o u)) = Len(u)
    BY <1>6, <2>1
  <2> QED
    BY <1>2, <1>6, <2>1, <2>2, SeqEqual
<1> QED
  BY <1>3, <1>5, <1>7, <1>8, <1>9 DEF h, t, u

-----------------------------------------------------------------------------
(* Every step keeps every member in one of its phases.                     *)

\* What member i sends to its page is untouched; the log may have grown.
LogGrows == agreed' = agreed \/ \E e \in AnyEdit : agreed' = Append(agreed, e)
Still(i) ==
  /\ joined'[i] = joined[i] /\ reply'[i] = reply[i] /\ to_server'[i] = to_server[i]
  /\ server'[i] = server[i] /\ tcp'[i] = tcp[i] /\ document'[i] = document[i]
  /\ to_page'[i] = to_page[i] /\ to_bridge'[i] = to_bridge[i] /\ unsent'[i] = unsent[i]
  /\ page'[i] = page[i] /\ last_commit'[i] = last_commit[i]

\* A log that grows keeps what a replica has applied of it.
LEMMA AppliedKept ==
  ASSUME Types, LogInv, LogGrows, NEW i \in Node, last_commit'[i] = last_commit[i]
  PROVE  Applied(i)' = Applied(i)
<1> DEFINE n == last_commit[i]
<1>1. n \in 0..Len(agreed) /\ Len(agreed) \in Nat
  BY AppendToList DEF LogInv
<1>2. ASSUME NEW e \in AnyEdit PROVE SubSeq(Append(agreed, e), 1, n) = SubSeq(agreed, 1, n)
  <2>1. agreed \in Seq(AnyEdit) /\ Append(agreed, e) \in Seq(AnyEdit)
    BY DEF Types
  <2>2. \A k \in 1..n : Append(agreed, e)[k] = agreed[k]
    BY <1>1, <2>1
  <2> HIDE DEF n
  <2>3. Len(Append(agreed, e)) = Len(agreed) + 1
    BY <2>1
  <2>4. /\ SubSeq(agreed, 1, n) \in Seq(AnyEdit) /\ SubSeq(Append(agreed, e), 1, n) \in Seq(AnyEdit)
        /\ Len(SubSeq(agreed, 1, n)) = n /\ Len(SubSeq(Append(agreed, e), 1, n)) = n
        /\ \A k \in 1..n : SubSeq(agreed, 1, n)[k] = agreed[k]
        /\ \A k \in 1..n : SubSeq(Append(agreed, e), 1, n)[k] = Append(agreed, e)[k]
    BY <1>1, <2>1, <2>3, SubSeqIn, SubSeqProperties
  <2> QED
    BY <2>2, <2>4, SeqEqual
<1>3. CASE agreed' = agreed
  BY <1>3 DEF Applied
<1>4. ASSUME NEW e \in AnyEdit, agreed' = Append(agreed, e) PROVE Applied(i)' = Applied(i)
  BY <1>2, <1>4 DEF Applied
<1> QED
  BY <1>3, <1>4 DEF LogGrows

\* A member nothing happens to stays what it is.
LEMMA PhaseStill ==
  ASSUME Types, LogInv, LogGrows, NEW i \in Node, Still(i), Following(i) \/ Unserved(i)
  PROVE  Phase(i)'
<1>1. CASE Following(i)
  <2>1. Applied(i)' = Applied(i)
    BY AppliedKept DEF Still
  <2>2. SettledPage(i)' = SettledPage(i)
    BY DEF SettledPage, InFlight, Still
  <2>3. Following(i)'
    BY <1>1, <2>1, <2>2 DEF Following, Answered, Still
  <2> QED
    BY <2>3 DEF Phase
<1>2. CASE Unserved(i)
  BY <1>2 DEF Unserved, Answered, Still, Phase
<1> QED
  BY <1>1, <1>2

\* Where it takes two, the others have been given the document or never will.
LEMMA OthersFollow ==
  ASSUME NEW i \in Node, NEW j \in Node, i # j, Phase(j)
  PROVE  Following(j) \/ Unserved(j)
BY DEF Phase, Unasked, Asking, Answering, Nothing

\* What is on its way moves on.
LEMMA FollowingMoves ==
  ASSUME NEW i \in Node, Types, Following(i), Answered(i)',
         server'[i] # "starting", server'[i] = "running" => tcp'[i] = "connected",
         Look(SettledPage(i)') = Look(SettledPage(i)),
         UNCHANGED <<document, last_commit, agreed>>
  PROVE  Phase(i)'
<1>1. ViewIs(SettledPage(i)', Applied(i), document[i])
  BY ViewLook DEF Following
<1>2. Applied(i)' = Applied(i) /\ document'[i] = document[i]
  BY DEF Applied
<1> QED
  BY <1>1, <1>2 DEF Following, Phase

\* The page changes what it shows by nothing but lines of the replica.
LEMMA PhaseRetyped ==
  ASSUME NEW i \in Node, Types, Phase(i), NEW r \in AnyPage, Look(r) = Look(page[i]),
         page' = [page EXCEPT ![i] = r],
         UNCHANGED <<mainVars, queueVars, logVars, bridgeVars, joined, to_page>>,
         joined[i] \/ UNCHANGED to_ws
  PROVE  Phase(i)'
<1>1. r.loaded = page[i].loaded /\ page'[i] = r
  BY DEF Look, Types
<1>2. CASE Following(i)
  <2>1. InFlight(i)' = InFlight(i)
    BY DEF InFlight, mainVars, bridgeVars
  <2>2. Look(SettledPage(i)') = Look(SettledPage(i))
    BY <1>1, <2>1, LookKept, InFlightType DEF SettledPage
  <2>3. Answered(i)' /\ server'[i] # "starting" /\ (server'[i] = "running" => tcp'[i] = "connected")
        /\ UNCHANGED <<document, last_commit, agreed>>
    BY <1>2 DEF Following, Answered, mainVars, queueVars, logVars, bridgeVars
  <2> QED
    BY <1>2, <2>2, <2>3, FollowingMoves
<1>3. Nothing(i) => Nothing(i)'
  BY <1>1 DEF Nothing, mainVars, queueVars, logVars, bridgeVars
<1>4. CASE Unasked(i)
  BY <1>3, <1>4 DEF Unasked, Phase, queueVars, bridgeVars
<1>5. CASE Asking(i)
  BY <1>3, <1>5 DEF Asking, Phase, queueVars, bridgeVars
<1>6. CASE Answering(i)
  BY <1>3, <1>6 DEF Answering, Phase, queueVars, bridgeVars, mainVars
<1>7. CASE Unserved(i)
  BY <1>1, <1>7 DEF Unserved, Answered, Phase, queueVars, bridgeVars
<1> QED
  BY <1>2, <1>4, <1>5, <1>6, <1>7 DEF Phase

\* Typing is not seen before the edit comes back.
LEMMA PhaseType ==
  ASSUME NEW i \in Node, Types, Phase(i), Type(i)
  PROVE  Phase(i)'
<1>1. CASE SelectionChange(i)
  <2>1. PICK k \in 0..Len(page[i].value) : page' = [page EXCEPT ![i].cursor = k]
    BY <1>1 DEF SelectionChange
  <2> DEFINE r == [page[i] EXCEPT !.cursor = k]
  <2>2. page[i] \in AnyPage /\ k \in Int
    BY PageFields DEF Types
  <2>3. r \in AnyPage /\ Look(r) = Look(page[i])
    BY <2>2, PageMoved
  <2>4. page' = [page EXCEPT ![i] = r]
    BY <2>1
  <2> HIDE DEF r
  <2> QED
    BY <1>1, <2>3, <2>4, PhaseRetyped DEF SelectionChange, socketVars
<1>2. ASSUME NEW e, NEW c, Typed(i, e, c) PROVE Phase(i)'
  <2>1. PICK r \in AnyPage : page' = [page EXCEPT ![i] = r] /\ Look(r) = Look(page[i])
    BY <1>2 DEF Typed
  <2> QED
    BY <1>2, <2>1, PhaseRetyped DEF Typed
<1> QED
  BY <1>1, <1>2, Typing DEF Type

\* Sending an edit again changes nothing the page is sent.
LEMMA PhaseRetry ==
  ASSUME NEW i \in Node, Types, Phase(i), Retry(i)
  PROVE  Phase(i)'
<1>1. joined[i] /\ UNCHANGED <<mainVars, queueVars, logVars, bridgeVars, joined, to_page, pageVars>>
  BY DEF Retry
<1>2. page' = [page EXCEPT ![i] = page[i]]
  BY <1>1 DEF Types, pageVars
<1> QED
  BY <1>1, <1>2, PhaseRetyped DEF Types

\* Connecting asks for the document, once.
LEMMA PhaseJoin ==
  ASSUME NEW i \in Node, Types, Phase(i), Join(i)
  PROVE  Phase(i)'
<1>1. Unasked(i) /\ Nothing(i)
  BY DEF Join, Phase, Unasked, Asking, Answering, Following, Unserved, Answered
<1>2. joined'[i] /\ reply'[i] = <<>> /\ Nothing(i)'
  BY <1>1 DEF Join, Types, Unasked, Nothing, mainVars, queueVars, logVars, pageVars
<1>3. to_server[i] = <<>>
  BY <1>1 DEF Unasked
<1>4. CASE tcp[i] = "closed"
  <2>1. to_server'[i] = <<>>
    BY <1>3, <1>4 DEF Join
  <2> QED
    BY <1>2, <2>1 DEF Nothing, Unserved, Answered, Phase
<1>5. CASE tcp[i] # "closed"
  <2>1. to_server'[i] = Append(<<>>, Fetch)
    BY <1>3, <1>5 DEF Join, Types
  <2>2. to_server'[i] # <<>> /\ Head(to_server'[i]) = Fetch /\ Tail(to_server'[i]) \in Seq(AnyEdit)
    BY <2>1
  <2> QED
    BY <1>2, <2>2 DEF Asking, Phase
<1> QED
  BY <1>4, <1>5

\* The page takes the next line of those on their way to it.
LEMMA PhaseApply ==
  ASSUME NEW i \in Node, Types, Phase(i), ApplyOperation(i)
  PROVE  Phase(i)'
<1> DEFINE h == Head(to_page[i])
<1>1. /\ to_page[i] # <<>> /\ page' = [page EXCEPT ![i] = Shown(i, page[i], h)]
      /\ to_page' = [to_page EXCEPT ![i] = Tail(@)]
      /\ UNCHANGED <<mainVars, queueVars, logVars, bridgeVars, joined>>
  BY DEF ApplyOperation
<1>2. to_page[i] \in Seq(Line) /\ h \in Line /\ page'[i] = Shown(i, page[i], h)
      /\ to_page'[i] = Tail(to_page[i])
  BY <1>1, TailTyped DEF Types
<1>3. Following(i) \/ Unserved(i)
  BY <1>1 DEF Phase, Unasked, Asking, Answering, Nothing
<1>4. CASE Following(i)
  <2> DEFINE r == to_bridge[i] \o unsent[i]
  <2>1. to_bridge[i] \in Seq(Line) /\ unsent[i] \in Seq(Line)
    BY InFlightType DEF Types
  <2>2. r \in Seq(Line)
    BY <2>1, ConcatProperties
  <2>3. \A a, b, c \in Seq(Line) : a \o b \o c = a \o (b \o c)
    BY ConcatAssociative
  <2>4. to_page[i] \o to_bridge[i] \o unsent[i] = to_page[i] \o r
    BY <1>2, <2>1, <2>3
  <2>5. Tail(to_page[i]) \in Seq(Line)
    BY <1>1, <1>2, TailTyped
  <2>6. Tail(to_page[i]) \o to_bridge[i] \o unsent[i] = Tail(to_page[i]) \o r
    BY <2>1, <2>3, <2>5
  <2> HIDE DEF r
  <2>7. \A q, s \in Seq(Line) : q # <<>> =>
           /\ q \o s \in Seq(Line) /\ q \o s # <<>>
           /\ Head(q \o s) = Head(q) /\ Tail(q \o s) = Tail(q) \o s
    BY HeadTailConcat
  <2>8. /\ Head(to_page[i] \o r) = h /\ Tail(to_page[i] \o r) = Tail(to_page[i]) \o r
        /\ to_page[i] \o r # <<>> /\ to_page[i] \o r \in Seq(Line)
    BY <1>1, <1>2, <2>2, <2>7
  <2>9. InFlight(i) = to_page[i] \o r /\ InFlight(i)' = Tail(to_page[i]) \o r
    <3>1. to_bridge'[i] = to_bridge[i] /\ unsent'[i] = unsent[i]
      BY <1>1 DEF mainVars, bridgeVars
    <3> QED
      BY <1>2, <2>4, <2>6, <3>1 DEF InFlight
  <2>10. SettledPage(i)' = SettledPage(i)
    <3>1. \A p : \A q \in Seq(Line) : q # <<>> =>
            ShownFold!Fold(i, p, q) = ShownFold!Fold(i, Shown(i, p, Head(q)), Tail(q))
      BY ShownFold!FoldHead
    <3>2. ShownFold!Fold(i, page[i], to_page[i] \o r) =
            ShownFold!Fold(i, Shown(i, page[i], h), Tail(to_page[i]) \o r)
      BY <2>8, <3>1
    <3> QED
      BY <1>2, <2>9, <3>2 DEF SettledPage
  <2>11. Answered(i)' /\ server'[i] # "starting" /\ (server'[i] = "running" => tcp'[i] = "connected")
        /\ UNCHANGED <<document, last_commit, agreed>>
    BY <1>1, <1>4 DEF Following, Answered, mainVars, queueVars, logVars, bridgeVars
  <2> QED
    BY <1>4, <2>10, <2>11, FollowingMoves
<1>5. CASE Unserved(i)
  <2>1. to_page[i] \in Seq(AnyEdit) /\ ~page[i].loaded /\ page[i] \in AnyPage
    BY <1>5 DEF Unserved, Types
  <2>2. h \in AnyEdit /\ Tail(to_page[i]) \in Seq(AnyEdit)
    BY <1>1, <2>1, TailTyped
  <2>3. ~Shown(i, page[i], h).loaded
    <3>1. \A m \in AnyEdit : Shown(i, page[i], m).loaded = page[i].loaded
      BY <2>1, ShownEdit
    <3> QED
      BY <2>1, <2>2, <3>1
  <2> QED
    BY <1>1, <1>2, <1>5, <2>2, <2>3 DEF Unserved, Answered, Phase, mainVars, queueVars, logVars,
       bridgeVars
<1> QED
  BY <1>3, <1>4, <1>5

\* A line that moves on from one list to the next is on its way as before.
LEMMA SameInFlight ==
  \A a, b, c \in Seq(Line) : \A h \in Line :
    Append(a, h) \o b \o c = a \o (<<h>> \o b) \o c
<1> SUFFICES ASSUME NEW a \in Seq(Line), NEW b \in Seq(Line), NEW c \in Seq(Line), NEW h \in Line
             PROVE  Append(a, h) \o b \o c = a \o (<<h>> \o b) \o c
  OBVIOUS
<1>1. Append(a, h) = a \o <<h>> /\ <<h>> \in Seq(Line)
  OBVIOUS
<1>2. (a \o <<h>>) \o b = a \o (<<h>> \o b)
  BY <1>1, ConcatAssociative
<1> QED
  BY <1>1, <1>2

\* The bridge lets pass what the page gets; what the page sends does not matter.
LEMMA PhaseBridge ==
  ASSUME NEW i \in Node, Types, Phase(i), Bridge(i)
  PROVE  Phase(i)'
<1>1. CASE Connect(i) \/ Reconnect(i)
  <2>1. /\ tcp[i] # "connected" /\ (tcp'[i] = "connected" \/ server[i] # "running" \/ tcp[i] = "closed")
        /\ UNCHANGED <<mainVars, queueVars, logVars, to_server, to_bridge, socketVars, pageVars, copies>>
    BY <1>1 DEF Connect, Reconnect, Types
  <2>2. Nothing(i) => Nothing(i)'
    BY <2>1 DEF Nothing, mainVars, queueVars, logVars, socketVars, pageVars
  <2>3. CASE Following(i)
    <3>1. InFlight(i)' = InFlight(i) /\ page' = page
      BY <2>1 DEF InFlight, mainVars, socketVars, pageVars
    <3>2. SettledPage(i)' = SettledPage(i)
      BY <3>1 DEF SettledPage
    <3>3. server'[i] # "running" \/ tcp'[i] = "connected"
      BY <1>1, <2>1, <2>3 DEF Following, Connect, Reconnect, Types, mainVars
    <3>4. Answered(i)' /\ server'[i] # "starting" /\ UNCHANGED <<document, last_commit, agreed>>
      BY <2>1, <2>3 DEF Following, Answered, mainVars, queueVars, logVars, socketVars
    <3> QED
      BY <2>3, <3>2, <3>3, <3>4, FollowingMoves
  <2>4. CASE Unasked(i)
    BY <2>1, <2>2, <2>4 DEF Unasked, Phase, queueVars, socketVars
  <2>5. CASE Asking(i)
    BY <2>1, <2>2, <2>5 DEF Asking, Phase, queueVars, socketVars
  <2>6. ~Answering(i)
    BY <2>1 DEF Answering
  <2>7. CASE Unserved(i)
    BY <2>1, <2>7 DEF Unserved, Answered, Phase, queueVars, socketVars, pageVars
  <2> QED
    BY <2>3, <2>4, <2>5, <2>6, <2>7 DEF Phase
<1>2. CASE Refused(i)
  <2>1. /\ server[i] # "running" /\ to_server'[i] = <<>>
        /\ UNCHANGED <<mainVars, queueVars, logVars, to_bridge, socketVars, pageVars>>
    BY <1>2 DEF Refused, Types
  <2>2. Nothing(i) => Nothing(i)'
    BY <2>1 DEF Nothing, mainVars, queueVars, logVars, socketVars, pageVars
  <2>3. CASE Following(i)
    <3>1. InFlight(i)' = InFlight(i) /\ page' = page
      BY <2>1 DEF InFlight, mainVars, socketVars, pageVars
    <3>2. SettledPage(i)' = SettledPage(i)
      BY <3>1 DEF SettledPage
    <3>3. Answered(i)' /\ server'[i] = server[i] /\ UNCHANGED <<document, last_commit, agreed>>
      BY <2>1, <2>3 DEF Following, Answered, mainVars, queueVars, logVars, socketVars
    <3> QED
      BY <2>1, <2>3, <3>2, <3>3, FollowingMoves DEF Following
  <2>4. CASE Unasked(i)
    BY <2>1, <2>2, <2>4 DEF Unasked, Phase, queueVars, socketVars
  <2>5. CASE Asking(i)
    BY <2>1, <2>5 DEF Asking, Nothing, Unserved, Answered, Phase, queueVars, socketVars, pageVars
  <2>6. ~Answering(i)
    BY <2>1 DEF Answering
  <2>7. CASE Unserved(i)
    BY <2>1, <2>7 DEF Unserved, Answered, Phase, queueVars, socketVars, pageVars
  <2> QED
    BY <2>3, <2>4, <2>5, <2>6, <2>7 DEF Phase
<1>3. CASE Forward(i)
  <2> DEFINE h == Head(to_ws[i])
  <2>1. /\ to_ws[i] # <<>> /\ (to_server'[i] = to_server[i] \/ to_server'[i] = Append(to_server[i], h))
        /\ UNCHANGED <<mainVars, queueVars, logVars, tcp, to_bridge, joined, to_page, pageVars>>
    BY <1>3 DEF Forward, Types
  <2>2. h \in AnyEdit
    BY <2>1, TailTyped DEF Types
  <2>3. Nothing(i) => Nothing(i)'
    BY <2>1 DEF Nothing, mainVars, queueVars, logVars, pageVars
  <2>4. to_server[i] \in Seq(AnyEdit) => to_server'[i] \in Seq(AnyEdit)
    BY <2>1, <2>2
  <2>5. CASE Following(i)
    <3>1. InFlight(i)' = InFlight(i) /\ page' = page
      BY <2>1 DEF InFlight, mainVars, pageVars
    <3>2. SettledPage(i)' = SettledPage(i)
      BY <3>1 DEF SettledPage
    <3>3. Answered(i)' /\ server'[i] = server[i] /\ tcp'[i] = tcp[i]
          /\ UNCHANGED <<document, last_commit, agreed>>
      BY <2>1, <2>4, <2>5 DEF Following, Answered, mainVars, queueVars, logVars
    <3> QED
      BY <2>5, <3>2, <3>3, FollowingMoves DEF Following
  <2>6. ~Unasked(i)
    BY <2>1 DEF Unasked
  <2>7. CASE Asking(i)
    <3> DEFINE q == to_server[i]
    <3>1. q # <<>> /\ Head(q) = Fetch /\ Tail(q) \in Seq(AnyEdit) /\ q \in Seq(Written) /\ h \in Written
      BY <2>2, <2>7 DEF Asking, Types, Written
    <3>2. \A s \in Seq(Written) : \A e \in Written : s # <<>> =>
            /\ Append(s, e) # <<>> /\ Head(Append(s, e)) = Head(s)
            /\ Tail(Append(s, e)) = Append(Tail(s), e)
      BY HeadTailAppend, AppendProperties
    <3>3. Append(q, h) # <<>> /\ Head(Append(q, h)) = Fetch /\ Tail(Append(q, h)) \in Seq(AnyEdit)
      BY <2>2, <3>1, <3>2
    <3> HIDE DEF h
    <3> QED
      BY <2>1, <2>3, <2>7, <3>3 DEF Asking, Phase, queueVars
  <2>8. CASE Answering(i)
    BY <2>1, <2>3, <2>4, <2>8 DEF Answering, Phase, mainVars, queueVars
  <2>9. CASE Unserved(i)
    BY <2>1, <2>4, <2>9 DEF Unserved, Answered, Phase, queueVars, pageVars
  <2> QED
    BY <2>5, <2>6, <2>7, <2>8, <2>9 DEF Phase
<1>4. CASE Deliver(i)
  <2> DEFINE h == Head(to_bridge[i])
  <2>1. /\ to_bridge[i] # <<>> /\ to_bridge' = [to_bridge EXCEPT ![i] = Tail(@)]
        /\ to_page' = IF joined[i] THEN [to_page EXCEPT ![i] = Append(@, h)] ELSE to_page
        /\ UNCHANGED <<mainVars, queueVars, logVars, tcp, to_server, joined, pageVars>>
    BY <1>4 DEF Deliver
  <2>2. Following(i) \/ Unserved(i)
    BY <2>1 DEF Phase, Unasked, Asking, Answering, Nothing
  <2>3. joined[i] /\ to_page'[i] = Append(to_page[i], h) /\ to_bridge'[i] = Tail(to_bridge[i])
    BY <2>1, <2>2 DEF Following, Unserved, Answered, Types
  <2>4. CASE Following(i)
    <3>1. /\ to_page[i] \in Seq(Line) /\ to_bridge[i] \in Seq(Line) /\ unsent[i] \in Seq(Line)
          /\ h \in Line /\ Tail(to_bridge[i]) \in Seq(Line) /\ to_bridge[i] = <<h>> \o Tail(to_bridge[i])
      BY <2>1, TailTyped, InFlightType DEF Types
    <3> HIDE DEF h
    <3>2. InFlight(i)' = InFlight(i)
      <4>1. InFlight(i)' = Append(to_page[i], h) \o Tail(to_bridge[i]) \o unsent[i]
        BY <2>1, <2>3 DEF InFlight, mainVars
      <4>2. InFlight(i) = to_page[i] \o (<<h>> \o Tail(to_bridge[i])) \o unsent[i]
        BY <3>1 DEF InFlight
      <4>3. Append(to_page[i], h) \o Tail(to_bridge[i]) \o unsent[i] =
              to_page[i] \o (<<h>> \o Tail(to_bridge[i])) \o unsent[i]
        <5> DEFINE a == to_page[i]  b == Tail(to_bridge[i])  c == unsent[i]
        <5>1. a \in Seq(Line) /\ b \in Seq(Line) /\ c \in Seq(Line) /\ h \in Line
          BY <3>1
        <5> HIDE DEF a, b, c
        <5>2. Append(a, h) \o b \o c = a \o (<<h>> \o b) \o c
          BY <5>1, SameInFlight, Zenon
        <5> QED
          BY <5>2 DEF a, b, c
      <4> QED
        BY <4>1, <4>2, <4>3
    <3>3. SettledPage(i)' = SettledPage(i)
      BY <2>1, <3>2 DEF SettledPage, pageVars
    <3>4. Answered(i)' /\ server'[i] = server[i] /\ tcp'[i] = tcp[i]
          /\ UNCHANGED <<document, last_commit, agreed>>
      BY <2>1, <2>4 DEF Following, Answered, mainVars, queueVars, logVars
    <3> QED
      BY <2>4, <3>3, <3>4, FollowingMoves DEF Following
  <2>5. CASE Unserved(i)
    <3>1. h \in AnyEdit /\ Tail(to_bridge[i]) \in Seq(AnyEdit)
      BY <2>1, <2>5, TailTyped DEF Unserved
    <3>2. to_page'[i] \in Seq(AnyEdit)
      BY <2>3, <2>5, <3>1 DEF Unserved
    <3> QED
      BY <2>1, <2>3, <2>5, <3>1, <3>2 DEF Unserved, Answered, Phase, queueVars, pageVars
  <2> QED
    BY <2>2, <2>4, <2>5
<1> QED
  BY <1>1, <1>2, <1>3, <1>4 DEF Bridge

\* A command agreed on or dropped: there is one only where edits were sent.
LEMMA PhaseLog ==
  ASSUME NEW i \in Node, Types, LogInv, Phase(i), Agree(i) \/ Drop(i)
  PROVE  Phase(i)' /\ LogGrows
<1>1. PICK k \in DOMAIN submitted[i] :
        /\ submitted' = [submitted EXCEPT ![i] = RemoveAt(@, k)]
        /\ agreed' = agreed \/ agreed' = Append(agreed, submitted[i][k])
  BY DEF Agree, Drop
<1>2. submitted[i][k] \in AnyEdit /\ submitted[i] # <<>>
  BY DEF Types
<1>3. LogGrows
  BY <1>1, <1>2 DEF LogGrows
<1>4. Following(i) \/ Unserved(i)
  BY <1>2 DEF Phase, Unasked, Asking, Answering, Nothing
<1>5. Still(i)
  BY DEF Agree, Drop, Still, mainVars, queueVars, bridgeVars, socketVars, pageVars
<1> QED
  BY <1>3, <1>4, <1>5, PhaseStill

\* Where nothing was agreed on the client thread reads what was loaded.
LEMMA ReadsInitial ==
  ASSUME NEW i \in Node, Types, LogInv, Nothing(i), NEW t \in ReadDocument(i)
  PROVE  t = InitialText
<1> DEFINE old == document[i]
<1>1. ~(last_commit[i] < commit_index[i])
  <2>1. Len(agreed) = 0
    BY DEF Nothing
  <2> QED
    BY <2>1 DEF LogInv
<1>2. old = InitialText /\ old \in Seq(Char)
  BY CharTexts DEF Nothing
<1> DEFINE e == agreed[last_commit[i] + 1]
           new == IF last_commit[i] < commit_index[i] /\ unsent[i] = <<>> /\ ~Throws(old, e)
                    THEN Edited(old, e) ELSE old
<1>3. t \in UNION {{u \in [1..n -> Range(old) \cup Range(new)] :
                      \A k \in 1..n : \/ k <= Len(old) /\ u[k] = old[k]
                                      \/ k <= Len(new) /\ u[k] = new[k]} :
                   n \in {Len(old), Len(new)}}
  BY DEF ReadDocument
<1>4. new = old
  BY <1>1
<1> HIDE DEF new
<1>5. t \in UNION {{u \in [1..n -> Range(old)] : \A k \in 1..n : u[k] = old[k]} : n \in {Len(old)}}
  BY <1>3, <1>4
<1> HIDE DEF old
<1>6. t \in [1..Len(old) -> Range(old)] /\ \A k \in 1..Len(old) : t[k] = old[k]
  BY <1>5
<1>7. old = [k \in 1..Len(old) |-> old[k]]
  BY <1>2
<1>8. t = [k \in 1..Len(old) |-> t[k]]
  BY <1>6
<1>9. t = old
  BY <1>6, <1>7, <1>8
<1> QED
  BY <1>2, <1>9

\* The client thread answers the fetch, with nothing to tear the text.
LEMMA PhaseClientLoop ==
  ASSUME NEW i \in Node, Types, LogInv, Phase(i), ClientLoop(i)
  PROVE  Phase(i)'
<1> DEFINE h == Head(to_server[i])
<1>1. /\ server[i] = "running" /\ tcp[i] = "connected" /\ reply[i] = <<>> /\ to_server[i] # <<>>
      /\ to_server'[i] = Tail(to_server[i])
      /\ UNCHANGED <<mainVars, logVars, tcp, to_bridge, socketVars, pageVars>>
  BY DEF ClientLoop, Types
<1>2. ~Unasked(i) /\ ~Answering(i)
  BY <1>1 DEF Unasked, Answering
<1>3. CASE Asking(i)
  <2>1. PICK t \in ReadDocument(i) : reply' = [reply EXCEPT ![i] = <<Full(t)>>]
    BY <1>3 DEF ClientLoop, Asking
  <2>2. t = InitialText /\ input_queue' = input_queue
    BY <1>3, ReadsInitial DEF ClientLoop, Asking
  <2>3. reply'[i] = <<Full(InitialText)>>
    BY <2>1, <2>2 DEF Types
  <2>4. Nothing(i)'
    BY <1>1, <1>3, <2>2 DEF Asking, Nothing, mainVars, logVars, socketVars, pageVars
  <2> QED
    BY <1>1, <1>3, <2>3, <2>4 DEF Asking, Answering, Phase, mainVars, socketVars
<1>4. CASE Following(i) \/ Unserved(i)
  <2>1. to_server[i] \in Seq(AnyEdit)
    BY <1>4 DEF Following, Unserved, Answered
  <2>2. h \in AnyEdit /\ Tail(to_server[i]) \in Seq(AnyEdit)
    BY <1>1, <2>1, TailTyped
  <2>3. h # Fetch
    BY <2>2, EditFields
  <2>4. UNCHANGED reply
    BY <2>3 DEF ClientLoop
  <2>5. Answered(i)'
    BY <1>1, <1>4, <2>2, <2>4 DEF Answered, Following, Unserved, socketVars
  <2>6. CASE Following(i)
    <3>1. SettledPage(i)' = SettledPage(i)
      BY <1>1 DEF SettledPage, InFlight, mainVars, socketVars, pageVars
    <3>2. server'[i] = server[i] /\ tcp'[i] = tcp[i] /\ UNCHANGED <<document, last_commit, agreed>>
      BY <1>1 DEF mainVars, logVars
    <3> QED
      BY <2>5, <2>6, <3>1, <3>2, FollowingMoves DEF Following
  <2>7. CASE Unserved(i)
    BY <1>1, <2>5, <2>7 DEF Unserved, Phase, socketVars, pageVars
  <2> QED
    BY <1>4, <2>6, <2>7
<1> QED
  BY <1>2, <1>3, <1>4 DEF Phase

\* The answer is the first line of all.
LEMMA PhaseSendFull ==
  ASSUME NEW i \in Node, Types, LogInv, Phase(i), SendFullDocument(i)
  PROVE  Phase(i)'
<1> DEFINE m == Full(InitialText)
<1>1. /\ reply[i] # <<>> /\ to_bridge' = [to_bridge EXCEPT ![i] = @ \o reply[i]]
      /\ reply'[i] = <<>>
      /\ UNCHANGED <<mainVars, input_queue, logVars, tcp, to_server, socketVars, pageVars>>
  BY DEF SendFullDocument, Types
<1>2. Answering(i) /\ Nothing(i)
  BY <1>1 DEF Phase, Unasked, Asking, Answering, Following, Unserved, Answered
<1>3. m \in FullLine /\ m.text = InitialText
  BY CharTexts DEF Full, FullLine
<1>4. InFlight(i)' = <<m>>
  <2>1. /\ to_page'[i] = <<>> /\ to_bridge'[i] = <<>> \o <<m>> /\ unsent'[i] = <<>>
    BY <1>1, <1>2 DEF Answering, Nothing, Types, mainVars, socketVars
  <2>2. m \in Line
    BY <1>3 DEF Line
  <2> HIDE DEF m
  <2>3. <<>> \o (<<>> \o <<m>>) \o <<>> = <<m>>
    BY <2>2
  <2> QED
    BY <2>1, <2>3 DEF InFlight
<1>5. SettledPage(i)' = Shown(i, page[i], m)
  <2>1. \A p : ShownFold!Fold(i, p, <<m>>) = Shown(i, p, m)
    <3> TAKE p
    <3>1. m \in Line
      BY <1>3 DEF Line
    <3> HIDE DEF m
    <3>2. <<m>> \in Seq(Line) /\ <<m>> # <<>> /\ Head(<<m>>) = m /\ Tail(<<m>>) = <<>>
      BY <3>1
    <3>3. ShownFold!Fold(i, p, <<m>>) = ShownFold!Fold(i, Shown(i, p, m), <<>>)
      BY <3>2, ShownFold!FoldHead
    <3> QED
      BY <3>3, ShownFold!FoldEmpty
  <2>2. page'[i] = page[i]
    BY <1>1 DEF pageVars
  <2> HIDE DEF m
  <2> QED
    BY <1>4, <2>1, <2>2 DEF SettledPage
<1> DEFINE r == Shown(i, page[i], m)
<1>6. r.value = InitialText /\ r.seen = {}
  <2>1. \A p \in AnyPage : Shown(i, p, m).value = m.text /\ Shown(i, p, m).seen = {}
    BY <1>3, ShownFull
  <2> QED
    BY <1>3, <2>1 DEF Types
<1> HIDE DEF r, m
<1>7. ViewIs(r, <<>>, InitialText)
  BY <1>6, ViewStart
<1>8. Applied(i)' = <<>>
  <2>1. agreed' = <<>> /\ last_commit'[i] = 0
    BY <1>1, <1>2 DEF Nothing, LogInv, logVars, mainVars
  <2> QED
    BY <2>1 DEF Applied
<1>9. document'[i] = InitialText
  BY <1>1, <1>2 DEF Nothing, mainVars
<1>10. Answered(i)' /\ server'[i] = "running" /\ tcp'[i] = "connected"
  BY <1>1, <1>2 DEF Answering, Answered, mainVars, socketVars
<1> QED
  BY <1>5, <1>7, <1>8, <1>9, <1>10 DEF Following, Phase, r

\* The next entry is applied and about to be sent.
LEMMA PhaseApplyEntry ==
  ASSUME NEW i \in Node, Types, LogInv, KeyInv, Phase(i), ApplyEntry(i)
  PROVE  Phase(i)'
<1> DEFINE n == last_commit[i]  e == agreed[n + 1]
<1>1. /\ n < commit_index[i] /\ unsent[i] = <<>> /\ ~Throws(document[i], e)
      /\ document'[i] = Edited(document[i], e) /\ unsent'[i] = <<e>> /\ last_commit'[i] = n + 1
      /\ UNCHANGED <<server, queueVars, logVars, bridgeVars, socketVars, pageVars>>
  BY DEF ApplyEntry, Types, LogInv
<1>2. n \in Nat /\ Len(agreed) \in Nat /\ n + 1 <= Len(agreed) /\ agreed \in Seq(AnyEdit)
  BY <1>1, AppendToList DEF LogInv, Types
<1>3. n + 1 \in 1..Len(agreed) /\ e \in AnyEdit /\ e \in Range(agreed)
  <2>1. n + 1 \in 1..Len(agreed)
    BY <1>2
  <2> QED
    BY <1>2, <2>1 DEF Range
<1>4. Following(i) \/ Unserved(i)
  <2>1. agreed # <<>>
    BY <1>2
  <2> QED
    BY <2>1 DEF Phase, Unasked, Asking, Answering, Nothing
<1>5. UNCHANGED <<to_page, to_bridge, page, agreed>>
  BY <1>1 DEF socketVars, bridgeVars, pageVars, logVars
<1>6. Answered(i)'
  BY <1>1, <1>4 DEF Following, Unserved, Answered, queueVars, bridgeVars, socketVars
<1>7. CASE Following(i)
  <2> DEFINE w == to_page[i] \o to_bridge[i]  q == SubSeq(agreed, 1, n)
  <2>1. w \in Seq(Line) /\ e \in Line
    <3>1. \A a, b \in Seq(Line) : a \o b \in Seq(Line)
      BY ConcatProperties
    <3> QED
      BY <1>3, <3>1 DEF Types, Line
  <2>2. InFlight(i) = w /\ InFlight(i)' = Append(w, e)
    <3> HIDE DEF e
    <3>1. InFlight(i) = w \o <<>>
      BY <1>1 DEF InFlight
    <3>2. InFlight(i)' = w \o <<e>>
      BY <1>1, <1>5 DEF InFlight
    <3> HIDE DEF w
    <3>3. w \o <<>> = w /\ w \o <<e>> = Append(w, e)
      BY <2>1
    <3> QED
      BY <3>1, <3>2, <3>3
  <2>3. SettledPage(i)' = Shown(i, SettledPage(i), e) /\ SettledPage(i) \in AnyPage
    <3> HIDE DEF w, e
    <3>1. \A p : \A s \in Seq(Line) : \A m \in Line :
            ShownFold!Fold(i, p, Append(s, m)) = Shown(i, ShownFold!Fold(i, p, s), m)
      BY ShownFold!FoldAppend
    <3>2. \A p \in AnyPage : \A s \in Seq(Line) : ShownFold!Fold(i, p, s) \in AnyPage
      BY PageStays
    <3>3. page[i] \in AnyPage
      BY DEF Types
    <3> QED
      BY <1>5, <2>1, <2>2, <3>1, <3>2, <3>3 DEF SettledPage
  <2>4. q \in Seq(AnyEdit) /\ Range(q) \subseteq Range(agreed) /\ SubSeq(agreed, 1, n + 1) = Append(q, e)
    <3>1. q \in Seq(AnyEdit) /\ Len(q) = n /\ \A k \in 1..n : q[k] = agreed[k]
      BY <1>2, SubSeqIn, SubSeqProperties
    <3>2. Range(q) \subseteq Range(agreed)
      <4>1. \A k \in 1..n : k \in 1..Len(agreed)
        BY <1>2
      <4>2. DOMAIN q = 1..n /\ DOMAIN agreed = 1..Len(agreed)
        BY <1>2, <3>1
      <4> HIDE DEF q, n
      <4> QED
        BY <3>1, <4>1, <4>2 DEF Range
    <3>3. SubSeq(agreed, 1, n + 1) = Append(q, e)
      <4>1. /\ SubSeq(agreed, 1, n + 1) \in Seq(AnyEdit) /\ Len(SubSeq(agreed, 1, n + 1)) = n + 1
            /\ \A k \in 1..n + 1 : SubSeq(agreed, 1, n + 1)[k] = agreed[k]
        BY <1>2, SubSeqIn, SubSeqProperties
      <4> HIDE DEF q
      <4>2. /\ Append(q, e) \in Seq(AnyEdit) /\ Len(Append(q, e)) = n + 1
            /\ Append(q, e)[n + 1] = e /\ \A k \in 1..n : Append(q, e)[k] = q[k]
        BY <1>2, <1>3, <3>1
      <4>3. \A k \in 1..n + 1 : k \in 1..n \/ k = n + 1
        BY <1>2
      <4>4. \A k \in 1..n + 1 : SubSeq(agreed, 1, n + 1)[k] = Append(q, e)[k]
        BY <3>1, <4>1, <4>2, <4>3
      <4> QED
        BY <4>1, <4>2, <4>4, SeqEqual
    <3> QED
      BY <3>1, <3>2, <3>3
  <2>5. \A f \in Range(q) : f.key = e.key => f = e
    <3>1. \A f \in Range(agreed) : f \in AnyEdit
      BY <1>2 DEF Range
    <3>2. Range(agreed) \subseteq Around
      BY <3>1 DEF Around
    <3> HIDE DEF q, e
    <3> QED
      BY <1>3, <2>4, <3>2 DEF KeyInv
  <2>6. ViewIs(SettledPage(i), q, document[i])
    BY <1>7 DEF Following, Applied
  <2>7. Applied(i)' = Append(q, e)
    BY <1>1, <1>5, <2>4 DEF Applied
  <2>8. ViewIs(Shown(i, SettledPage(i), e), Append(q, e), Edited(document[i], e))
    <3> DEFINE p == SettledPage(i)  doc == document[i]
    <3>1. p \in AnyPage /\ doc \in Seq(Char) /\ ViewIs(p, q, doc) /\ ~Throws(doc, e)
          /\ q \in Seq(AnyEdit) /\ e \in AnyEdit
      BY <1>1, <1>3, <2>3, <2>4, <2>6 DEF Types
    <3> HIDE DEF p, doc, q, e
    <3>2. ViewIs(Shown(i, p, e), Append(q, e), Edited(doc, e))
      BY <2>5, <3>1, ViewStep
    <3> QED
      BY <3>2 DEF p, doc
  <2>9. server'[i] # "starting" /\ (server'[i] = "running" => tcp'[i] = "connected")
    BY <1>1, <1>7 DEF Following, bridgeVars
  <2> HIDE DEF q, e
  <2>10. Following(i)'
    BY <1>1, <1>6, <2>3, <2>7, <2>8, <2>9 DEF Following
  <2> QED
    BY <2>10 DEF Phase
<1>8. CASE Unserved(i)
  BY <1>5, <1>6, <1>8 DEF Unserved, Phase
<1> QED
  BY <1>4, <1>7, <1>8

\* The replica's steps keep the phase of its member.
LEMMA PhaseReplica ==
  ASSUME NEW i \in Node, Types, LogInv, KeyInv, Phase(i), Replica(i)
  PROVE  Phase(i)'
<1>1. CASE StartServer(i)
  <2>1. /\ server[i] = "starting" /\ server'[i] = "running"
        /\ UNCHANGED <<document, commit_index, last_commit, unsent>>
        /\ UNCHANGED <<queueVars, logVars, bridgeVars, socketVars, pageVars>>
    BY <1>1 DEF StartServer, Types
  <2>2. Nothing(i) => Nothing(i)'
    BY <2>1 DEF Nothing, queueVars, logVars, bridgeVars, socketVars, pageVars
  <2>3. ~Answering(i) /\ ~Following(i)
    BY <2>1 DEF Answering, Following
  <2>4. CASE Unasked(i)
    BY <2>1, <2>2, <2>4 DEF Unasked, Phase, queueVars, bridgeVars, socketVars
  <2>5. CASE Asking(i)
    BY <2>1, <2>2, <2>5 DEF Asking, Phase, queueVars, bridgeVars, socketVars
  <2>6. CASE Unserved(i)
    BY <2>1, <2>6 DEF Unserved, Answered, Phase, queueVars, bridgeVars, socketVars, pageVars
  <2> QED
    BY <2>3, <2>4, <2>5, <2>6 DEF Phase
<1>2. CASE RunPass(i)
  <2>1. /\ submitted'[i] = submitted[i] \o input_queue[i] /\ input_queue'[i] = <<>>
        /\ UNCHANGED <<server, document, last_commit, unsent, reply, agreed>>
        /\ UNCHANGED <<bridgeVars, socketVars, pageVars>>
    BY <1>2 DEF RunPass, Types
  <2>2. Nothing(i) => Nothing(i)'
    BY <2>1 DEF Nothing, bridgeVars, socketVars, pageVars
  <2>3. CASE Following(i) \/ Unserved(i)
    <3>1. LogGrows /\ Still(i)
      BY <2>1 DEF LogGrows, Still, bridgeVars, socketVars, pageVars
    <3> QED
      BY <2>3, <3>1, PhaseStill
  <2>4. CASE Unasked(i)
    BY <2>1, <2>2, <2>4 DEF Unasked, Phase, bridgeVars, socketVars
  <2>5. CASE Asking(i)
    BY <2>1, <2>2, <2>5 DEF Asking, Phase, bridgeVars, socketVars
  <2>6. CASE Answering(i)
    BY <2>1, <2>2, <2>6 DEF Answering, Phase, bridgeVars, socketVars
  <2> QED
    BY <2>3, <2>4, <2>5, <2>6 DEF Phase
<1>3. CASE Die(i)
  <2>1. /\ last_commit[i] < commit_index[i] /\ server'[i] = "dead" /\ to_server'[i] = <<>>
        /\ UNCHANGED <<document, commit_index, last_commit, unsent, queueVars, logVars>>
        /\ UNCHANGED <<to_bridge, socketVars, pageVars>>
    BY <1>3 DEF Die, Types
  <2>2. Following(i) \/ Unserved(i)
    <3>1. agreed # <<>>
      BY <2>1, AppendToList DEF LogInv
    <3> QED
      BY <3>1 DEF Phase, Unasked, Asking, Answering, Nothing
  <2>3. Answered(i)'
    BY <2>1, <2>2 DEF Following, Unserved, Answered, queueVars, socketVars
  <2>4. CASE Following(i)
    <3>1. SettledPage(i)' = SettledPage(i)
      BY <2>1 DEF SettledPage, InFlight, socketVars, pageVars
    <3>2. UNCHANGED <<document, last_commit, agreed>>
      BY <2>1 DEF logVars
    <3> QED
      BY <2>1, <2>3, <2>4, <3>1, <3>2, FollowingMoves
  <2>5. CASE Unserved(i)
    BY <2>1, <2>3, <2>5 DEF Unserved, Phase, socketVars, pageVars
  <2> QED
    BY <2>2, <2>4, <2>5
<1>4. CASE BroadcastEntry(i)
  <2>1. /\ server[i] = "running" /\ unsent[i] # <<>> /\ unsent'[i] = <<>>
        /\ to_bridge'[i] = (IF tcp[i] = "connected" THEN to_bridge[i] \o unsent[i] ELSE to_bridge[i])
        /\ UNCHANGED <<server, document, commit_index, last_commit, queueVars, logVars>>
        /\ UNCHANGED <<tcp, to_server, socketVars, pageVars>>
    BY <1>4 DEF BroadcastEntry, Types
  <2>2. Following(i) \/ Unserved(i)
    BY <2>1 DEF Phase, Unasked, Asking, Answering, Nothing
  <2>3. Answered(i)'
    BY <2>1, <2>2 DEF Following, Unserved, Answered, queueVars, socketVars
  <2>4. CASE Following(i)
    <3>1. InFlight(i)' = InFlight(i)
      <4>1. to_bridge'[i] = to_bridge[i] \o unsent[i] /\ to_page'[i] = to_page[i]
        BY <2>1, <2>4 DEF Following, socketVars
      <4> DEFINE a == to_page[i]  b == to_bridge[i]  c == unsent[i]
      <4>2. a \in Seq(Line) /\ b \in Seq(Line) /\ c \in Seq(Line)
        BY InFlightType DEF Types
      <4> HIDE DEF a, b, c
      <4>3. b \o c \in Seq(Line) /\ a \o (b \o c) \in Seq(Line) /\ a \o (b \o c) = a \o b \o c
        BY <4>2, ConcatProperties, ConcatAssociative
      <4>4. a \o (b \o c) \o <<>> = a \o b \o c
        BY <4>3, ConcatEmptySeq
      <4> QED
        BY <2>1, <4>1, <4>4 DEF InFlight, a, b, c
    <3>2. SettledPage(i)' = SettledPage(i)
      BY <2>1, <3>1 DEF SettledPage, pageVars
    <3>3. UNCHANGED <<document, last_commit, agreed>>
      BY <2>1 DEF logVars
    <3> QED
      BY <2>1, <2>3, <2>4, <3>2, <3>3, FollowingMoves DEF Following
  <2>5. CASE Unserved(i)
    <3>1. to_bridge[i] \in Seq(AnyEdit) /\ unsent[i] \in Seq(AnyEdit)
      BY <2>5 DEF Unserved, Types
    <3>2. to_bridge'[i] \in Seq(AnyEdit)
      BY <2>1, <3>1, ConcatProperties
    <3> QED
      BY <2>1, <2>3, <2>5, <3>2 DEF Unserved, Phase, socketVars, pageVars
  <2> QED
    BY <2>2, <2>4, <2>5
<1> QED
  BY <1>1, <1>2, <1>3, <1>4, PhaseClientLoop, PhaseSendFull, PhaseApplyEntry DEF Replica

\* A step of member i that leaves the log alone, or only appends to it, is nothing to
\* the others.
LEMMA OthersStill ==
  ASSUME NEW i \in Node, NEW j \in Node, i # j, Types, LogInv,
         \/ Type(i) \/ Join(i) \/ Retry(i) \/ ApplyOperation(i)
         \/ Bridge(i)
         \/ Replica(i)
         \/ Agree(i) \/ Drop(i)
  PROVE  Still(j)
<1>1. ASSUME NEW e, NEW c, Typed(i, e, c) PROVE Still(j)
  BY <1>1 DEF Typed, Still, Types, mainVars, queueVars, logVars, bridgeVars
<1>2. CASE SelectionChange(i) \/ ApplyOperation(i) \/ Retry(i) \/ Join(i)
  BY <1>2 DEF SelectionChange, ApplyOperation, Retry, Join, Still, Types, mainVars, queueVars,
              logVars, bridgeVars, socketVars, pageVars
<1>3. CASE Bridge(i)
  BY <1>3 DEF Bridge, Connect, Refused, Reconnect, Forward, Deliver, Still, Types, mainVars,
              queueVars, logVars, socketVars, pageVars
<1>4. CASE StartServer(i) \/ ClientLoop(i) \/ SendFullDocument(i) \/ RunPass(i)
  BY <1>4 DEF StartServer, ClientLoop, SendFullDocument, RunPass, Still, Types, mainVars,
              queueVars, logVars, bridgeVars, socketVars, pageVars
<1>5. CASE ApplyEntry(i)
  <2>1. last_commit' = [last_commit EXCEPT ![i] = @ + 1]
    BY <1>5 DEF ApplyEntry
  <2>2. last_commit'[j] = last_commit[j]
    BY <2>1 DEF LogInv
  <2> QED
    BY <1>5, <2>2 DEF ApplyEntry, Still, Types, queueVars, logVars, bridgeVars, socketVars, pageVars
<1>6. CASE Die(i) \/ BroadcastEntry(i)
  BY <1>6 DEF Die, BroadcastEntry, Still, Types, queueVars, logVars, bridgeVars, socketVars, pageVars
<1>7. CASE Agree(i) \/ Drop(i)
  BY <1>7 DEF Agree, Drop, Still, mainVars, queueVars, bridgeVars, socketVars, pageVars
<1> QED
  BY <1>1, <1>2, <1>3, <1>4, <1>5, <1>7, <1>6, Typing DEF Type, Replica

\* Every step keeps every member in a phase.
LEMMA PhaseNext ==
  Types /\ LogInv /\ KeyInv /\ (\A j \in Node : Phase(j)) /\ [Next]_vars => \A j \in Node : Phase(j)'
<1> SUFFICES ASSUME Types, LogInv, KeyInv, \A j \in Node : Phase(j), [Next]_vars, NEW j \in Node
             PROVE  Phase(j)'
  OBVIOUS
<1>1. CASE UNCHANGED vars
  <2>1. SettledPage(j)' = SettledPage(j) /\ Applied(j)' = Applied(j)
    BY <1>1 DEF SettledPage, InFlight, Applied, vars, mainVars, logVars, bridgeVars, socketVars, pageVars
  <2>2. Nothing(j) => Nothing(j)'
    BY <1>1 DEF Nothing, vars, mainVars, queueVars, logVars, bridgeVars, socketVars, pageVars
  <2>3. CASE Following(j)
    BY <1>1, <2>1, <2>3 DEF Following, Answered, Phase, vars, mainVars, queueVars, bridgeVars, socketVars
  <2>4. CASE Unasked(j)
    BY <1>1, <2>2, <2>4 DEF Unasked, Phase, vars, queueVars, bridgeVars, socketVars
  <2>5. CASE Asking(j)
    BY <1>1, <2>2, <2>5 DEF Asking, Phase, vars, queueVars, bridgeVars, socketVars
  <2>6. CASE Answering(j)
    BY <1>1, <2>2, <2>6 DEF Answering, Phase, vars, mainVars, queueVars, bridgeVars, socketVars
  <2>7. CASE Unserved(j)
    BY <1>1, <2>7 DEF Unserved, Answered, Phase, vars, queueVars, bridgeVars, socketVars, pageVars
  <2> QED
    BY <2>3, <2>4, <2>5, <2>6, <2>7 DEF Phase
<1>2. ASSUME NEW i \in Node,
             \/ Type(i) \/ Join(i) \/ Retry(i) \/ ApplyOperation(i)
             \/ Bridge(i)
             \/ Replica(i)
             \/ Agree(i) \/ Drop(i)
      PROVE  Phase(j)'
  <2>1. CASE i = j
    BY <1>2, <2>1, PhaseType, PhaseJoin, PhaseRetry, PhaseApply, PhaseBridge, PhaseReplica, PhaseLog
  <2>2. CASE i # j
    <3>1. Still(j)
      BY <1>2, <2>2, OthersStill
    <3>2. Following(j) \/ Unserved(j)
      BY <2>2, OthersFollow
    <3>3. LogGrows
      <4>1. CASE Agree(i) \/ Drop(i)
        BY <4>1, PhaseLog
      <4>2. ASSUME NEW e, NEW c, Typed(i, e, c) PROVE LogGrows
        BY <4>2 DEF Typed, LogGrows, logVars
      <4>3. CASE SelectionChange(i) \/ Join(i) \/ Retry(i) \/ ApplyOperation(i) \/ Bridge(i) \/ Replica(i)
        BY <4>3 DEF SelectionChange, Join, Retry, ApplyOperation, Bridge, Connect, Refused, Reconnect,
                    Forward, Deliver, Replica, StartServer, ClientLoop, SendFullDocument, RunPass,
                    ApplyEntry, Die, BroadcastEntry, LogGrows, logVars
      <4> QED
        BY <1>2, <4>1, <4>2, <4>3, Typing DEF Type
    <3> QED
      BY <3>1, <3>2, <3>3, PhaseStill
  <2> QED
    BY <2>1, <2>2
<1> QED
  BY <1>1, <1>2 DEF Next

\* The pages have loaded before anyone types: they were open, or there is one.
JoinsFirst == Start = "open" \/ \E i : Node = {i}

\* It starts that way.
LEMMA ShownInit == JoinsFirst /\ Init => ShownInv
<1> SUFFICES ASSUME JoinsFirst, Init PROVE ShownInv
  OBVIOUS
<1> DEFINE empty == [value |-> <<>>, cursor |-> 0, seen |-> {}, pending |-> {}, loaded |-> FALSE]
           full == [value |-> InitialText, cursor |-> Len(InitialText), seen |-> {}, pending |-> {},
                    loaded |-> TRUE]
<1>1. page = [i \in Node |-> IF Start = "open" THEN full ELSE empty]
  BY DEF Init, Shown, Full
<1>2. empty \in AnyPage /\ full \in AnyPage
  <2>1. Len(InitialText) \in Int /\ InitialText \in Seq(Char)
    BY CharTexts
  <2>2. empty \in AnyPage
    BY DEF AnyPage
  <2> QED
    BY <2>1, <2>2 DEF AnyPage
<1>3. empty.loaded = FALSE /\ full.value = InitialText /\ full.seen = {}
      /\ empty.pending = {} /\ full.pending = {}
  OBVIOUS
<1> HIDE DEF empty, full
<1>4. Types
  <2>1. \A S : <<>> \in Seq(S)
    OBVIOUS
  <2>2. page \in [Node -> AnyPage]
    BY <1>1, <1>2
  <2> QED
    BY <2>1, <2>2, CharTexts, EditorBoundAssumption DEF Init, Types
<1>5. Around = {} /\ \A i \in Node : EditsOf(i) = {}
  <2>1. \A i \in Node : EditsOf(i) = {}
    BY <1>1, <1>3, NoLines DEF Init, EditsOf
  <2> QED
    BY <2>1, NoLines DEF Init, Around
<1>6. KeyInv
  BY <1>5 DEF KeyInv
<1>7. ASSUME NEW i \in Node PROVE Phase(i)
  <2>1. CASE Start = "open"
    <3>1. InFlight(i) = <<>>
      <4>1. InFlight(i) = <<>> \o <<>> \o <<>>
        BY DEF Init, InFlight
      <4> QED
        BY <4>1
    <3>2. SettledPage(i) = full
      <4>1. page[i] = full
        BY <1>1, <2>1
      <4> QED
        BY <3>1, <4>1, ShownFold!FoldEmpty DEF SettledPage
    <3>3. Applied(i) = <<>> /\ document[i] = InitialText
      BY DEF Init, Applied
    <3>4. ViewIs(SettledPage(i), Applied(i), document[i])
      BY <1>3, <3>2, <3>3, ViewStart
    <3>5. joined[i] = TRUE /\ reply[i] = <<>> /\ to_server[i] = <<>>
          /\ server[i] = "running" /\ tcp[i] = "connected"
      BY <2>1 DEF Init
    <3>6. Answered(i)
      BY <3>5 DEF Answered
    <3> QED
      BY <3>4, <3>5, <3>6 DEF Following, Phase
  <2>2. CASE Start # "open"
    <3>1. Node = {i}
      BY <2>2 DEF JoinsFirst
    <3>2. ~page[i].loaded
      BY <1>1, <1>3, <2>2
    <3> QED
      BY <2>2, <3>1, <3>2 DEF Init, Nothing, Unasked, Phase
  <2> QED
    BY <2>1, <2>2
<1> QED
  BY <1>4, <1>6, <1>7 DEF ShownInv

\* Nothing is agreed on, each replica has the document it loaded.
LEMMA LogInit == Init => LogInv /\ DocumentInv
<1> SUFFICES ASSUME Init PROVE LogInv /\ DocumentInv
  OBVIOUS
<1>1. agreed = <<>> /\ IsList(agreed) /\ Len(agreed) = 0
  <2>1. agreed \in Seq({})
    BY DEF Init
  <2> QED
    BY <2>1 DEF Init, IsList
<1>2. LogInv
  BY <1>1 DEF Init, LogInv
<1>3. Documents([n \in {0} |-> InitialText])
  BY <1>1 DEF Documents
<1>4. DocumentInv
  BY <1>3 DEF Init, DocumentInv
<1> QED
  BY <1>2, <1>4

\* A page that is loaded once all has arrived is one that follows its replica.
LEMMA LoadedFollows ==
  ASSUME Types, NEW i \in Node, Phase(i), SettledPage(i).loaded
  PROVE  Following(i)
<1>1. CASE Nothing(i)
  <2>1. InFlight(i) = <<>>
    <3>1. InFlight(i) = <<>> \o <<>> \o <<>>
      BY <1>1 DEF Nothing, InFlight
    <3> QED
      BY <3>1
  <2>2. SettledPage(i) = page[i]
    BY <2>1, ShownFold!FoldEmpty DEF SettledPage
  <2> QED
    BY <1>1, <2>2 DEF Nothing
<1>2. CASE Unserved(i)
  <2>1. InFlight(i) \in Seq(AnyEdit)
    BY <1>2, ConcatProperties DEF InFlight, Unserved, Types
  <2>2. ~page[i].loaded /\ page[i] \in AnyPage
    BY <1>2 DEF Unserved, Types
  <2>3. \A p \in AnyPage : \A q \in Seq(AnyEdit) : ~p.loaded => ~ShownFold!Fold(i, p, q).loaded
    BY EditsLoadNothing
  <2> QED
    BY <2>1, <2>2, <2>3 DEF SettledPage
<1> QED
  BY <1>1, <1>2 DEF Phase, Unasked, Asking, Answering

\* So a loaded page shows each edit of the log once.
LEMMA ShownSafe == Types /\ (\A i \in Node : Phase(i)) => ShowsEachEditOnce
<1> SUFFICES ASSUME Types, \A i \in Node : Phase(i), NEW i \in Node, Settled(i).loaded
             PROVE  Settled(i).value = FoldLeft(PageEdited, InitialText,
                                                FirstOccurrences(SubSeq(agreed, 1, last_commit[i])))
  BY DEF ShowsEachEditOnce
<1>1. Settled(i) = SettledPage(i)
  BY SettledFolds DEF SettledPage
<1>2. Following(i)
  BY <1>1, LoadedFollows
<1> QED
  BY <1>1, <1>2 DEF Following, ViewIs, Applied

\* And the document of its replica, when the entries of that are plain.
LEMMA PlainView ==
  ShownInv => \A i \in Node : Settled(i).loaded /\ Plain(Applied(i)) =>
                               Settled(i).value = document[i]
<1> SUFFICES ASSUME ShownInv, NEW i \in Node, Settled(i).loaded, Plain(Applied(i))
             PROVE  Settled(i).value = document[i]
  OBVIOUS
<1>1. Settled(i) = SettledPage(i)
  BY SettledFolds DEF SettledPage
<1>2. Following(i)
  BY <1>1, LoadedFollows DEF ShownInv
<1> QED
  BY <1>1, <1>2 DEF Following, ViewIs

\* However often an edit is sent, repeated or reordered on its way into the log
\* (retryPending of frontend.html, submit_client_command), a page that was given the
\* document shows it once, in the order of the log: applyOperation drops the key it has
\* seen.  For any number of pages that were open from the start, or one that was not.
THEOREM ShownOnce == JoinsFirst => (Spec => []ShowsEachEditOnce)
<1> SUFFICES ASSUME JoinsFirst PROVE Spec => []ShowsEachEditOnce
  OBVIOUS
<1>1. Init => ShownInv /\ LogInv /\ DocumentInv
  BY ShownInit, LogInit
<1>2. ShownInv /\ LogInv /\ DocumentInv /\ [Next]_vars => (ShownInv /\ LogInv /\ DocumentInv)'
  BY TypesNext, KeysNext, PhaseNext, NextDocuments DEF ShownInv
<1>3. ShownInv => ShowsEachEditOnce
  BY ShownSafe DEF ShownInv
<1> QED
  BY <1>1, <1>2, <1>3, PTL DEF Spec

-----------------------------------------------------------------------------
(* When no copy is sent while another may be on its way, no edit is agreed *)
(* on twice.                                                               *)

\* The keys of the edits in the list q, and that no two of them are the same.
KeysIn(q) == {q[n].key : n \in {m \in DOMAIN q : q[m] # Fetch}}
Single(q) == \A m, n \in DOMAIN q : q[m] # Fetch /\ q[n] # Fetch /\ q[m].key = q[n].key => m = n

Apart(i) ==
  /\ KeysIn(to_ws[i]) \cap KeysIn(to_server[i]) = {}
  /\ KeysIn(to_ws[i]) \cap KeysIn(input_queue[i]) = {}
  /\ KeysIn(to_ws[i]) \cap KeysIn(submitted[i]) = {}
  /\ KeysIn(to_ws[i]) \cap KeysIn(agreed) = {}
  /\ KeysIn(to_server[i]) \cap KeysIn(input_queue[i]) = {}
  /\ KeysIn(to_server[i]) \cap KeysIn(submitted[i]) = {}
  /\ KeysIn(to_server[i]) \cap KeysIn(agreed) = {}
  /\ KeysIn(input_queue[i]) \cap KeysIn(submitted[i]) = {}
  /\ KeysIn(input_queue[i]) \cap KeysIn(agreed) = {}
  /\ KeysIn(submitted[i]) \cap KeysIn(agreed) = {}

KeysHeld(i) ==
  KeysIn(to_ws[i]) \cup KeysIn(to_server[i]) \cup KeysIn(input_queue[i]) \cup KeysIn(submitted[i])

OnceAt(i) ==
  /\ Single(to_ws[i]) /\ Single(to_server[i]) /\ Single(input_queue[i]) /\ Single(submitted[i])
  /\ Apart(i)
  /\ \A k \in KeysHeld(i) : k \in Key /\ k[1] = i /\ copies[k] = 1

OnceInv ==
  /\ copies \in [Key -> 0..1]
  /\ Single(agreed)
  /\ \A k \in KeysIn(agreed) : k \in Key /\ copies[k] = 1
  /\ \A i \in Node : OnceAt(i)

\* Cursors and positions are not in front of the text.
EditsFor(i) == (Range(to_page[i]) \cup Range(to_bridge[i]) \cup Range(unsent[i])) \ FullLine
InText(i) == page[i].cursor >= 0 /\ \A e \in EditsFor(i) : e.pos >= 0
PositionInv == (\A i \in Node : InText(i)) /\ \A e \in Around : e.pos >= 0

\* An empty list has no keys.
LEMMA KeysOfNone == KeysIn(<<>>) = {} /\ Single(<<>>)
BY DEF KeysIn, Single

\* A list with one more edit.
LEMMA SingleAppend ==
  \A q \in Seq(Written) : \A e \in Written :
    /\ KeysIn(Append(q, e)) = KeysIn(q) \cup (IF e = Fetch THEN {} ELSE {e.key})
    /\ Single(q) /\ (e # Fetch => e.key \notin KeysIn(q)) => Single(Append(q, e))
<1> SUFFICES ASSUME NEW q \in Seq(Written), NEW e \in Written
             PROVE  /\ KeysIn(Append(q, e)) = KeysIn(q) \cup (IF e = Fetch THEN {} ELSE {e.key})
                    /\ Single(q) /\ (e # Fetch => e.key \notin KeysIn(q)) => Single(Append(q, e))
  OBVIOUS
<1> DEFINE n == Len(q)  w == Append(q, e)
<1>1. n \in Nat /\ DOMAIN q = 1..n /\ DOMAIN w = 1..n + 1
      /\ w[n + 1] = e /\ \A m \in 1..n : w[m] = q[m]
  BY AppendProperties
<1>2. \A m \in 1..n + 1 : m \in 1..n \/ m = n + 1
  BY <1>1
<1>3. n + 1 \in 1..n + 1 /\ \A m \in 1..n : m \in 1..n + 1
  BY <1>1
<1> HIDE DEF n, w
<1>4. KeysIn(w) = KeysIn(q) \cup (IF e = Fetch THEN {} ELSE {e.key})
  BY <1>1, <1>2, <1>3 DEF KeysIn
<1>5. \A m \in 1..n : q[m] # Fetch => q[m].key \in KeysIn(q)
  BY <1>1 DEF KeysIn
<1>6. Single(q) /\ (e # Fetch => e.key \notin KeysIn(q)) => Single(w)
  BY <1>1, <1>2, <1>3, <1>5 DEF Single
<1> QED
  BY <1>4, <1>6 DEF w

\* A list without its first line.
LEMMA SingleTail ==
  \A q \in Seq(Written) : q # <<>> /\ Single(q) =>
    /\ Single(Tail(q)) /\ KeysIn(Tail(q)) \subseteq KeysIn(q)
    /\ Head(q) # Fetch => Head(q).key \in KeysIn(q) \ KeysIn(Tail(q))
<1> SUFFICES ASSUME NEW q \in Seq(Written), q # <<>>, Single(q)
             PROVE  /\ Single(Tail(q)) /\ KeysIn(Tail(q)) \subseteq KeysIn(q)
                    /\ Head(q) # Fetch => Head(q).key \in KeysIn(q) \ KeysIn(Tail(q))
  OBVIOUS
<1> DEFINE n == Len(q)  w == Tail(q)
<1>1. n \in Nat /\ n >= 1 /\ DOMAIN q = 1..n /\ DOMAIN w = 1..n - 1
      /\ q[1] = Head(q) /\ \A m \in 1..n - 1 : w[m] = q[m + 1]
  BY HeadTailProperties
<1>2. 1 \in 1..n /\ \A m \in 1..n - 1 : m + 1 \in 1..n /\ m + 1 # 1
  BY <1>1
<1>3. \A m, k \in 1..n - 1 : m + 1 = k + 1 => m = k
  BY <1>1
<1> HIDE DEF n, w
<1>4. \A m, k \in 1..n : q[m] # Fetch /\ q[k] # Fetch /\ q[m].key = q[k].key => m = k
  BY <1>1 DEF Single
<1>5. Single(w)
  <2> SUFFICES ASSUME NEW m \in 1..n - 1, NEW k \in 1..n - 1, w[m] # Fetch, w[k] # Fetch,
                      w[m].key = w[k].key
               PROVE  m = k
    BY <1>1 DEF Single
  <2>1. w[m] = q[m + 1] /\ w[k] = q[k + 1] /\ m + 1 \in 1..n /\ k + 1 \in 1..n
    BY <1>1, <1>2
  <2>2. m + 1 = k + 1
    BY <1>4, <2>1
  <2> QED
    BY <1>3, <2>2
<1>6. KeysIn(w) \subseteq KeysIn(q)
  BY <1>1, <1>2 DEF KeysIn
<1>7. Head(q) # Fetch => Head(q).key \in KeysIn(q)
  BY <1>1, <1>2 DEF KeysIn
<1>8. Head(q) # Fetch => Head(q).key \notin KeysIn(w)
  <2> SUFFICES ASSUME Head(q) # Fetch, NEW m \in 1..n - 1, w[m] # Fetch, w[m].key = Head(q).key
               PROVE  FALSE
    BY <1>1 DEF KeysIn
  <2>1. w[m] = q[m + 1] /\ m + 1 \in 1..n /\ m + 1 # 1
    BY <1>1, <1>2
  <2> QED
    BY <1>1, <1>2, <1>4, <2>1
<1> QED
  BY <1>5, <1>6, <1>7, <1>8 DEF w

\* Two lists in a row.
LEMMA SingleConcat ==
  \A q, r \in Seq(AnyEdit) :
    /\ KeysIn(q \o r) = KeysIn(q) \cup KeysIn(r)
    /\ Single(q) /\ Single(r) /\ KeysIn(q) \cap KeysIn(r) = {} => Single(q \o r)
<1> SUFFICES ASSUME NEW q \in Seq(AnyEdit), NEW r \in Seq(AnyEdit)
             PROVE  /\ KeysIn(q \o r) = KeysIn(q) \cup KeysIn(r)
                    /\ Single(q) /\ Single(r) /\ KeysIn(q) \cap KeysIn(r) = {} => Single(q \o r)
  OBVIOUS
<1> DEFINE m == Len(q)  n == Len(r)  w == q \o r
<1>1. m \in Nat /\ n \in Nat /\ DOMAIN q = 1..m /\ DOMAIN r = 1..n /\ DOMAIN w = 1..m + n
  BY ConcatProperties
<1>2. /\ \A k \in 1..m : w[k] = q[k]
      /\ \A k \in 1..n : w[m + k] = r[k]
  OBVIOUS
<1> HIDE DEF m, n, w
<1>3. \A k \in 1..m + n : k \in 1..m \/ (k - m \in 1..n /\ m + (k - m) = k)
  BY <1>1
<1>4. (\A k \in 1..m : k \in 1..m + n) /\ (\A k \in 1..n : m + k \in 1..m + n)
  BY <1>1
<1>5. \A k \in 1..m + n : (k \in 1..m /\ w[k] = q[k]) \/ (k - m \in 1..n /\ w[k] = r[k - m])
  BY <1>2, <1>3
<1>6. \A k, l \in 1..m + n : k - m = l - m => k = l
  BY <1>1
<1>7. (\A k \in 1..m : q[k] # Fetch => q[k].key \in KeysIn(q))
      /\ (\A k \in 1..n : r[k] # Fetch => r[k].key \in KeysIn(r))
  BY <1>1 DEF KeysIn
<1>8. KeysIn(w) \subseteq KeysIn(q) \cup KeysIn(r)
  BY <1>1, <1>5, <1>7 DEF KeysIn
<1>9. KeysIn(q) \subseteq KeysIn(w) /\ KeysIn(r) \subseteq KeysIn(w)
  <2>1. \A k \in 1..m + n : w[k] # Fetch => w[k].key \in KeysIn(w)
    BY <1>1 DEF KeysIn
  <2>2. \A k \in 1..m : q[k] # Fetch => q[k].key \in KeysIn(w)
    BY <1>2, <1>4, <2>1
  <2>3. \A k \in 1..n : r[k] # Fetch => r[k].key \in KeysIn(w)
    BY <1>2, <1>4, <2>1
  <2> QED
    BY <1>1, <2>2, <2>3 DEF KeysIn
<1>10. ASSUME Single(q), Single(r), KeysIn(q) \cap KeysIn(r) = {} PROVE Single(w)
  <2> SUFFICES ASSUME NEW k \in 1..m + n, NEW l \in 1..m + n, w[k] # Fetch, w[l] # Fetch,
                      w[k].key = w[l].key
               PROVE  k = l
    BY <1>1 DEF Single
  <2>1. CASE k \in 1..m /\ w[k] = q[k] /\ l \in 1..m /\ w[l] = q[l]
    BY <1>1, <1>10, <2>1 DEF Single
  <2>2. CASE k - m \in 1..n /\ w[k] = r[k - m] /\ l - m \in 1..n /\ w[l] = r[l - m]
    <3>1. k - m = l - m
      BY <1>1, <1>10, <2>2 DEF Single
    <3> QED
      BY <1>6, <3>1
  <2>3. ~(k \in 1..m /\ w[k] = q[k] /\ l - m \in 1..n /\ w[l] = r[l - m])
    BY <1>7, <1>10
  <2>4. ~(l \in 1..m /\ w[l] = q[l] /\ k - m \in 1..n /\ w[k] = r[k - m])
    BY <1>7, <1>10
  <2> QED
    BY <1>5, <2>1, <2>2, <2>3, <2>4
<1> QED
  BY <1>8, <1>9, <1>10 DEF w

\* A list without one of its edits.
LEMMA SingleRemove ==
  \A q \in Seq(AnyEdit) : \A k \in DOMAIN q : Single(q) =>
    /\ Single(RemoveAt(q, k)) /\ KeysIn(RemoveAt(q, k)) \subseteq KeysIn(q)
    /\ q[k].key \in KeysIn(q) \ KeysIn(RemoveAt(q, k))
<1> SUFFICES ASSUME NEW q \in Seq(AnyEdit), NEW k \in DOMAIN q, Single(q)
             PROVE  /\ Single(RemoveAt(q, k)) /\ KeysIn(RemoveAt(q, k)) \subseteq KeysIn(q)
                    /\ q[k].key \in KeysIn(q) \ KeysIn(RemoveAt(q, k))
  OBVIOUS
<1> DEFINE n == Len(q)  a == SubSeq(q, 1, k - 1)  b == SubSeq(q, k + 1, n)
<1>1. n \in Nat /\ k \in 1..n /\ DOMAIN q = 1..n
  OBVIOUS
<1>2. /\ a \in Seq(AnyEdit) /\ DOMAIN a = 1..k - 1 /\ \A m \in 1..k - 1 : a[m] = q[m]
      /\ b \in Seq(AnyEdit) /\ DOMAIN b = 1..n - k /\ \A m \in 1..n - k : b[m] = q[k + m]
  <2>1. k - 1 <= n /\ k + 1 >= 1 /\ n <= n
    BY <1>1
  <2>2. a \in Seq(AnyEdit) /\ b \in Seq(AnyEdit)
    BY <1>1, <2>1, SubSeqIn
  <2>3. DOMAIN a = 1..k - 1 /\ \A m \in 1..k - 1 : a[m] = q[m]
    BY <1>1
  <2>4. DOMAIN b = 1..n - k /\ \A m \in 1..n - k : b[m] = q[k + m]
    BY <1>1
  <2> QED
    BY <2>2, <2>3, <2>4
<1>3. RemoveAt(q, k) = a \o b
  BY DEF RemoveAt
<1>4. \A m \in 1..k - 1 : m \in 1..n /\ m # k /\ m < k
  BY <1>1
<1>5. \A m \in 1..n - k : k + m \in 1..n /\ k + m # k /\ k + m > k
  BY <1>1
<1>6. \A m \in 1..k - 1 : \A l \in 1..n - k : m # k + l
  BY <1>1
<1>7. \A m, l \in 1..n - k : k + m = k + l => m = l
  BY <1>1
<1>8. \A m \in 1..n : q[m] # Fetch /\ q[m].key \in KeysIn(q)
  <2>1. \A m \in 1..n : q[m] \in AnyEdit
    BY <1>1
  <2> QED
    BY <1>1, <2>1, EditFields DEF KeysIn
<1>9. \A m, l \in 1..n : q[m].key = q[l].key => m = l
  BY <1>1, <1>8 DEF Single
<1> HIDE DEF a, b, n
<1>10. Single(a) /\ KeysIn(a) = {q[m].key : m \in 1..k - 1}
  <2>1. Single(a)
    BY <1>2, <1>4, <1>9 DEF Single
  <2>2. KeysIn(a) = {q[m].key : m \in 1..k - 1}
    BY <1>2, <1>4, <1>8 DEF KeysIn
  <2> QED
    BY <2>1, <2>2
<1>11. Single(b) /\ KeysIn(b) = {q[k + m].key : m \in 1..n - k}
  <2>1. Single(b)
    <3> SUFFICES ASSUME NEW m \in 1..n - k, NEW l \in 1..n - k, b[m].key = b[l].key PROVE m = l
      BY <1>2 DEF Single
    <3>1. b[m] = q[k + m] /\ b[l] = q[k + l] /\ k + m \in 1..n /\ k + l \in 1..n
      BY <1>2, <1>5
    <3>2. k + m = k + l
      BY <1>9, <3>1
    <3> QED
      BY <1>7, <3>2
  <2>2. KeysIn(b) = {q[k + m].key : m \in 1..n - k}
    BY <1>2, <1>5, <1>8 DEF KeysIn
  <2> QED
    BY <2>1, <2>2
<1>12. KeysIn(a) \cap KeysIn(b) = {}
  BY <1>4, <1>5, <1>6, <1>10, <1>11, <1>9
<1>13. Single(a \o b) /\ KeysIn(a \o b) = KeysIn(a) \cup KeysIn(b)
  BY <1>2, <1>10, <1>11, <1>12, SingleConcat
<1>14. KeysIn(a) \cup KeysIn(b) \subseteq KeysIn(q) /\ q[k].key \notin KeysIn(a) \cup KeysIn(b)
  BY <1>1, <1>4, <1>5, <1>8, <1>10, <1>11, <1>9
<1> QED
  BY <1>1, <1>3, <1>8, <1>13, <1>14

SameLists(i) ==
  /\ to_ws'[i] = to_ws[i] /\ to_server'[i] = to_server[i]
  /\ input_queue'[i] = input_queue[i] /\ submitted'[i] = submitted[i]

\* A step of member i: what the others hold is other edits.
LEMMA OnceElsewhere ==
  ASSUME OnceInv, NEW i \in Node,
         \A j \in Node : j # i => SameLists(j),
         copies' \in [Key -> 0..1], \A k \in Key : k[1] # i => copies'[k] = copies[k],
         Single(agreed'), KeysIn(agreed') \subseteq KeysIn(agreed) \cup KeysHeld(i),
         \A k \in KeysIn(agreed') : copies'[k] = 1,
         OnceAt(i)'
  PROVE  OnceInv'
<1>1. \A k \in KeysIn(agreed') : k \in Key
  BY DEF OnceInv, OnceAt
<1>2. ASSUME NEW j \in Node, j # i PROVE OnceAt(j)'
  <2>1. SameLists(j) /\ OnceAt(j)
    BY <1>2 DEF OnceInv
  <2>2. KeysHeld(j)' = KeysHeld(j)
    BY <2>1 DEF KeysHeld, SameLists
  <2>3. \A k \in KeysHeld(j)' : k \in Key /\ k[1] = j /\ copies'[k] = 1
    BY <1>2, <2>1, <2>2 DEF OnceAt
  <2>4. \A k \in KeysHeld(i) : k[1] = i
    BY DEF OnceInv, OnceAt
  <2>5. KeysHeld(j) \cap KeysHeld(i) = {}
    BY <1>2, <2>2, <2>3, <2>4
  <2>6. KeysHeld(j) \cap KeysIn(agreed) = {}
    BY <2>1 DEF OnceAt, Apart, KeysHeld
  <2>7. KeysHeld(j) \cap KeysIn(agreed') = {}
    BY <2>5, <2>6
  <2>8. Apart(j)'
    BY <2>1, <2>7 DEF OnceAt, Apart, KeysHeld, SameLists
  <2> QED
    BY <2>1, <2>3, <2>8 DEF OnceAt, SameLists
<1>3. \A j \in Node : OnceAt(j)'
  BY <1>2
<1> QED
  BY <1>1, <1>3 DEF OnceInv

\* The lists and the log are what they were.
LEMMA OnceStill ==
  ASSUME OnceInv, UNCHANGED <<to_ws, to_server, input_queue, submitted, agreed, copies>>
  PROVE  OnceInv'
BY DEF OnceInv, OnceAt, Apart, KeysHeld

\* The keys of a member's lists are keys of its edits around.
LEMMA KeysFrom ==
  \A q \in Seq(Written) : \A k \in KeysIn(q) : \E f \in Range(q) : f \in AnyEdit /\ f # Fetch /\ f.key = k
<1> SUFFICES ASSUME NEW q \in Seq(Written), NEW k \in KeysIn(q)
             PROVE  \E f \in Range(q) : f \in AnyEdit /\ f # Fetch /\ f.key = k
  OBVIOUS
<1>1. PICK n \in DOMAIN q : q[n] # Fetch /\ q[n].key = k
  BY DEF KeysIn
<1>2. q[n] \in Range(q) /\ q[n] \in Written
  BY <1>1 DEF Range
<1> QED
  BY <1>1, <1>2 DEF Written

\* A key in a list is the key of an edit around.
LEMMA HeldEdits ==
  ASSUME Types, NEW i \in Node
  PROVE  /\ \A k \in KeysHeld(i) : \E f \in EditsOf(i) : f \in AnyEdit /\ f.key = k
         /\ \A k \in KeysIn(agreed) : \E f \in Range(agreed) : f \in AnyEdit /\ f.key = k
<1>1. /\ to_ws[i] \in Seq(Written) /\ to_server[i] \in Seq(Written) /\ input_queue[i] \in Seq(Written)
      /\ submitted[i] \in Seq(Written) /\ agreed \in Seq(Written)
  BY DEF Types, Written
<1>2. \A k \in KeysIn(to_ws[i]) : \E f \in Range(to_ws[i]) : f \in AnyEdit /\ f # Fetch /\ f.key = k
  BY <1>1, KeysFrom
<1>3. \A k \in KeysIn(to_server[i]) : \E f \in Range(to_server[i]) : f \in AnyEdit /\ f # Fetch /\ f.key = k
  BY <1>1, KeysFrom
<1>4. \A k \in KeysIn(input_queue[i]) : \E f \in Range(input_queue[i]) : f \in AnyEdit /\ f # Fetch /\ f.key = k
  BY <1>1, KeysFrom
<1>5. \A k \in KeysIn(submitted[i]) : \E f \in Range(submitted[i]) : f \in AnyEdit /\ f # Fetch /\ f.key = k
  BY <1>1, KeysFrom
<1>6. \A k \in KeysIn(agreed) : \E f \in Range(agreed) : f \in AnyEdit /\ f.key = k
  BY <1>1, KeysFrom
<1> QED
  BY <1>2, <1>3, <1>4, <1>5, <1>6 DEF KeysHeld, EditsOf

\* A new edit is sent once.
LEMMA OnceTyped ==
  ASSUME Types, KeyInv, OnceInv, NEW i \in Node, NEW e, NEW c, Typed(i, e, c)
  PROVE  OnceInv'
<1>1. CASE ~joined[i]
  BY <1>1, OnceStill DEF Typed, bridgeVars, queueVars, logVars
<1>2. CASE joined[i]
  <2>1. /\ e \in AnyEdit /\ e.key = <<i, requestId[i]>> /\ e.key \in Key /\ e.key[1] = i
        /\ to_ws' = [to_ws EXCEPT ![i] = Append(to_ws[i], e)]
        /\ copies' = [copies EXCEPT ![e.key] = 1]
        /\ UNCHANGED <<to_server, input_queue, submitted, agreed>>
    BY <1>2, EditFields DEF Typed, bridgeVars, queueVars, logVars
  <2>2. \A f \in EditsOf(i) \cup Range(agreed) : f \in AnyEdit => f.key # e.key
    <3> SUFFICES ASSUME NEW f \in EditsOf(i) \cup Range(agreed), f \in AnyEdit, f.key = e.key
                 PROVE  FALSE
      OBVIOUS
    <3>1. f \in Around
      BY DEF Around
    <3>2. f.key[2] < requestId[f.key[1]]
      BY <3>1 DEF KeyInv
    <3>3. requestId[i] \in Int
      BY EditorBoundAssumption DEF Types
    <3> QED
      BY <2>1, <3>2, <3>3
  <2>3. e.key \notin KeysHeld(i) /\ e.key \notin KeysIn(agreed)
    BY <2>2, HeldEdits
  <2>4. to_ws[i] \in Seq(Written) /\ e \in Written /\ e # Fetch
    BY <2>1, EditFields DEF Types, Written
  <2>5. OnceAt(i) /\ copies \in [Key -> 0..1] /\ Single(agreed)
        /\ \A k \in KeysIn(agreed) : k \in Key /\ copies[k] = 1
    BY DEF OnceInv
  <2>6. /\ KeysIn(to_ws'[i]) = KeysIn(to_ws[i]) \cup {e.key} /\ Single(to_ws'[i])
    <3>1. KeysIn(Append(to_ws[i], e)) = KeysIn(to_ws[i]) \cup {e.key}
      BY <2>4, SingleAppend
    <3>2. Single(to_ws[i]) /\ e.key \notin KeysIn(to_ws[i])
      BY <2>3, <2>5 DEF OnceAt, KeysHeld
    <3>3. Single(Append(to_ws[i], e))
      BY <2>4, <3>2, SingleAppend
    <3> QED
      BY <2>1, <3>1, <3>3 DEF Types
  <2>7. Apart(i)'
    <3>1. Apart(i)
      BY <2>5 DEF OnceAt
    <3>2. /\ e.key \notin KeysIn(to_server[i]) /\ e.key \notin KeysIn(input_queue[i])
          /\ e.key \notin KeysIn(submitted[i]) /\ e.key \notin KeysIn(agreed)
      BY <2>3 DEF KeysHeld
    <3>3. /\ KeysIn(to_server'[i]) = KeysIn(to_server[i])
          /\ KeysIn(input_queue'[i]) = KeysIn(input_queue[i])
          /\ KeysIn(submitted'[i]) = KeysIn(submitted[i]) /\ KeysIn(agreed') = KeysIn(agreed)
          /\ KeysIn(to_ws'[i]) = KeysIn(to_ws[i]) \cup {e.key}
      BY <2>1, <2>6
    <3> QED
      BY <3>1, <3>2, <3>3 DEF Apart
  <2>8. \A k \in KeysHeld(i)' : k \in Key /\ k[1] = i /\ copies'[k] = 1
    <3>1. KeysHeld(i)' = KeysHeld(i) \cup {e.key}
      BY <2>1, <2>6 DEF KeysHeld
    <3> QED
      BY <2>1, <2>5, <3>1 DEF OnceAt
  <2>9. OnceAt(i)'
    BY <2>1, <2>5, <2>6, <2>7, <2>8 DEF OnceAt
  <2>10. /\ copies' \in [Key -> 0..1] /\ \A k \in Key : k[1] # i => copies'[k] = copies[k]
         /\ \A k \in KeysIn(agreed) : copies'[k] = 1
    BY <2>1, <2>5
  <2>11. \A j \in Node : j # i => SameLists(j)
    BY <2>1 DEF SameLists, Types
  <2> QED
    BY <2>1, <2>5, <2>9, <2>10, <2>11, OnceElsewhere
<1> QED
  BY <1>1, <1>2

\* A pending edit is sent again only when no copy is left.
LEMMA OncePage ==
  ASSUME MaxCopies = 1, Types, KeyInv, OnceInv, NEW i \in Node,
         SelectionChange(i) \/ ApplyOperation(i) \/ Retry(i) \/ Join(i)
  PROVE  OnceInv'
<1>1. CASE SelectionChange(i) \/ ApplyOperation(i)
  BY <1>1, OnceStill DEF SelectionChange, ApplyOperation, queueVars, logVars, bridgeVars, socketVars
<1>2. OnceAt(i) /\ copies \in [Key -> 0..1] /\ Single(agreed)
      /\ \A k \in KeysIn(agreed) : k \in Key /\ copies[k] = 1
  BY DEF OnceInv
<1>3. Single(to_ws[i]) /\ Single(to_server[i]) /\ Apart(i)
  BY <1>2 DEF OnceAt
<1>4. CASE Retry(i)
  <2>1. PICK e \in page[i].pending :
          /\ copies[e.key] < MaxCopies
          /\ to_ws' = [to_ws EXCEPT ![i] = Append(to_ws[i], e)]
          /\ copies' = [copies EXCEPT ![e.key] = @ + 1]
    BY <1>4 DEF Retry
  <2>2. UNCHANGED <<to_server, input_queue, submitted, agreed>>
    BY <1>4 DEF Retry, queueVars, logVars, bridgeVars
  <2>3. e \in AnyEdit /\ e.key \in Key /\ e # Fetch /\ e \in Written /\ e \in EditsOf(i)
    <3>1. e \in AnyEdit
      BY <2>1, PageFields DEF Types
    <3> QED
      BY <2>1, <3>1, EditFields DEF Written, EditsOf
  <2>4. e.key[1] = i
    BY <2>3 DEF KeyInv
  <2>5. copies[e.key] = 0 /\ copies' = [copies EXCEPT ![e.key] = 1]
    <3> DEFINE k == e.key
    <3>1. copies[k] \in 0..1 /\ copies[k] < 1
      BY <1>2, <2>1, <2>3
    <3> HIDE DEF k
    <3>2. copies[k] = 0 /\ copies[k] + 1 = 1
      BY <3>1
    <3>3. copies' = [copies EXCEPT ![k] = copies[k] + 1]
      BY <2>1 DEF k
    <3> QED
      BY <3>2, <3>3 DEF k
  <2>6. e.key \notin KeysHeld(i) /\ e.key \notin KeysIn(agreed)
    BY <1>2, <2>5 DEF OnceAt
  <2>7. to_ws[i] \in Seq(Written)
    BY DEF Types, Written
  <2>8. /\ KeysIn(to_ws'[i]) = KeysIn(to_ws[i]) \cup {e.key} /\ Single(to_ws'[i])
    <3>1. KeysIn(Append(to_ws[i], e)) = KeysIn(to_ws[i]) \cup {e.key}
      BY <2>3, <2>7, SingleAppend
    <3>2. e.key \notin KeysIn(to_ws[i])
      BY <2>6 DEF KeysHeld
    <3>3. Single(Append(to_ws[i], e))
      BY <1>3, <2>3, <2>7, <3>2, SingleAppend
    <3> QED
      BY <2>1, <3>1, <3>3 DEF Types
  <2>9. Apart(i)'
    <3>1. /\ e.key \notin KeysIn(to_server[i]) /\ e.key \notin KeysIn(input_queue[i])
          /\ e.key \notin KeysIn(submitted[i])
      BY <2>6 DEF KeysHeld
    <3> QED
      BY <1>3, <2>2, <2>6, <2>8, <3>1 DEF Apart
  <2>10. \A k \in KeysHeld(i)' : k \in Key /\ k[1] = i /\ copies'[k] = 1
    <3>1. KeysHeld(i)' = KeysHeld(i) \cup {e.key}
      BY <2>2, <2>8 DEF KeysHeld
    <3> QED
      BY <1>2, <2>3, <2>4, <2>5, <3>1 DEF OnceAt
  <2>11. OnceAt(i)'
    BY <1>2, <2>2, <2>8, <2>9, <2>10 DEF OnceAt
  <2>12. /\ copies' \in [Key -> 0..1] /\ \A k \in Key : k[1] # i => copies'[k] = copies[k]
         /\ \A k \in KeysIn(agreed) : copies'[k] = 1
    BY <1>2, <2>3, <2>4, <2>5
  <2>13. \A j \in Node : j # i => SameLists(j)
    BY <2>1, <2>2 DEF SameLists, Types
  <2> QED
    BY <1>2, <2>2, <2>11, <2>12, <2>13, OnceElsewhere
<1>5. CASE Join(i)
  <2>1. /\ to_server' = to_server \/ to_server' = [to_server EXCEPT ![i] = Append(to_server[i], Fetch)]
        /\ UNCHANGED <<to_ws, input_queue, submitted, agreed, copies>>
    BY <1>5 DEF Join, queueVars, logVars
  <2>2. to_server[i] \in Seq(Written) /\ Fetch \in Written
    BY DEF Types, Written
  <2>3. KeysIn(Append(to_server[i], Fetch)) = KeysIn(to_server[i]) /\ Single(Append(to_server[i], Fetch))
    BY <1>3, <2>2, SingleAppend
  <2>4. KeysIn(to_server'[i]) = KeysIn(to_server[i]) /\ Single(to_server'[i])
    BY <1>3, <2>1, <2>3 DEF Types
  <2>5. OnceAt(i)'
    BY <1>2, <2>1, <2>4 DEF OnceAt, Apart, KeysHeld
  <2>6. \A j \in Node : j # i => SameLists(j)
    BY <2>1 DEF SameLists, Types
  <2> QED
    BY <1>2, <2>1, <2>5, <2>6, OnceElsewhere
<1> QED
  BY <1>1, <1>4, <1>5

\* Of a list that holds each edit once, one copy of an edit is lost, or none.
LEMMA SentOnce ==
  \A q \in Seq(Written) : Single(q) =>
    \A k : SentCopies(q, k) = IF k \in KeysIn(q) THEN 1 ELSE 0
<1> SUFFICES ASSUME NEW q \in Seq(Written), Single(q), NEW k
             PROVE  SentCopies(q, k) = IF k \in KeysIn(q) THEN 1 ELSE 0
  OBVIOUS
<1>1. \A n \in DOMAIN q : q[n].type # "FETCH" <=> q[n] # Fetch
  <2>1. \A n \in DOMAIN q : q[n] \in Written
    OBVIOUS
  <2>2. \A e \in Written : e.type # "FETCH" <=> e # Fetch
    BY EditFields DEF Written, Fetch
  <2> QED
    BY <2>1, <2>2
<1> DEFINE P == {n \in DOMAIN q : q[n].type # "FETCH" /\ q[n].key = k}
<1>2. CASE k \in KeysIn(q)
  <2>1. PICK n \in DOMAIN q : q[n] # Fetch /\ q[n].key = k
    BY <1>2 DEF KeysIn
  <2>2. P = {n}
    BY <1>1, <2>1 DEF Single
  <2>3. Cardinality({n}) = 1
    BY FS_Singleton
  <2> HIDE DEF P
  <2> QED
    BY <1>2, <2>2, <2>3 DEF SentCopies, P
<1>3. CASE k \notin KeysIn(q)
  <2>1. P = {}
    BY <1>1, <1>3 DEF KeysIn
  <2>2. Cardinality({}) = 0
    BY FS_EmptySet
  <2> HIDE DEF P
  <2> QED
    BY <1>3, <2>1, <2>2 DEF SentCopies, P
<1> QED
  BY <1>2, <1>3

\* The bridge hands the copy on, or gives it up.
LEMMA OnceBridge ==
  ASSUME MaxCopies = 1, Types, OnceInv, NEW i \in Node, Bridge(i)
  PROVE  OnceInv'
<1>1. CASE Connect(i) \/ Reconnect(i) \/ Deliver(i)
  BY <1>1, OnceStill DEF Connect, Reconnect, Deliver, queueVars, logVars, socketVars
<1>2. OnceAt(i) /\ copies \in [Key -> 0..1] /\ Single(agreed)
      /\ \A k \in KeysIn(agreed) : k \in Key /\ copies[k] = 1
  BY DEF OnceInv
<1>3. /\ Single(to_ws[i]) /\ Single(to_server[i]) /\ Apart(i)
      /\ \A k \in KeysHeld(i) : k \in Key /\ k[1] = i /\ copies[k] = 1
      /\ to_ws[i] \in Seq(Written) /\ to_server[i] \in Seq(Written)
  BY <1>2 DEF OnceAt, Types, Written
<1>4. CASE Refused(i)
  <2>1. /\ to_server' = [to_server EXCEPT ![i] = <<>>]
        /\ copies' = [k \in Key |-> copies[k] - SentCopies(to_server[i], k)]
        /\ UNCHANGED <<to_ws, input_queue, submitted, agreed>>
    BY <1>4 DEF Refused, queueVars, logVars, socketVars
  <2>2. \A k \in Key : copies'[k] = IF k \in KeysIn(to_server[i]) THEN 0 ELSE copies[k]
    <3>1. \A k \in Key : SentCopies(to_server[i], k) = IF k \in KeysIn(to_server[i]) THEN 1 ELSE 0
      BY <1>3, SentOnce
    <3>2. \A k \in Key : k \in KeysIn(to_server[i]) => copies[k] = 1
      BY <1>3 DEF KeysHeld
    <3> QED
      BY <1>2, <2>1, <3>1, <3>2
  <2>3. KeysIn(to_server'[i]) = {} /\ Single(to_server'[i])
    BY <2>1, KeysOfNone DEF Types
  <2>4. Apart(i)'
    BY <1>3, <2>1, <2>3 DEF Apart
  <2>5. \A k \in KeysHeld(i)' : k \in Key /\ k[1] = i /\ copies'[k] = 1
    <3>1. \A k \in KeysHeld(i)' : k \in KeysHeld(i) /\ k \notin KeysIn(to_server[i])
      BY <1>3, <2>1, <2>3 DEF KeysHeld, Apart
    <3> QED
      BY <1>3, <2>2, <3>1
  <2>6. OnceAt(i)'
    BY <1>2, <2>1, <2>3, <2>4, <2>5 DEF OnceAt
  <2>7. copies' \in [Key -> 0..1]
    BY <1>2, <2>1, <2>2
  <2>8. \A k \in Key : k[1] # i => copies'[k] = copies[k]
    BY <1>3, <2>2 DEF KeysHeld
  <2>9. \A k \in KeysIn(agreed) : copies'[k] = 1
    BY <1>2, <1>3, <2>2 DEF Apart
  <2>10. \A j \in Node : j # i => SameLists(j)
    BY <2>1 DEF SameLists, Types
  <2> QED
    BY <1>2, <2>1, <2>6, <2>7, <2>8, <2>9, <2>10, OnceElsewhere
<1>5. CASE Forward(i)
  <2> DEFINE h == Head(to_ws[i])
  <2>1. /\ to_ws[i] # <<>> /\ to_ws' = [to_ws EXCEPT ![i] = Tail(to_ws[i])]
        /\ UNCHANGED <<input_queue, submitted, agreed>>
    BY <1>5 DEF Forward, queueVars, logVars
  <2>2. h \in AnyEdit /\ h # Fetch /\ h \in Written
    <3>1. h \in AnyEdit
      BY <2>1, TailTyped DEF Types
    <3> HIDE DEF h
    <3> QED
      BY <3>1, EditFields DEF Written
  <2>3. /\ Single(Tail(to_ws[i])) /\ KeysIn(Tail(to_ws[i])) \subseteq KeysIn(to_ws[i])
        /\ h.key \in KeysIn(to_ws[i]) /\ h.key \notin KeysIn(Tail(to_ws[i]))
    BY <1>3, <2>1, <2>2, SingleTail
  <2>4. to_ws'[i] = Tail(to_ws[i])
    BY <2>1 DEF Types
  <2>5. h.key \in KeysHeld(i) /\ h.key \in Key /\ h.key[1] = i /\ copies[h.key] = 1
    BY <1>3, <2>3 DEF KeysHeld
  <2>6. /\ h.key \notin KeysIn(to_server[i]) /\ h.key \notin KeysIn(input_queue[i])
        /\ h.key \notin KeysIn(submitted[i]) /\ h.key \notin KeysIn(agreed)
    BY <1>3, <2>3 DEF Apart
  <2>7. CASE tcp[i] = "closed"
    <3>1. copies' = [copies EXCEPT ![h.key] = 0] /\ UNCHANGED to_server
      BY <1>5, <2>5, <2>7 DEF Forward
    <3> HIDE DEF h
    <3>2. Apart(i)'
      BY <1>3, <2>1, <2>3, <2>4, <3>1 DEF Apart
    <3>3. \A k \in KeysHeld(i)' : k \in KeysHeld(i) /\ k # h.key
      BY <2>1, <2>3, <2>4, <2>6, <3>1 DEF KeysHeld
    <3>4. \A k \in KeysHeld(i)' : k \in Key /\ k[1] = i /\ copies'[k] = 1
      BY <1>2, <1>3, <3>1, <3>3
    <3>5. OnceAt(i)'
      BY <1>2, <2>1, <2>3, <2>4, <3>1, <3>2, <3>4 DEF OnceAt
    <3>6. /\ copies' \in [Key -> 0..1] /\ \A k \in Key : k[1] # i => copies'[k] = copies[k]
          /\ \A k \in KeysIn(agreed) : copies'[k] = 1
      BY <1>2, <2>5, <2>6, <3>1
    <3>7. \A j \in Node : j # i => SameLists(j)
      BY <2>1, <3>1 DEF SameLists, Types
    <3> QED
      BY <1>2, <2>1, <3>5, <3>6, <3>7, OnceElsewhere
  <2>8. CASE tcp[i] # "closed"
    <3>1. to_server' = [to_server EXCEPT ![i] = Append(to_server[i], h)] /\ UNCHANGED copies
      BY <1>5, <2>8 DEF Forward
    <3> HIDE DEF h
    <3>2. /\ KeysIn(to_server'[i]) = KeysIn(to_server[i]) \cup {h.key} /\ Single(to_server'[i])
      <4>1. KeysIn(Append(to_server[i], h)) = KeysIn(to_server[i]) \cup {h.key}
        BY <1>3, <2>2, SingleAppend
      <4>2. Single(Append(to_server[i], h))
        BY <1>3, <2>2, <2>6, SingleAppend
      <4> QED
        BY <3>1, <4>1, <4>2 DEF Types
    <3>3. Apart(i)'
      BY <1>3, <2>1, <2>3, <2>4, <2>6, <3>2 DEF Apart
    <3>4. \A k \in KeysHeld(i)' : k \in KeysHeld(i)
      BY <2>1, <2>3, <2>4, <2>5, <3>2 DEF KeysHeld
    <3>5. \A k \in KeysHeld(i)' : k \in Key /\ k[1] = i /\ copies'[k] = 1
      BY <1>3, <3>1, <3>4
    <3>6. OnceAt(i)'
      BY <1>2, <2>1, <2>3, <2>4, <3>2, <3>3, <3>5 DEF OnceAt
    <3>7. \A j \in Node : j # i => SameLists(j)
      BY <2>1, <3>1 DEF SameLists, Types
    <3> QED
      BY <1>2, <2>1, <3>1, <3>6, <3>7, OnceElsewhere
  <2> QED
    BY <2>7, <2>8
<1> QED
  BY <1>1, <1>4, <1>5 DEF Bridge

\* The replica hands it on to the log.
LEMMA OnceReplica ==
  ASSUME Types, OnceInv, NEW i \in Node, Replica(i)
  PROVE  OnceInv'
<1>1. CASE StartServer(i) \/ SendFullDocument(i) \/ ApplyEntry(i) \/ BroadcastEntry(i)
  BY <1>1, OnceStill DEF StartServer, SendFullDocument, ApplyEntry, BroadcastEntry, queueVars, logVars,
                         bridgeVars, socketVars
<1>2. OnceAt(i) /\ copies \in [Key -> 0..1] /\ Single(agreed)
      /\ \A k \in KeysIn(agreed) : k \in Key /\ copies[k] = 1
  BY DEF OnceInv
<1>3. /\ Single(to_server[i]) /\ Single(input_queue[i]) /\ Single(submitted[i]) /\ Apart(i)
      /\ \A k \in KeysHeld(i) : k \in Key /\ k[1] = i /\ copies[k] = 1
      /\ to_server[i] \in Seq(Written) /\ input_queue[i] \in Seq(Written)
      /\ input_queue[i] \in Seq(AnyEdit) /\ submitted[i] \in Seq(AnyEdit)
  BY <1>2 DEF OnceAt, Types, Written
<1>4. CASE Die(i)
  <2>1. /\ to_server' = [to_server EXCEPT ![i] = <<>>]
        /\ UNCHANGED <<to_ws, input_queue, submitted, agreed, copies>>
    BY <1>4 DEF Die, queueVars, logVars, socketVars
  <2>2. KeysIn(to_server'[i]) = {} /\ Single(to_server'[i])
    BY <2>1, KeysOfNone DEF Types
  <2>3. Apart(i)'
    BY <1>3, <2>1, <2>2 DEF Apart
  <2>4. \A k \in KeysHeld(i)' : k \in KeysHeld(i)
    BY <2>1, <2>2 DEF KeysHeld
  <2>5. OnceAt(i)'
    BY <1>2, <1>3, <2>1, <2>2, <2>3, <2>4 DEF OnceAt
  <2>6. \A j \in Node : j # i => SameLists(j)
    BY <2>1 DEF SameLists, Types
  <2> QED
    BY <1>2, <2>1, <2>5, <2>6, OnceElsewhere
<1>5. CASE ClientLoop(i)
  <2> DEFINE h == Head(to_server[i])
  <2>1. /\ to_server[i] # <<>> /\ to_server' = [to_server EXCEPT ![i] = Tail(to_server[i])]
        /\ \/ h = Fetch /\ UNCHANGED input_queue
           \/ h # Fetch /\ input_queue' = [input_queue EXCEPT ![i] = Append(input_queue[i], h)]
        /\ UNCHANGED <<to_ws, submitted, agreed, copies>>
    BY <1>5 DEF ClientLoop, logVars, socketVars
  <2>2. h \in Written
    BY <2>1, TailTyped DEF Types
  <2>3. /\ Single(Tail(to_server[i])) /\ KeysIn(Tail(to_server[i])) \subseteq KeysIn(to_server[i])
        /\ h # Fetch => h.key \in KeysIn(to_server[i]) \ KeysIn(Tail(to_server[i]))
    BY <1>3, <2>1, SingleTail
  <2>4. to_server'[i] = Tail(to_server[i])
    BY <2>1 DEF Types
  <2>5. \A j \in Node : j # i => SameLists(j)
    BY <2>1 DEF SameLists, Types
  <2> HIDE DEF h
  <2>6. CASE h = Fetch
    <3>1. Apart(i)'
      BY <1>3, <2>1, <2>3, <2>4, <2>6 DEF Apart
    <3>2. \A k \in KeysHeld(i)' : k \in KeysHeld(i)
      BY <2>1, <2>3, <2>4, <2>6 DEF KeysHeld
    <3>3. OnceAt(i)'
      BY <1>2, <1>3, <2>1, <2>3, <2>4, <2>6, <3>1, <3>2 DEF OnceAt
    <3> QED
      BY <1>2, <2>1, <2>5, <3>3, OnceElsewhere
  <2>7. CASE h # Fetch
    <3>1. h.key \notin KeysIn(input_queue[i])
      BY <1>3, <2>3, <2>7 DEF Apart
    <3>2. KeysIn(input_queue'[i]) = KeysIn(input_queue[i]) \cup {h.key} /\ Single(input_queue'[i])
      <4>1. KeysIn(Append(input_queue[i], h)) = KeysIn(input_queue[i]) \cup {h.key}
        BY <1>3, <2>2, <2>7, SingleAppend
      <4>2. Single(Append(input_queue[i], h))
        BY <1>3, <2>2, <2>7, <3>1, SingleAppend
      <4> QED
        BY <2>1, <2>7, <4>1, <4>2 DEF Types
    <3>3. Apart(i)'
      BY <1>3, <2>1, <2>3, <2>4, <2>7, <3>2 DEF Apart
    <3>4. \A k \in KeysHeld(i)' : k \in KeysHeld(i)
      BY <2>1, <2>3, <2>4, <2>7, <3>2 DEF KeysHeld
    <3>5. OnceAt(i)'
      BY <1>2, <1>3, <2>1, <2>3, <2>4, <3>2, <3>3, <3>4 DEF OnceAt
    <3> QED
      BY <1>2, <2>1, <2>5, <3>5, OnceElsewhere
  <2> QED
    BY <2>6, <2>7
<1>6. CASE RunPass(i)
  <2>1. /\ submitted' = [submitted EXCEPT ![i] = submitted[i] \o input_queue[i]]
        /\ input_queue' = [input_queue EXCEPT ![i] = <<>>]
        /\ UNCHANGED <<to_ws, to_server, agreed, copies>>
    BY <1>6 DEF RunPass, bridgeVars, socketVars
  <2>2. /\ KeysIn(submitted'[i]) = KeysIn(submitted[i]) \cup KeysIn(input_queue[i])
        /\ Single(submitted'[i])
    <3>1. KeysIn(submitted[i] \o input_queue[i]) = KeysIn(submitted[i]) \cup KeysIn(input_queue[i])
      BY <1>3, SingleConcat
    <3>2. KeysIn(submitted[i]) \cap KeysIn(input_queue[i]) = {}
      BY <1>3 DEF Apart
    <3>3. Single(submitted[i] \o input_queue[i])
      BY <1>3, <3>2, SingleConcat
    <3> QED
      BY <2>1, <3>1, <3>3 DEF Types
  <2>3. KeysIn(input_queue'[i]) = {} /\ Single(input_queue'[i])
    BY <2>1, KeysOfNone DEF Types
  <2>4. Apart(i)'
    BY <1>3, <2>1, <2>2, <2>3 DEF Apart
  <2>5. \A k \in KeysHeld(i)' : k \in KeysHeld(i)
    BY <2>1, <2>2, <2>3 DEF KeysHeld
  <2>6. OnceAt(i)'
    BY <1>2, <1>3, <2>1, <2>2, <2>3, <2>4, <2>5 DEF OnceAt
  <2>7. \A j \in Node : j # i => SameLists(j)
    BY <2>1 DEF SameLists, Types
  <2> QED
    BY <1>2, <2>1, <2>6, <2>7, OnceElsewhere
<1> QED
  BY <1>1, <1>4, <1>5, <1>6 DEF Replica

\* The log takes it in, or gives it up.
LEMMA OnceLog ==
  ASSUME Types, OnceInv, NEW i \in Node, Agree(i) \/ Drop(i)
  PROVE  OnceInv'
<1>1. PICK n \in DOMAIN submitted[i] :
        /\ submitted' = [submitted EXCEPT ![i] = RemoveAt(submitted[i], n)]
        /\ \/ agreed' = Append(agreed, submitted[i][n]) /\ UNCHANGED copies
           \/ UNCHANGED agreed /\ copies' = [copies EXCEPT ![submitted[i][n].key] = @ - 1]
  BY DEF Agree, Drop
<1>2. UNCHANGED <<to_ws, to_server, input_queue>>
  BY DEF Agree, Drop, queueVars, bridgeVars, socketVars
<1>3. OnceAt(i) /\ copies \in [Key -> 0..1] /\ Single(agreed)
      /\ \A k \in KeysIn(agreed) : k \in Key /\ copies[k] = 1
  BY DEF OnceInv
<1>4. /\ Single(submitted[i]) /\ Apart(i)
      /\ \A k \in KeysHeld(i) : k \in Key /\ k[1] = i /\ copies[k] = 1
      /\ submitted[i] \in Seq(AnyEdit) /\ agreed \in Seq(Written)
  BY <1>3 DEF OnceAt, Types, Written
<1> DEFINE h == submitted[i][n]  r == RemoveAt(submitted[i], n)
<1>5. h \in Written /\ h # Fetch
  <2>1. h \in AnyEdit
    BY <1>4
  <2> HIDE DEF h
  <2> QED
    BY <2>1, EditFields DEF Written
<1>6. Single(r) /\ KeysIn(r) \subseteq KeysIn(submitted[i]) /\ h.key \in KeysIn(submitted[i])
      /\ h.key \notin KeysIn(r)
  BY <1>4, SingleRemove
<1>7. submitted'[i] = r /\ \A j \in Node : j # i => SameLists(j)
  BY <1>1, <1>2 DEF Types, SameLists
<1>8. h.key \in KeysHeld(i) /\ h.key \in Key /\ h.key[1] = i /\ copies[h.key] = 1
  BY <1>4, <1>6 DEF KeysHeld
<1>9. /\ h.key \notin KeysIn(to_ws[i]) /\ h.key \notin KeysIn(to_server[i])
      /\ h.key \notin KeysIn(input_queue[i]) /\ h.key \notin KeysIn(agreed)
  BY <1>4, <1>6 DEF Apart
<1>10. CASE agreed' = Append(agreed, h) /\ UNCHANGED copies
  <2> HIDE DEF h, r
  <2>1. KeysIn(agreed') = KeysIn(agreed) \cup {h.key} /\ Single(agreed')
    <3>1. KeysIn(Append(agreed, h)) = KeysIn(agreed) \cup {h.key}
      BY <1>4, <1>5, SingleAppend
    <3>2. Single(Append(agreed, h))
      BY <1>3, <1>4, <1>5, <1>9, SingleAppend
    <3> QED
      BY <1>10, <3>1, <3>2
  <2>2. Apart(i)'
    BY <1>2, <1>4, <1>6, <1>7, <1>9, <2>1 DEF Apart
  <2>3. \A k \in KeysHeld(i)' : k \in KeysHeld(i)
    BY <1>2, <1>6, <1>7 DEF KeysHeld
  <2>4. OnceAt(i)'
    BY <1>2, <1>3, <1>4, <1>6, <1>7, <1>10, <2>2, <2>3 DEF OnceAt
  <2>5. KeysIn(agreed') \subseteq KeysIn(agreed) \cup KeysHeld(i) /\ \A k \in KeysIn(agreed') : copies'[k] = 1
    BY <1>3, <1>8, <1>10, <2>1
  <2> QED
    BY <1>3, <1>7, <1>10, <2>1, <2>4, <2>5, OnceElsewhere
<1>11. CASE UNCHANGED agreed /\ copies' = [copies EXCEPT ![h.key] = @ - 1]
  <2> HIDE DEF h, r
  <2>1. copies' = [copies EXCEPT ![h.key] = 0]
    BY <1>8, <1>11
  <2>2. Apart(i)'
    BY <1>2, <1>4, <1>6, <1>7, <1>11 DEF Apart
  <2>3. \A k \in KeysHeld(i)' : k \in KeysHeld(i) /\ k # h.key
    BY <1>2, <1>6, <1>7, <1>9 DEF KeysHeld
  <2>4. \A k \in KeysHeld(i)' : k \in Key /\ k[1] = i /\ copies'[k] = 1
    BY <1>3, <1>4, <2>1, <2>3
  <2>5. OnceAt(i)'
    BY <1>2, <1>3, <1>6, <1>7, <2>2, <2>4 DEF OnceAt
  <2>6. /\ copies' \in [Key -> 0..1] /\ \A k \in Key : k[1] # i => copies'[k] = copies[k]
        /\ \A k \in KeysIn(agreed) : copies'[k] = 1
    BY <1>3, <1>8, <1>9, <2>1
  <2> QED
    BY <1>3, <1>7, <1>11, <2>5, <2>6, OnceElsewhere
<1> QED
  BY <1>1, <1>10, <1>11

\* No step makes a second copy.
LEMMA OnceNext ==
  MaxCopies = 1 /\ Types /\ KeyInv /\ OnceInv /\ [Next]_vars => OnceInv'
<1> SUFFICES ASSUME MaxCopies = 1, Types, KeyInv, OnceInv, [Next]_vars PROVE OnceInv'
  OBVIOUS
<1>1. CASE UNCHANGED vars
  BY <1>1, OnceStill DEF vars, queueVars, logVars, bridgeVars, socketVars
<1>2. ASSUME NEW i \in Node, Type(i) PROVE OnceInv'
  BY <1>2, Typing, OnceTyped, OncePage DEF Type
<1> QED
  BY <1>1, <1>2, OncePage, OnceBridge, OnceReplica, OnceLog DEF Next

\* There are no copies at first.
LEMMA OnceInit == Init => OnceInv
<1> SUFFICES ASSUME Init PROVE OnceInv
  OBVIOUS
<1>1. copies = [k \in Key |-> 0] /\ agreed = <<>>
  BY DEF Init
<1>2. ASSUME NEW i \in Node PROVE OnceAt(i)
  <2>1. to_ws[i] = <<>> /\ to_server[i] = <<>> /\ input_queue[i] = <<>> /\ submitted[i] = <<>>
    BY DEF Init
  <2>2. KeysHeld(i) = {} /\ Apart(i)
    BY <1>1, <2>1, KeysOfNone DEF KeysHeld, Apart
  <2> QED
    BY <2>1, <2>2, KeysOfNone DEF OnceAt
<1>3. Single(agreed) /\ KeysIn(agreed) = {}
  BY <1>1, KeysOfNone
<1> QED
  BY <1>1, <1>2, <1>3 DEF OnceInv

-----------------------------------------------------------------------------
(* Without the key that moves a cursor in front of the text, no position   *)
(* is there.                                                               *)

\* An edit behind the start of the text leaves the cursor there.
LEMMA ShownCursor ==
  ASSUME NEW i, NEW p \in AnyPage, NEW m \in Line, p.cursor >= 0, m \in AnyEdit => m.pos >= 0
  PROVE  Shown(i, p, m).cursor >= 0
<1>1. CASE m \in FullLine
  <2>1. m.type = "FULL" /\ Len(m.text) \in Nat
    BY <1>1 DEF FullLine
  <2>2. Shown(i, p, m).cursor = Len(m.text)
    BY <2>1 DEF Shown
  <2> QED
    BY <2>1, <2>2
<1>2. CASE m \in AnyEdit /\ m.key \in p.seen
  <2>1. Shown(i, p, m) = p
    BY <1>2, EditFields DEF Shown
  <2> QED
    BY <2>1
<1>3. CASE m \in AnyEdit /\ m.key \notin p.seen
  <2> DEFINE a == PageEdited(p.value, m)
             b == CursorAfter(i, p.cursor, m)
             c == p.seen \cup {m.key}
             d == p.pending \ {e \in p.pending : e.key = m.key}
             r == [p EXCEPT !.value = a, !.cursor = b, !.seen = c, !.pending = d]
  <2>1. Shown(i, p, m) = r
    BY <1>3, EditFields DEF Shown
  <2>2. b >= 0
    <3>1. m.pos \in Int /\ m.pos >= 0 /\ p.cursor \in Int /\ (m.type = "DELETE" => m.len = 1)
          /\ m.type \in {"INSERT", "DELETE"}
      BY <1>3, EditFields, PageFields
    <3> QED
      BY <3>1 DEF CursorAfter, MinOf
  <2> HIDE DEF a, b, c, d
  <2>3. r.cursor = b
    BY DEF AnyPage
  <2> QED
    BY <2>1, <2>2, <2>3
<1> QED
  BY <1>1, <1>2, <1>3 DEF Line

\* A member nothing happens to keeps its cursor.
LEMMA InTextStill ==
  ASSUME NEW j \in Node, InText(j), Still(j)
  PROVE  InText(j)'
BY DEF InText, EditsFor, Still

\* The page's own steps keep the cursor in the text or behind it.
LEMMA InTextPage ==
  ASSUME Types, PositionInv, NEW i \in Node,
         SelectionChange(i) \/ ApplyOperation(i) \/ Retry(i) \/ Join(i)
  PROVE  InText(i)'
<1>1. InText(i)
  BY DEF PositionInv
<1>2. CASE SelectionChange(i)
  <2>1. PICK k \in 0..Len(page[i].value) : page' = [page EXCEPT ![i].cursor = k]
    BY <1>2 DEF SelectionChange
  <2>2. page[i] \in AnyPage /\ k \in Int /\ k >= 0
    BY PageFields DEF Types
  <2>3. page'[i].cursor = k
    BY <2>1, <2>2 DEF Types, AnyPage
  <2>4. EditsFor(i)' = EditsFor(i)
    BY <1>2 DEF SelectionChange, EditsFor, mainVars, bridgeVars, socketVars
  <2> QED
    BY <1>1, <2>2, <2>3, <2>4 DEF InText
<1>3. CASE ApplyOperation(i)
  <2> DEFINE h == Head(to_page[i])
  <2>1. /\ to_page[i] # <<>> /\ page'[i] = Shown(i, page[i], h) /\ to_page'[i] = Tail(to_page[i])
    BY <1>3 DEF ApplyOperation, Types
  <2>2. h \in Line /\ page[i] \in AnyPage /\ h \in Range(to_page[i])
        /\ Range(Tail(to_page[i])) \subseteq Range(to_page[i])
    BY <2>1, TailTyped DEF Types
  <2>3. h \in AnyEdit => h.pos >= 0
    BY <1>1, <2>2, EditFields DEF InText, EditsFor
  <2> HIDE DEF h
  <2>4. page'[i].cursor >= 0
    BY <1>1, <2>1, <2>2, <2>3, ShownCursor DEF InText
  <2>5. EditsFor(i)' \subseteq EditsFor(i)
    BY <1>3, <2>1, <2>2 DEF ApplyOperation, EditsFor, mainVars, bridgeVars
  <2> QED
    BY <1>1, <2>4, <2>5 DEF InText
<1>4. CASE Retry(i) \/ Join(i)
  BY <1>1, <1>4 DEF Retry, Join, InText, EditsFor, mainVars, bridgeVars, socketVars, pageVars
<1> QED
  BY <1>2, <1>3, <1>4

\* The bridge touches neither.
LEMMA InTextBridge ==
  ASSUME Types, PositionInv, NEW i \in Node, Bridge(i)
  PROVE  InText(i)'
<1>1. InText(i)
  BY DEF PositionInv
<1>2. CASE Connect(i) \/ Refused(i) \/ Reconnect(i) \/ Forward(i)
  BY <1>1, <1>2 DEF Connect, Refused, Reconnect, Forward, InText, EditsFor, mainVars, socketVars, pageVars
<1>3. CASE Deliver(i)
  <2> DEFINE h == Head(to_bridge[i])
  <2>1. /\ to_bridge[i] # <<>> /\ to_bridge'[i] = Tail(to_bridge[i])
        /\ to_page'[i] = to_page[i] \/ to_page'[i] = Append(to_page[i], h)
    BY <1>3 DEF Deliver, Types
  <2>2. h \in Line /\ Range(to_bridge[i]) = {h} \cup Range(Tail(to_bridge[i]))
    BY <2>1, TailTyped DEF Types
  <2> HIDE DEF h
  <2>3. Range(Append(to_page[i], h)) = Range(to_page[i]) \cup {h}
    BY <2>2, RangeOfAppend DEF Types
  <2>4. EditsFor(i)' \subseteq EditsFor(i)
    BY <1>3, <2>1, <2>2, <2>3 DEF Deliver, EditsFor, mainVars
  <2> QED
    BY <1>1, <1>3, <2>4 DEF Deliver, InText, pageVars
<1> QED
  BY <1>2, <1>3 DEF Bridge

\* What a replica sends are entries of the log.
LEMMA InTextReplica ==
  ASSUME Types, LogInv, PositionInv, NEW i \in Node, Replica(i)
  PROVE  InText(i)'
<1>1. InText(i)
  BY DEF PositionInv
<1>2. CASE StartServer(i) \/ ClientLoop(i) \/ RunPass(i) \/ Die(i)
  BY <1>1, <1>2 DEF StartServer, ClientLoop, RunPass, Die, InText, EditsFor, mainVars, bridgeVars,
                    socketVars, pageVars
<1>3. CASE SendFullDocument(i)
  <2>1. to_bridge'[i] = to_bridge[i] \o reply[i]
    BY <1>3 DEF SendFullDocument, Types
  <2>2. to_bridge[i] \in Seq(Line) /\ reply[i] \in Seq(Line) /\ Range(reply[i]) \subseteq FullLine
    BY DEF Types, Line, Range
  <2>3. Range(to_bridge'[i]) = Range(to_bridge[i]) \cup Range(reply[i])
    BY <2>1, <2>2, RangeOfConcat
  <2>4. EditsFor(i)' \subseteq EditsFor(i)
    BY <1>3, <2>2, <2>3 DEF SendFullDocument, EditsFor, mainVars, socketVars
  <2> QED
    BY <1>1, <1>3, <2>4 DEF SendFullDocument, InText, pageVars
<1>4. CASE ApplyEntry(i)
  <2> DEFINE e == agreed[last_commit[i] + 1]
  <2>1. unsent'[i] = <<e>>
    BY <1>4 DEF ApplyEntry, Types
  <2>2. last_commit[i] + 1 \in 1..Len(agreed)
    BY <1>4, AppendToList DEF ApplyEntry, LogInv
  <2>3. e \in AnyEdit /\ e \in Range(agreed)
    BY <2>2 DEF Types, Range
  <2>4. e.pos >= 0
    BY <2>3 DEF PositionInv, Around
  <2> HIDE DEF e
  <2>5. Range(unsent'[i]) = {e}
    BY <2>1 DEF Range
  <2>6. EditsFor(i)' \subseteq EditsFor(i) \cup {e}
    BY <1>4, <2>5 DEF ApplyEntry, EditsFor, bridgeVars, socketVars
  <2> QED
    BY <1>1, <1>4, <2>4, <2>6 DEF ApplyEntry, InText, pageVars
<1>5. CASE BroadcastEntry(i)
  <2>1. /\ to_bridge'[i] = to_bridge[i] \/ to_bridge'[i] = to_bridge[i] \o unsent[i]
        /\ Range(unsent'[i]) = {}
    BY <1>5, NoLines DEF BroadcastEntry, Types
  <2>2. to_bridge[i] \in Seq(Line) /\ unsent[i] \in Seq(Line)
    BY DEF Types, Line
  <2>3. Range(to_bridge[i] \o unsent[i]) = Range(to_bridge[i]) \cup Range(unsent[i])
    BY <2>2, RangeOfConcat
  <2>4. Range(to_bridge'[i]) \subseteq Range(to_bridge[i]) \cup Range(unsent[i])
    BY <2>1, <2>3
  <2>5. EditsFor(i)' \subseteq EditsFor(i)
    BY <1>5, <2>1, <2>4 DEF BroadcastEntry, EditsFor, socketVars
  <2> QED
    BY <1>1, <1>5, <2>5 DEF BroadcastEntry, InText, pageVars
<1> QED
  BY <1>2, <1>3, <1>4, <1>5 DEF Replica

\* What is typed is at the cursor or one before it.
LEMMA InTextTyped ==
  ASSUME Types, PositionInv, "delete" \notin Keys, NEW i \in Node, NEW e, NEW c, Typed(i, e, c)
  PROVE  InText(i)' /\ \A f \in Around' : f.pos >= 0
<1>1. InText(i)
  BY DEF PositionInv
<1>2. e.pos >= 0 /\ c >= 0
  BY <1>1 DEF Typed, InText
<1>3. page'[i].cursor = c
  BY DEF Typed, Types
<1>4. EditsFor(i)' = EditsFor(i)
  BY DEF Typed, EditsFor, mainVars, bridgeVars
<1> QED
  BY <1>1, <1>2, <1>3, <1>4, AroundTyped DEF InText, PositionInv

\* No step puts a position in front of the text.
LEMMA PositionsNext ==
  "delete" \notin Keys /\ Types /\ LogInv /\ PositionInv /\ [Next]_vars => PositionInv'
<1> SUFFICES ASSUME "delete" \notin Keys, Types, LogInv, PositionInv, [Next]_vars PROVE PositionInv'
  OBVIOUS
<1>1. CASE UNCHANGED vars
  <2>1. Around' = Around
    BY <1>1 DEF Around, EditsOf, vars, queueVars, logVars, bridgeVars, socketVars, pageVars
  <2> QED
    BY <1>1, <2>1 DEF PositionInv, InText, EditsFor, vars, mainVars, bridgeVars, socketVars, pageVars
<1>2. ASSUME NEW i \in Node,
             \/ Type(i) \/ Join(i) \/ Retry(i) \/ ApplyOperation(i)
             \/ Bridge(i)
             \/ Replica(i)
             \/ Agree(i) \/ Drop(i)
      PROVE  PositionInv'
  <2>1. \A j \in Node : j # i => InText(j)'
    BY <1>2, OthersStill, InTextStill DEF PositionInv
  <2>2. InText(i)' /\ \A f \in Around' : f.pos >= 0
    <3>1. ASSUME NEW e, NEW c, Typed(i, e, c) PROVE InText(i)' /\ \A f \in Around' : f.pos >= 0
      BY <3>1, InTextTyped
    <3>2. CASE SelectionChange(i) \/ Join(i) \/ Retry(i) \/ ApplyOperation(i)
      BY <3>2, InTextPage, PassesPage, AroundKept DEF PositionInv
    <3>3. CASE Bridge(i)
      BY <3>3, InTextBridge, PassesBridge, AroundKept DEF PositionInv
    <3>4. CASE Replica(i)
      BY <3>4, InTextReplica, PassesReplica, AroundKept DEF PositionInv
    <3>5. CASE Agree(i) \/ Drop(i)
      <4>1. InText(i)'
        BY <3>5 DEF Agree, Drop, PositionInv, InText, EditsFor, mainVars, bridgeVars, socketVars, pageVars
      <4> QED
        BY <3>5, <4>1, PassesLog, AroundKept DEF PositionInv
    <3> QED
      BY <1>2, <3>1, <3>2, <3>3, <3>4, <3>5, Typing DEF Type
  <2> QED
    BY <2>1, <2>2 DEF PositionInv
<1> QED
  BY <1>1, <1>2 DEF Next

\* At first all cursors are in the text.
LEMMA PositionsInit == Init => PositionInv
<1> SUFFICES ASSUME Init PROVE PositionInv
  OBVIOUS
<1>1. ASSUME NEW i \in Node PROVE page[i].cursor >= 0 /\ page[i].pending = {}
  <2>1. Len(InitialText) \in Nat
    BY CharTexts
  <2> QED
    BY <2>1 DEF Init, Shown, Full
<1>2. ASSUME NEW i \in Node PROVE EditsFor(i) = {} /\ EditsOf(i) = {}
  BY <1>1, NoLines DEF Init, EditsFor, EditsOf
<1>3. Around = {}
  BY <1>2, NoLines DEF Init, Around
<1> QED
  BY <1>1, <1>2, <1>3 DEF PositionInv, InText

-----------------------------------------------------------------------------

\* So no entry that a replica has applied is repeated or in front of the text.
LEMMA AppliedPlain ==
  ASSUME Types, LogInv, OnceInv, PositionInv, NEW i \in Node
  PROVE  Plain(Applied(i))
<1> DEFINE n == last_commit[i]  q == SubSeq(agreed, 1, n)
<1>1. n \in 0..Len(agreed) /\ Len(agreed) \in Nat /\ agreed \in Seq(AnyEdit)
  BY AppendToList DEF LogInv, Types
<1>2. DOMAIN q = 1..n /\ \A k \in 1..n : q[k] = agreed[k]
  BY <1>1, SubSeqProperties
<1>3. \A k \in 1..n : k \in 1..Len(agreed) /\ k \in DOMAIN agreed /\ agreed[k] \in AnyEdit
  BY <1>1
<1>4. \A k \in 1..n : agreed[k] # Fetch /\ agreed[k].pos >= 0
  <2> SUFFICES ASSUME NEW k \in 1..n PROVE agreed[k] # Fetch /\ agreed[k].pos >= 0
    OBVIOUS
  <2>1. agreed[k] \in AnyEdit /\ agreed[k] \in Range(agreed)
    BY <1>3 DEF Range
  <2>2. agreed[k] \in Around
    BY <2>1 DEF Around
  <2> QED
    BY <2>1, <2>2, EditFields DEF PositionInv
<1>5. \A m, k \in 1..n : agreed[m].key = agreed[k].key => m = k
  BY <1>3, <1>4 DEF OnceInv, Single
<1> HIDE DEF n
<1>6. Plain(q)
  BY <1>2, <1>4, <1>5 DEF Plain
<1> QED
  BY <1>6 DEF Applied, n

\* A page and its replica (applyOperation of frontend.html, apply_to_document) make the
\* same text of the same entries as long as none is repeated or in front of the text.
\* For pages that were given the document before anything was applied (JoinsFirst) these
\* two are the only ways in which they come apart; a page that joins while others edit
\* may be given a text that does not fit the entries that follow it, and is left out.
THEOREM ViewFollowsPlainLog ==
  JoinsFirst => (Spec => [](\A i \in Node : Settled(i).loaded /\ Plain(Applied(i)) =>
                                             Settled(i).value = document[i]))
<1> SUFFICES ASSUME JoinsFirst
             PROVE  Spec => [](\A i \in Node : Settled(i).loaded /\ Plain(Applied(i)) =>
                                               Settled(i).value = document[i])
  OBVIOUS
<1> DEFINE Inv == ShownInv /\ LogInv /\ DocumentInv
           Follows == \A i \in Node : Settled(i).loaded /\ Plain(Applied(i)) =>
                                       Settled(i).value = document[i]
<1>1. Init => Inv
  BY ShownInit, LogInit
<1>2. Inv /\ [Next]_vars => Inv'
  BY TypesNext, KeysNext, PhaseNext, NextDocuments DEF ShownInv
<1>3. Inv => Follows
  BY PlainView
<1> HIDE DEF Inv
<1> QED
  BY <1>1, <1>2, <1>3, PTL DEF Spec

\* Where an edit is not sent again before the copy is lost, and Delete is not pressed,
\* a page that was given the document shows, once all that was sent to it has arrived,
\* exactly the text of its replica: applyOperation and apply_to_document agree, and
\* nothing is shown twice, left out or shown in another order.
THEOREM ViewFollows ==
  JoinsFirst /\ MaxCopies = 1 /\ "delete" \notin Keys => (Spec => []ViewFollowsDocument)
<1> SUFFICES ASSUME JoinsFirst, MaxCopies = 1, "delete" \notin Keys
             PROVE  Spec => []ViewFollowsDocument
  OBVIOUS
<1> DEFINE Inv == ShownInv /\ LogInv /\ DocumentInv /\ OnceInv /\ PositionInv
<1>1. Init => Inv
  BY ShownInit, LogInit, OnceInit, PositionsInit
<1>2. Inv /\ [Next]_vars => Inv'
  BY TypesNext, KeysNext, PhaseNext, NextDocuments, OnceNext, PositionsNext DEF ShownInv
<1>3. Inv => ViewFollowsDocument
  BY PlainView, AppliedPlain DEF ShownInv, ViewFollowsDocument
<1> HIDE DEF Inv
<1> QED
  BY <1>1, <1>2, <1>3, PTL DEF Spec

=============================================================================
