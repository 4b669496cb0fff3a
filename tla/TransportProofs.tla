-------------------------- MODULE TransportProofs --------------------------
(***************************************************************************)
(* The transport is the network Paxos assumes, for any number of nodes,    *)
(* whatever they send, however the streams are cut and the connections     *)
(* break: theorems about Wire and Transport.                               *)
(***************************************************************************)
EXTENDS Transport, TLAPS, FiniteSetTheorems, FunctionTheorems, SequenceTheorems

-----------------------------------------------------------------------------
(* Sequences.                                                              *)

\* A concatenation has the elements of the first part, then those of the second.
LEMMA Joined ==
  ASSUME NEW S, NEW a \in Seq(S), NEW b \in Seq(S)
  PROVE  /\ a \o b \in Seq(S) /\ Len(a) \in Nat /\ Len(b) \in Nat
         /\ Len(a \o b) = Len(a) + Len(b)
         /\ \A k \in 1..Len(a) : (a \o b)[k] = a[k]
         /\ \A k \in 1..Len(b) : (a \o b)[Len(a) + k] = b[k]
<1> DEFINE n == Len(a)
           m == Len(b)
<1>1. n \in Nat /\ m \in Nat
  OBVIOUS
<1>2. /\ a \o b \in Seq(S) /\ Len(a \o b) = n + m
      /\ \A k \in 1..n + m : (a \o b)[k] = IF k <= n THEN a[k] ELSE b[k - n]
  BY ConcatProperties
<1> HIDE DEF n, m
<1>3. \A k \in 1..n : (a \o b)[k] = a[k]
  BY <1>1, <1>2
<1>4. \A k \in 1..m : (a \o b)[n + k] = b[k]
  <2> SUFFICES ASSUME NEW k \in 1..m PROVE (a \o b)[n + k] = b[k]
    OBVIOUS
  <2>1. n + k \in 1..n + m /\ ~(n + k <= n) /\ (n + k) - n = k
    BY <1>1
  <2> QED
    BY <1>2, <2>1
<1> QED
  BY <1>1, <1>2, <1>3, <1>4 DEF n, m

\* The part from behind position l up to l + m, element by element.
LEMMA Part ==
  ASSUME NEW S, NEW q \in Seq(S), NEW l \in Nat, NEW m \in Nat, l + m <= Len(q)
  PROVE  /\ SubSeq(q, l + 1, l + m) \in Seq(S) /\ Len(SubSeq(q, l + 1, l + m)) = m
         /\ \A k \in 1..m : SubSeq(q, l + 1, l + m)[k] = q[l + k]
<1> DEFINE s == SubSeq(q, l + 1, l + m)
<1>1. \A k \in l + 1..l + m : q[k] \in S
  <2>1. \A k \in l + 1..l + m : k \in 1..Len(q)
    OBVIOUS
  <2> QED
    BY <2>1
<1>2. l + 1 \in Int /\ l + m \in Int
  OBVIOUS
<1>3. /\ s \in Seq(S)
      /\ Len(s) = IF l + 1 <= l + m THEN l + m - (l + 1) + 1 ELSE 0
      /\ \A k \in 1..l + m - (l + 1) + 1 : s[k] = q[l + 1 + k - 1]
  BY <1>1, <1>2, SubSeqProperties
<1>4. l + m - (l + 1) + 1 = m /\ \A k \in 1..m : l + 1 + k - 1 = l + k
  OBVIOUS
<1> HIDE DEF s
<1>5. Len(s) = m
  BY <1>3, <1>4
<1>6. \A k \in 1..m : s[k] = q[l + k]
  BY <1>3, <1>4
<1> QED
  BY <1>3, <1>5, <1>6 DEF s

\* The two parts of a concatenation, taken out again.
LEMMA Parted ==
  ASSUME NEW S, NEW a \in Seq(S), NEW b \in Seq(S)
  PROVE  /\ SubSeq(a \o b, 1, Len(a)) = a
         /\ SubSeq(a \o b, Len(a) + 1, Len(a \o b)) = b
<1> DEFINE n == Len(a)
           m == Len(b)
           c == a \o b
           u == SubSeq(c, 0 + 1, 0 + n)
           v == SubSeq(c, n + 1, n + m)
<1>1. /\ c \in Seq(S) /\ Len(c) = n + m /\ n \in Nat /\ m \in Nat
      /\ \A k \in 1..n : c[k] = a[k]
      /\ \A k \in 1..m : c[n + k] = b[k]
  BY Joined
<1> HIDE DEF c
<1>2. u \in Seq(S) /\ Len(u) = n /\ \A k \in 1..n : u[k] = c[0 + k]
  <2>1. 0 + n <= Len(c)
    BY <1>1
  <2> HIDE DEF n
  <2> QED
    BY <1>1, <2>1, Part
<1>3. v \in Seq(S) /\ Len(v) = m /\ \A k \in 1..m : v[k] = c[n + k]
  <2>1. n + m <= Len(c)
    BY <1>1
  <2> HIDE DEF n, m
  <2> QED
    BY <1>1, <2>1, Part
<1> HIDE DEF u, v
<1>4. u = a
  <2>1. \A k \in 1..Len(u) : u[k] = a[k]
    BY <1>1, <1>2
  <2> QED
    BY <1>2, <2>1, SeqEqual
<1>5. v = b
  <2>1. \A k \in 1..Len(v) : v[k] = b[k]
    BY <1>1, <1>3
  <2> QED
    BY <1>3, <2>1, SeqEqual
<1>6. 0 + 1 = 1 /\ 0 + n = n /\ n + m = Len(c)
  BY <1>1
<1> QED
  BY <1>4, <1>5, <1>6 DEF u, v, c

-----------------------------------------------------------------------------
(* Frames: what is written is read back.                                   *)

Kind == {"u32", "u64", "text", "optional"}

\* A concatenation is one whichever is done first.
LEMMA Regrouped ==
  ASSUME NEW S, NEW a \in Seq(S), NEW b \in Seq(S), NEW c \in Seq(S)
  PROVE  (a \o b) \o c = a \o (b \o c)
OBVIOUS

\* A word in front of others.
LEMMA Headed ==
  ASSUME NEW S, NEW n \in S, NEW a \in Seq(S)
  PROVE  /\ <<n>> \o a \in Seq(S) /\ Len(<<n>> \o a) = 1 + Len(a)
         /\ <<n>> \o a # <<>> /\ (<<n>> \o a)[1] = n
         /\ \A k \in 1..Len(a) : (<<n>> \o a)[1 + k] = a[k]
<1>1. <<n>> \in Seq(S) /\ Len(<<n>>) = 1 /\ <<n>>[1] = n
  OBVIOUS
<1>2. PICK x \in Seq(S) : x = <<n>>
  BY <1>1
<1>3. /\ x \o a \in Seq(S) /\ Len(x \o a) = Len(x) + Len(a)
      /\ \A k \in 1..Len(x) : (x \o a)[k] = x[k]
      /\ \A k \in 1..Len(a) : (x \o a)[Len(x) + k] = a[k]
  BY Joined
<1>4. Len(x) = 1 /\ x[1] = n
  BY <1>1, <1>2
<1>5. x \o a # <<>> /\ (x \o a)[1] = n
  BY <1>3, <1>4
<1> QED
  BY <1>2, <1>3, <1>4, <1>5

-----------------------------------------------------------------------------
(* Frames: what is written is read back.                                   *)

\* A text is a sequence of words and its length is one, not a negative one.
LEMMA TextWords ==
  ASSUME NEW v, IsText(v)
  PROVE  v \in Seq(Nat) /\ Len(v) \in Nat /\ AsInt(Len(v)) = Len(v)
<1>1. v \in Seq(0..WordSize - 1) /\ 0..WordSize - 1 \subseteq Nat
  BY WordSizeAssumption DEF IsText
<1>2. v \in Seq(Nat)
  BY <1>1, SeqMonotonic
<1>3. Len(v) \in Nat /\ Len(v) < WordSize \div 2 /\ WordSize \div 2 \in Int
  BY <1>2, WordSizeAssumption DEF IsText
<1>4. ~(Len(v) >= WordSize \div 2)
  BY <1>3
<1> QED
  BY <1>2, <1>3, <1>4 DEF AsInt

\* A text is read from its length and its words, whatever follows.
LEMMA TextBack ==
  ASSUME NEW v, IsText(v), NEW rest \in Seq(Nat)
  PROVE  /\ <<Len(v)>> \o v \in Seq(Nat) /\ Len(<<Len(v)>> \o v) = 1 + Len(v)
         /\ ReadText((<<Len(v)>> \o v) \o rest) = [ok |-> TRUE, size |-> 1 + Len(v), value |-> v]
<1>1. v \in Seq(Nat) /\ Len(v) \in Nat /\ AsInt(Len(v)) = Len(v)
  BY TextWords
<1>2. PICK n \in Nat : n = Len(v)
  BY <1>1
<1>3. PICK a \in Seq(Nat) : a = v \o rest
  BY <1>1, Joined
<1>4. Len(a) = n + Len(rest) /\ Len(rest) \in Nat /\ \A k \in 1..n : a[k] = v[k]
  BY <1>1, <1>2, <1>3, Joined
<1>5. <<n>> \in Seq(Nat) /\ <<n>> \o v \in Seq(Nat) /\ Len(<<n>> \o v) = 1 + n
  BY <1>1, <1>2, Headed
<1>6. PICK ws \in Seq(Nat) : ws = <<n>> \o a
  BY Headed
<1>7. (<<n>> \o v) \o rest = ws
  BY <1>1, <1>3, <1>5, <1>6, Regrouped
<1>8. /\ Len(ws) = 1 + Len(a) /\ ws # <<>> /\ ws[1] = n
      /\ \A k \in 1..Len(a) : ws[1 + k] = a[k]
  BY <1>6, Headed
<1>9. SubSeq(ws, 2, 1 + n) = v
  <2>1. 1 + n <= Len(ws)
    BY <1>4, <1>8
  <2>2. /\ SubSeq(ws, 1 + 1, 1 + n) \in Seq(Nat) /\ Len(SubSeq(ws, 1 + 1, 1 + n)) = n
        /\ \A k \in 1..n : SubSeq(ws, 1 + 1, 1 + n)[k] = ws[1 + k]
    BY <2>1, Part
  <2>3. PICK s : s = SubSeq(ws, 1 + 1, 1 + n)
    OBVIOUS
  <2>4. s \in Seq(Nat) /\ Len(s) = n /\ \A k \in 1..n : s[k] = ws[1 + k]
    BY <2>2, <2>3
  <2>5. \A k \in 1..n : k \in 1..Len(a)
    BY <1>4
  <2>6. \A k \in 1..Len(s) : s[k] = v[k]
    BY <1>4, <1>8, <2>4, <2>5
  <2>7. s = v
    BY <1>1, <1>2, <2>4, <2>6, SeqEqual
  <2> QED
    BY <2>3, <2>7
<1>10. ~(ws = <<>> \/ AsInt(ws[1]) < 0 \/ 1 + ws[1] > Len(ws))
  BY <1>1, <1>2, <1>4, <1>8
<1>11. ReadText(ws) = [ok |-> TRUE, size |-> 1 + n, value |-> v]
  BY <1>8, <1>9, <1>10 DEF ReadText
<1> QED
  BY <1>2, <1>5, <1>7, <1>11

\* Division of a number by the size of a word.
LEMMA Divided ==
  ASSUME NEW v \in Nat
  PROVE  /\ v \div WordSize \in Nat /\ v % WordSize \in 0..WordSize - 1
         /\ (v \div WordSize) * WordSize + (v % WordSize) = v
BY WordSizeAssumption

\* A number below WordSize is a word by itself.
LEMMA Narrow ==
  ASSUME NEW v \in 0..WordSize - 1
  PROVE  v % WordSize = v
BY WordSizeAssumption

\* The fields of numbers.
LEMMA NumberBack ==
  ASSUME NEW rest \in Seq(Nat), NEW v
  PROVE  /\ FitsField("u32", v) =>
              /\ Words("u32", v) \in Seq(Nat)
              /\ ReadField(Words("u32", v) \o rest, "u32")
                   = [ok |-> TRUE, size |-> Len(Words("u32", v)), value |-> v]
         /\ FitsField("u64", v) =>
              /\ Words("u64", v) \in Seq(Nat)
              /\ ReadField(Words("u64", v) \o rest, "u64")
                   = [ok |-> TRUE, size |-> Len(Words("u64", v)), value |-> v]
<1>1. ASSUME FitsField("u32", v)
      PROVE  /\ Words("u32", v) \in Seq(Nat)
             /\ ReadField(Words("u32", v) \o rest, "u32")
                  = [ok |-> TRUE, size |-> Len(Words("u32", v)), value |-> v]
  <2>1. v \in 0..WordSize - 1 /\ v \in Nat
    BY <1>1, WordSizeAssumption DEF FitsField
  <2>2. Words("u32", v) = <<v>>
    BY <2>1, Narrow DEF Words
  <2>3. <<v>> \o rest # <<>> /\ (<<v>> \o rest)[1] = v
    BY <2>1, Headed
  <2>4. ReadField(<<v>> \o rest, "u32") = [ok |-> TRUE, size |-> 1, value |-> v]
    BY <2>3 DEF ReadField
  <2>5. <<v>> \in Seq(Nat) /\ Len(<<v>>) = 1
    BY <2>1
  <2> QED
    BY <2>2, <2>4, <2>5
<1>2. ASSUME FitsField("u64", v)
      PROVE  /\ Words("u64", v) \in Seq(Nat)
             /\ ReadField(Words("u64", v) \o rest, "u64")
                  = [ok |-> TRUE, size |-> Len(Words("u64", v)), value |-> v]
  <2>1. v \in Nat
    BY <1>2, WordSizeAssumption DEF FitsField
  <2>2. PICK h, l : h = v \div WordSize /\ l = v % WordSize
    OBVIOUS
  <2>3. h \in Nat /\ l \in Nat /\ h * WordSize + l = v
    <3>1. 0..WordSize - 1 \subseteq Nat
      BY WordSizeAssumption
    <3>2. /\ v \div WordSize \in Nat /\ v % WordSize \in 0..WordSize - 1
          /\ (v \div WordSize) * WordSize + (v % WordSize) = v
      BY <2>1, Divided
    <3> QED
      BY <2>2, <3>1, <3>2, Zenon
  <2>4. Words("u64", v) = <<h, l>>
    BY <2>2 DEF Words
  <2>5. PICK a : a = <<h, l>>
    OBVIOUS
  <2>6. a \in Seq(Nat) /\ Len(a) = 2 /\ a[1] = h /\ a[2] = l
    BY <2>3, <2>5
  <2>7. /\ Len(a \o rest) = Len(a) + Len(rest) /\ Len(rest) \in Nat
        /\ \A k \in 1..Len(a) : (a \o rest)[k] = a[k]
    BY <2>6, Joined, ZenonT(60)
  <2>8. (a \o rest)[1] = h /\ (a \o rest)[2] = l /\ ~(Len(a \o rest) < 2)
    BY <2>6, <2>7
  <2>9. ReadField(a \o rest, "u64")
          = [ok |-> TRUE, size |-> 2, value |-> (a \o rest)[1] * WordSize + (a \o rest)[2]]
    BY <2>8 DEF ReadField
  <2>10. ReadField(a \o rest, "u64") = [ok |-> TRUE, size |-> 2, value |-> v]
    BY <2>3, <2>8, <2>9
  <2> QED
    BY <2>4, <2>5, <2>6, <2>10
<1> QED
  BY <1>1, <1>2

\* The field of an optional text.
LEMMA OptionalBack ==
  ASSUME NEW rest \in Seq(Nat), NEW v, FitsField("optional", v)
  PROVE  /\ Words("optional", v) \in Seq(Nat)
         /\ ReadField(Words("optional", v) \o rest, "optional")
              = [ok |-> TRUE, size |-> Len(Words("optional", v)), value |-> v]
<1>1. CASE v = <<>>
  <2>1. Words("optional", v) = <<0>> /\ <<0>> \in Seq(Nat) /\ Len(<<0>>) = 1
    BY <1>1 DEF Words
  <2>2. <<0>> \o rest # <<>> /\ (<<0>> \o rest)[1] = 0
    BY Headed
  <2>3. ReadField(<<0>> \o rest, "optional") = [ok |-> TRUE, size |-> 1, value |-> <<>>]
    BY <2>2 DEF ReadField
  <2> QED
    BY <1>1, <2>1, <2>3
<1>2. CASE v # <<>>
  <2>1. PICK t : v = <<t>> /\ IsText(t)
    BY <1>2 DEF FitsField
  <2>2. t \in Seq(Nat) /\ Len(t) \in Nat
    BY <2>1, TextWords
  <2>3. PICK a : a = <<Len(t)>> \o t
    OBVIOUS
  <2>4. a \in Seq(Nat) /\ Len(a) = 1 + Len(t)
    BY <2>1, <2>2, <2>3, Headed
  <2>5. PICK b : b = a \o rest
    OBVIOUS
  <2>6. /\ b \in Seq(Nat)
        /\ ReadText(b) = [ok |-> TRUE, size |-> 1 + Len(t), value |-> t]
    BY <2>1, <2>3, <2>4, <2>5, TextBack, Joined
  <2>7. Words("optional", v) = <<1>> \o a
    <3>1. Words("optional", v) = <<1, Len(t)>> \o t
      BY <1>2, <2>1 DEF Words
    <3>2. <<1>> \in Seq(Nat) /\ <<Len(t)>> \in Seq(Nat) /\ <<1, Len(t)>> = <<1>> \o <<Len(t)>>
      BY <2>2
    <3> QED
      BY <2>2, <2>3, <3>1, <3>2, Regrouped
  <2>8. <<1>> \o a \in Seq(Nat) /\ Len(<<1>> \o a) = 2 + Len(t)
    BY <2>2, <2>4, Headed
  <2>9. (<<1>> \o a) \o rest = <<1>> \o b
    BY <2>4, <2>5, Regrouped
  <2>10. <<1>> \o b # <<>> /\ (<<1>> \o b)[1] = 1 /\ Tail(<<1>> \o b) = b
    BY <2>6, Headed
  <2>11. ReadField(<<1>> \o b, "optional") = [ok |-> TRUE, size |-> 1 + (1 + Len(t)), value |-> <<t>>]
    <3>1. PICK c \in Seq(Nat) : c = <<1>> \o b
      BY <2>6, Headed
    <3>2. c # <<>> /\ c[1] # 0 /\ Tail(c) = b
      BY <2>10, <3>1
    <3>3. ReadField(c, "optional")
            = [ok |-> ReadText(Tail(c)).ok, size |-> 1 + ReadText(Tail(c)).size,
               value |-> <<ReadText(Tail(c)).value>>]
      BY <3>2, Zenon DEF ReadField
    <3>4. ReadText(b).ok = TRUE /\ ReadText(b).size = 1 + Len(t) /\ ReadText(b).value = t
      BY <2>6
    <3> QED
      BY <3>1, <3>2, <3>3, <3>4, Zenon
  <2>12. 1 + (1 + Len(t)) = 2 + Len(t)
    BY <2>2
  <2> QED
    BY <2>1, <2>7, <2>8, <2>9, <2>11, <2>12
<1> QED
  BY <1>1, <1>2

\* Any field: the value is read from its words, whatever follows.
LEMMA FieldBack ==
  ASSUME NEW kind \in Kind, NEW v, FitsField(kind, v),
         NEW rest \in Seq(Nat)
  PROVE  /\ Words(kind, v) \in Seq(Nat)
         /\ ReadField(Words(kind, v) \o rest, kind)
              = [ok |-> TRUE, size |-> Len(Words(kind, v)), value |-> v]
<1>1. CASE kind = "text"
  <2>1. IsText(v) /\ Words("text", v) = <<Len(v)>> \o v
    BY <1>1 DEF FitsField, Words
  <2>2. \A ws : ReadField(ws, "text") = ReadText(ws)
    BY DEF ReadField
  <2> QED
    BY <1>1, <2>1, <2>2, TextBack
<1> QED
  BY <1>1, NumberBack, OptionalBack DEF Kind

\* Reading on: the next value joins those before it, what follows is left.
LEMMA FurtherBack ==
  ASSUME NEW kind \in Kind, NEW v, FitsField(kind, v),
         NEW rest \in Seq(Nat), NEW values
  PROVE  /\ Words(kind, v) \in Seq(Nat)
         /\ Further([ok |-> TRUE, left |-> Words(kind, v) \o rest, values |-> values], kind)
              = [ok |-> TRUE, left |-> rest, values |-> Append(values, v)]
<1>1. PICK w : w = Words(kind, v)
  OBVIOUS
<1>2. /\ w \in Seq(Nat)
      /\ ReadField(w \o rest, kind) = [ok |-> TRUE, size |-> Len(w), value |-> v]
  BY <1>1, FieldBack
<1>3. PICK r : r = [ok |-> TRUE, left |-> w \o rest, values |-> values]
  OBVIOUS
<1>4. r.ok = TRUE /\ r.left = w \o rest /\ r.values = values
  BY <1>3
<1>5. PICK f : f = ReadField(w \o rest, kind)
  OBVIOUS
<1>6. f.ok = TRUE /\ f.size = Len(w) /\ f.value = v
  BY <1>2, <1>5
<1>7. SubSeq(w \o rest, Len(w) + 1, Len(w \o rest)) = rest
  BY <1>2, Parted
<1>8. Further(r, kind) = [ok     |-> r.ok /\ f.ok,
                          left   |-> SubSeq(w \o rest, f.size + 1, Len(w \o rest)),
                          values |-> Append(values, f.value)]
  BY <1>4, <1>5, Zenon DEF Further
<1>9. (r.ok /\ f.ok) = TRUE
  BY <1>4, <1>6, Zenon
<1>10. Further(r, kind) = [ok |-> TRUE, left |-> rest, values |-> Append(values, v)]
  BY <1>6, <1>7, <1>8, <1>9, Zenon
<1> QED
  BY <1>1, <1>2, <1>3, <1>10, Zenon

\* The first l elements of a function are a sequence.
LEMMA Listed ==
  ASSUME NEW S, NEW l \in Nat, NEW f, \A x \in 1..l : f[x] \in S
  PROVE  /\ [x \in 1..l |-> f[x]] \in Seq(S) /\ Len([x \in 1..l |-> f[x]]) = l
         /\ \A x \in 1..l : [y \in 1..l |-> f[y]][x] = f[x]
OBVIOUS

\* One element more of a function.
LEMMA Extended ==
  ASSUME NEW k \in Nat, NEW f
  PROVE  Append([x \in 1..k |-> f[x]], f[k + 1]) = [x \in 1..k + 1 |-> f[x]]
<1>1. PICK S : S = {f[x] : x \in 1..k + 1}
  OBVIOUS
<1>2. \A x \in 1..k + 1 : f[x] \in S
  BY <1>1
<1>3. PICK a, b, m : a = [x \in 1..k |-> f[x]] /\ b = [x \in 1..m |-> f[x]] /\ m = k + 1
  OBVIOUS
<1>4. a \in Seq(S) /\ Len(a) = k /\ \A x \in 1..k : a[x] = f[x]
  BY <1>2, <1>3
<1>5. b \in Seq(S) /\ Len(b) = m /\ \A x \in 1..m : b[x] = f[x]
  BY <1>2, <1>3
<1>6. f[m] \in S /\ m \in Nat
  BY <1>2, <1>3
<1>7. PICK c : c = Append(a, f[m])
  OBVIOUS
<1>8. c \in Seq(S) /\ Len(c) = m /\ c[m] = f[m] /\ \A x \in 1..k : c[x] = a[x]
  BY <1>3, <1>4, <1>6, <1>7
<1>9. \A x \in 1..Len(c) : x = m \/ x \in 1..k
  BY <1>3, <1>8
<1>10. \A x \in 1..Len(c) : c[x] = b[x]
  BY <1>4, <1>5, <1>8, <1>9
<1>11. c = b
  BY <1>5, <1>8, <1>10, SeqEqual
<1> QED
  BY <1>3, <1>7, <1>11

Cat(a, b) == a \o b

\* Concatenation is associative.
LEMMA CatRegrouped ==
  ASSUME NEW S, NEW a \in Seq(S), NEW b \in Seq(S), NEW c \in Seq(S)
  PROVE  Cat(Cat(a, b), c) = Cat(a, Cat(b, c))
BY DEF Cat

\* Four parts and what follows.
LEMMA RegroupedAll ==
  ASSUME NEW S, NEW a \in Seq(S), NEW b \in Seq(S), NEW c \in Seq(S), NEW d \in Seq(S),
         NEW e \in Seq(S)
  PROVE  /\ Cat(Cat(Cat(a, b), c), d) \in Seq(S)
         /\ Cat(d, e) \in Seq(S) /\ Cat(c, Cat(d, e)) \in Seq(S)
         /\ Cat(b, Cat(c, Cat(d, e))) \in Seq(S)
         /\ Cat(Cat(Cat(Cat(a, b), c), d), e) = Cat(a, Cat(b, Cat(c, Cat(d, e))))
<1>1. \A x, y, z \in Seq(S) : Cat(Cat(x, y), z) = Cat(x, Cat(y, z))
  BY CatRegrouped
<1>2. \A x, y \in Seq(S) : Cat(x, y) \in Seq(S)
  BY DEF Cat
<1>3. Cat(a, b) \in Seq(S) /\ Cat(Cat(a, b), c) \in Seq(S) /\ Cat(Cat(Cat(a, b), c), d) \in Seq(S)
  BY <1>2
<1>4. Cat(d, e) \in Seq(S) /\ Cat(c, Cat(d, e)) \in Seq(S) /\ Cat(b, Cat(c, Cat(d, e))) \in Seq(S)
  BY <1>2
<1>5. Cat(Cat(Cat(Cat(a, b), c), d), e) = Cat(Cat(Cat(a, b), c), Cat(d, e))
  BY <1>1, <1>3
<1>6. Cat(Cat(Cat(a, b), c), Cat(d, e)) = Cat(Cat(a, b), Cat(c, Cat(d, e)))
  BY <1>1, <1>3, <1>4
<1>7. Cat(Cat(a, b), Cat(c, Cat(d, e))) = Cat(a, Cat(b, Cat(c, Cat(d, e))))
  BY <1>1, <1>4
<1> QED
  BY <1>3, <1>4, <1>5, <1>6, <1>7

\* Up to four fields are read from their words, and leave what follows.
LEMMA FieldsBack ==
  ASSUME NEW n \in 0..4, NEW kinds, DOMAIN kinds = 1..n,
         \A k \in 1..n : kinds[k] \in Kind,
         NEW vs, FitsFields(kinds, vs), NEW rest \in Seq(Nat)
  PROVE  /\ AllWords(kinds, vs) \in Seq(Nat)
         /\ ReadFields(AllWords(kinds, vs) \o rest, kinds)
              = [ok |-> TRUE, left |-> rest, values |-> vs]
<1> DEFINE Field(k) == IF k \in DOMAIN kinds THEN Words(kinds[k], vs[k]) ELSE <<>>
           After(r, k) == IF k \in DOMAIN kinds THEN Further(r, kinds[k]) ELSE r
           Before(k) == IF k <= n THEN k ELSE n
           V(k) == [x \in 1..Before(k) |-> vs[x]]
           State(k, s) == [ok |-> TRUE, left |-> s, values |-> V(k)]
<1>1. ASSUME NEW k \in 1..4, NEW l \in Nat, k = l + 1, NEW s \in Seq(Nat)
      PROVE  /\ Field(k) \in Seq(Nat)
             /\ After(State(l, Field(k) \o s), k) = State(k, s)
  <2>1. CASE k \in DOMAIN kinds
    <3>1. k \in 1..n /\ Before(k) = k /\ Before(l) = l
      BY <1>1, <2>1
    <3>2. Field(k) = Words(kinds[k], vs[k])
      BY <2>1
    <3>3. kinds[k] \in Kind /\ FitsField(kinds[k], vs[k])
      BY <2>1 DEF FitsFields
    <3>4. Append(V(l), vs[k]) = V(k)
      BY <1>1, <3>1, Extended, ZenonT(60)
    <3> HIDE DEF V
    <3>5. /\ Words(kinds[k], vs[k]) \in Seq(Nat)
          /\ Further([ok |-> TRUE, left |-> Words(kinds[k], vs[k]) \o s, values |-> V(l)], kinds[k])
               = [ok |-> TRUE, left |-> s, values |-> Append(V(l), vs[k])]
      BY <1>1, <3>3, FurtherBack, ZenonT(60)
    <3> QED
      BY <2>1, <3>2, <3>4, <3>5, Zenon
  <2>2. CASE k \notin DOMAIN kinds
    <3>1. Before(k) = Before(l)
      BY <1>1, <2>2
    <3>2. Field(k) = <<>> /\ <<>> \in Seq(Nat) /\ <<>> \o s = s
      BY <2>2
    <3> QED
      BY <2>2, <3>1, <3>2
  <2> QED
    BY <2>1, <2>2
<1> HIDE DEF Field, After
<1>2. PICK a, b, c, d : a = Field(1) /\ b = Field(2) /\ c = Field(3) /\ d = Field(4)
  OBVIOUS
<1>3. /\ 1 \in 1..4 /\ 2 \in 1..4 /\ 3 \in 1..4 /\ 4 \in 1..4
      /\ 0 \in Nat /\ 1 \in Nat /\ 2 \in Nat /\ 3 \in Nat
      /\ 1 = 0 + 1 /\ 2 = 1 + 1 /\ 3 = 2 + 1 /\ 4 = 3 + 1
  OBVIOUS
<1>4. a \in Seq(Nat) /\ b \in Seq(Nat) /\ c \in Seq(Nat) /\ d \in Seq(Nat)
  BY <1>1, <1>2, <1>3, Zenon
<1>5. PICK s3, s2, s1, w : s3 = Cat(d, rest) /\ s2 = Cat(c, s3) /\ s1 = Cat(b, s2)
                            /\ w = Cat(Cat(Cat(a, b), c), d)
  OBVIOUS
<1>6. w \in Seq(Nat) /\ Cat(w, rest) = Cat(a, s1)
  BY <1>4, <1>5, RegroupedAll
<1>7. s3 \in Seq(Nat) /\ s2 \in Seq(Nat) /\ s1 \in Seq(Nat)
  BY <1>4, <1>5, RegroupedAll
<1>8. /\ After(State(0, a \o s1), 1) = State(1, s1)
      /\ After(State(1, b \o s2), 2) = State(2, s2)
      /\ After(State(2, c \o s3), 3) = State(3, s3)
      /\ After(State(3, d \o rest), 4) = State(4, rest)
  BY <1>1, <1>2, <1>3, <1>7, Zenon
<1>9. w \o rest = a \o s1 /\ b \o s2 = s1 /\ c \o s3 = s2 /\ d \o rest = s3
  BY <1>5, <1>6 DEF Cat
<1>10. AllWords(kinds, vs) = w
  BY <1>2, <1>5 DEF AllWords, Field, Cat
<1>11. V(0) = <<>> /\ V(4) = vs
  <2>1. Before(0) = 0 /\ Before(4) = n
    OBVIOUS
  <2>2. vs = [k \in 1..n |-> vs[k]]
    BY DEF FitsFields
  <2>3. [x \in 1..0 |-> vs[x]] = <<>>
    OBVIOUS
  <2> QED
    BY <2>1, <2>2, <2>3, Zenon
<1> HIDE DEF V
<1>12. ReadFields(a \o s1, kinds)
         = After(After(After(After(State(0, a \o s1), 1), 2), 3), 4)
  BY <1>11, Zenon DEF ReadFields, After
<1>13. ReadFields(a \o s1, kinds) = [ok |-> TRUE, left |-> rest, values |-> vs]
  BY <1>8, <1>9, <1>11, <1>12, Zenon
<1> QED
  BY <1>6, <1>9, <1>10, <1>13

\* The tables: each type has one number, and deserialize reads the fields of a
\* type that serialize writes for its payload.
LEMMA Tables ==
  ASSUME NEW t \in Range(TypeNames)
  PROVE  /\ TypeNumber(t) \in 0..10 /\ TypeNumber(t) + 1 \in DOMAIN TypeNames
         /\ TypeNames[TypeNumber(t) + 1] = t
         /\ Written[PayloadOf[t]] = Read[t]
         /\ \E n \in 0..4 : DOMAIN Read[t] = 1..n /\ \A k \in 1..n : Read[t][k] \in Kind
<1>1. DOMAIN TypeNames = 1..11
  BY DEF TypeNames
<1>2. PICK k \in 1..11 : TypeNames[k] = t
  BY <1>1 DEF Range
<1>3. PICK c : c = CHOOSE x \in DOMAIN TypeNames : TypeNames[x] = t
  OBVIOUS
<1>4. c \in 1..11 /\ TypeNames[c] = t
  BY <1>1, <1>2, <1>3
<1>5. TypeNumber(t) = c - 1
  BY <1>3 DEF TypeNumber
<1>6. TypeNumber(t) \in 0..10 /\ TypeNumber(t) + 1 = c
  BY <1>4, <1>5
<1>7. t \in {"CLIENT_REQUEST", "CLIENT_RESPONSE", "FORWARD_REQUEST", "PREPARE", "PROMISE",
             "ACCEPT_REQUEST", "ACCEPTED", "COMMIT", "HEARTBEAT", "SYNC_REQUEST", "SYNC_DATA"}
  BY <1>4 DEF TypeNames
<1>8. Written[PayloadOf[t]] = Read[t]
  BY <1>7 DEF Written, PayloadOf, Read
<1>9. Read[t] \in {<<"u64">>, <<"u64", "u64", "optional">>, <<"u64", "u64", "text">>,
                   <<"u64", "u64">>, <<"u64", "text">>, <<"u32", "u32", "text">>, <<"u32", "u32">>}
  BY <1>7 DEF Read
<1>10. ASSUME NEW q \in {<<"u64">>, <<"u64", "u64", "optional">>, <<"u64", "u64", "text">>,
                   <<"u64", "u64">>, <<"u64", "text">>, <<"u32", "u32", "text">>, <<"u32", "u32">>}
       PROVE  \E n \in 0..4 : DOMAIN q = 1..n /\ \A x \in 1..n : q[x] \in Kind
  <2>1. CASE q = <<"u64">>
    <3>1. DOMAIN q = 1..1 /\ \A x \in 1..1 : q[x] \in Kind
      BY <2>1 DEF Kind
    <3> QED
      BY <3>1
  <2>2. CASE q \in {<<"u64", "u64">>, <<"u64", "text">>, <<"u32", "u32">>}
    <3>1. DOMAIN q = 1..2 /\ \A x \in 1..2 : q[x] \in Kind
      BY <2>2 DEF Kind
    <3> QED
      BY <3>1
  <2>3. CASE q \in {<<"u64", "u64", "optional">>, <<"u64", "u64", "text">>, <<"u32", "u32", "text">>}
    <3>1. DOMAIN q = 1..3 /\ \A x \in 1..3 : q[x] \in Kind
      BY <2>3 DEF Kind
    <3> QED
      BY <3>1
  <2> QED
    BY <2>1, <2>2, <2>3
<1> QED
  BY <1>1, <1>4, <1>6, <1>8, <1>9, <1>10

\* What the head of a frame says.
HeadKinds == <<"u32", "u32", "u32", "u64">>
HeadOf(m) == <<m.from, m.to, TypeNumber(m.type), m.term>>

\* The head of a message that fits is four fields that fit.
LEMMA HeadFits ==
  ASSUME NEW m, Fits(m)
  PROVE  FitsFields(HeadKinds, HeadOf(m)) /\ ~(AsInt(m.from) < 0) /\ ~(AsInt(m.to) < 0)
<1>1. m.type \in Range(TypeNames) /\ FitsField("u64", m.term)
  BY DEF Fits
<1>2. PICK h \in Nat : h = WordSize \div 2
  BY WordSizeAssumption
<1>3. h <= WordSize /\ m.from \in 0..h - 1 /\ m.to \in 0..h - 1
  BY <1>2, WordSizeAssumption DEF Fits
<1>4. ~(AsInt(m.from) < 0) /\ ~(AsInt(m.to) < 0)
  BY <1>2, <1>3 DEF AsInt
<1>5. m.from \in 0..WordSize - 1 /\ m.to \in 0..WordSize - 1
  BY <1>3, WordSizeAssumption
<1>6. TypeNumber(m.type) \in 0..WordSize - 1
  <2>1. TypeNumber(m.type) \in 0..10
    BY <1>1, Tables
  <2> QED
    BY <2>1, WordSizeAssumption
<1>7. PICK a, b, c, d : a = m.from /\ b = m.to /\ c = TypeNumber(m.type) /\ d = m.term
  OBVIOUS
<1>8. FitsField("u32", a) /\ FitsField("u32", b) /\ FitsField("u32", c) /\ FitsField("u64", d)
  <2>1. \A v : FitsField("u32", v) <=> v \in 0..WordSize - 1
    BY DEF FitsField
  <2> QED
    BY <1>1, <1>5, <1>6, <1>7, <2>1
<1>9. FitsFields(HeadKinds, <<a, b, c, d>>)
  <2>1. PICK vs : vs = <<a, b, c, d>>
    OBVIOUS
  <2>2. DOMAIN HeadKinds = 1..4
    BY DEF HeadKinds
  <2>3. vs = [k \in 1..4 |-> vs[k]]
    BY <2>1
  <2>4. \A k \in 1..4 : FitsField(HeadKinds[k], vs[k])
    BY <1>8, <2>1 DEF HeadKinds
  <2> QED
    BY <2>1, <2>2, <2>3, <2>4 DEF FitsFields
<1> QED
  BY <1>4, <1>7, <1>9 DEF HeadOf

\* A message that can be written is read back: its frame holds it and nothing
\* else.  serialize and deserialize agree for every type, whatever the values.
THEOREM RoundTrip ==
  ASSUME NEW m, Fits(m)
  PROVE  Serialize(m) \in Seq(Nat) /\ Deserialize(Serialize(m)) = <<m>>
<1>1. m.type \in Range(TypeNames) /\ FitsFields(Written[PayloadOf[m.type]], m.payload)
  BY DEF Fits
<1>20. PICK t, kinds : t = m.type /\ kinds = Read[t]
  OBVIOUS
<1>2. PICK n \in 0..4 :
        /\ t = m.type /\ kinds = Read[t] /\ kinds = Written[PayloadOf[t]]
        /\ DOMAIN kinds = 1..n /\ \A k \in 1..n : kinds[k] \in Kind
  <2>1. t \in Range(TypeNames)
    BY <1>1, <1>20
  <2>2. kinds = Written[PayloadOf[t]]
    BY <1>20, <2>1, Tables
  <2>3. PICK n \in 0..4 : DOMAIN Read[t] = 1..n /\ \A k \in 1..n : Read[t][k] \in Kind
    BY <2>1, Tables
  <2> QED
    BY <1>20, <2>2, <2>3
<1>3. PICK body : body = AllWords(kinds, m.payload)
  OBVIOUS
<1>4. body \in Seq(Nat)
      /\ ReadFields(body \o <<>>, kinds) = [ok |-> TRUE, left |-> <<>>, values |-> m.payload]
  <2>1. FitsFields(kinds, m.payload) /\ <<>> \in Seq(Nat)
    BY <1>1, <1>2
  <2> QED
    BY <1>2, <1>3, <2>1, FieldsBack
<1>5. body \o <<>> = body
  BY <1>4
<1>6. DOMAIN HeadKinds = 1..4 /\ \A k \in 1..4 : HeadKinds[k] \in Kind
  BY DEF HeadKinds, Kind
<1>7. PICK head : head = AllWords(HeadKinds, HeadOf(m))
  OBVIOUS
<1>8. head \in Seq(Nat)
      /\ ReadFields(head \o body, HeadKinds) = [ok |-> TRUE, left |-> body, values |-> HeadOf(m)]
  BY <1>4, <1>6, <1>7, HeadFits, FieldsBack
<1>9. Serialize(m) = head \o body
  BY <1>2, <1>3, <1>7 DEF Serialize, HeadKinds, HeadOf
<1>10. PICK h : h = ReadFields(head \o body, HeadKinds)
  OBVIOUS
<1>11. h.ok = TRUE /\ h.left = body /\ h.values = HeadOf(m)
  BY <1>8, <1>10
<1>12. PICK r : r = ReadFields(body, kinds)
  OBVIOUS
<1>13. r.ok = TRUE /\ r.values = m.payload
  BY <1>4, <1>5, <1>12
<1>14. /\ h.values[1] = m.from /\ h.values[2] = m.to
       /\ h.values[3] = TypeNumber(t) /\ h.values[4] = m.term
  BY <1>2, <1>11 DEF HeadOf
<1>15. /\ TypeNumber(t) + 1 \in DOMAIN TypeNames /\ TypeNames[TypeNumber(t) + 1] = t
  BY <1>1, <1>2, Tables
<1>16. ~(~h.ok \/ AsInt(h.values[1]) < 0 \/ AsInt(h.values[2]) < 0
           \/ h.values[3] + 1 \notin DOMAIN TypeNames)
  BY <1>11, <1>14, <1>15, HeadFits
<1>17. Deserialize(head \o body) = <<[from |-> m.from, to |-> m.to, type |-> t, term |-> m.term,
                                      payload |-> m.payload]>>
  BY <1>2, <1>10, <1>11, <1>12, <1>13, <1>14, <1>15, <1>16, ZenonT(60) DEF Deserialize, HeadKinds
<1>18. m = [from |-> m.from, to |-> m.to, type |-> t, term |-> m.term, payload |-> m.payload]
  BY <1>2 DEF Fits
<1>19. head \o body \in Seq(Nat)
  BY <1>4, <1>8
<1> QED
  BY <1>9, <1>17, <1>18, <1>19

-----------------------------------------------------------------------------
(* Boxes: the queues and connections a message passes through, and what is *)
(* in them.  No message is in two places.                                  *)

Message == UNION {Range(Script[i]) : i \in Node}

Queue == {"outbound", "batch", "decoded", "inbound", "handed"}
Box   == (Queue \cup {"conn"}) \X Node \X Node \X Nat

QueueBox(q, i) == <<q, i, i, 0>>
ConnBox(c, n)  == <<"conn", c[1], c[2], n>>

\* What may be in a box once all of S has been sent.
Proper(b, S) == {m \in S : b[1] \in {"outbound", "batch"} \/ m.to = b[3]}

\* H[b] are the messages in box b.
OnBoxes(H) == H = [b \in Box |-> H[b]]

Once(H, S) ==
  /\ OnBoxes(H)
  /\ \A b \in Box : H[b] \in Seq(Proper(b, S))
  /\ \A a, b \in Box : \A k \in 1..Len(H[a]), l \in 1..Len(H[b]) :
       H[a][k] = H[b][l] => a = b /\ k = l

\* The boxes of queues and of connections are boxes, all different.
LEMMA Boxes ==
  /\ \A q \in Queue, i \in Node : QueueBox(q, i) \in Box
  /\ \A q, r \in Queue, i, j \in Node : QueueBox(q, i) = QueueBox(r, j) => q = r /\ i = j
  /\ \A c \in Channel, n \in Nat : ConnBox(c, n) \in Box
  /\ \A c, d \in Channel, n, x \in Nat : ConnBox(c, n) = ConnBox(d, x) => c = d /\ n = x
  /\ \A q \in Queue, i \in Node, c \in Channel, n \in Nat : QueueBox(q, i) # ConnBox(c, n)
<1>1. \A q \in Queue, i \in Node : QueueBox(q, i) \in Box
  BY DEF QueueBox, Box
<1>2. \A q, r \in Queue, i, j \in Node : QueueBox(q, i) = QueueBox(r, j) => q = r /\ i = j
  BY DEF QueueBox
<1>3. \A c \in Channel : c = <<c[1], c[2]>> /\ c[1] \in Node /\ c[2] \in Node
  BY DEF Channel
<1>4. \A c \in Channel, n \in Nat : ConnBox(c, n) \in Box
  BY <1>3 DEF ConnBox, Box
<1>5. \A c, d \in Channel, n, x \in Nat : ConnBox(c, n) = ConnBox(d, x) => c = d /\ n = x
  BY <1>3 DEF ConnBox
<1>6. \A q \in Queue, i \in Node, c \in Channel, n \in Nat : QueueBox(q, i) # ConnBox(c, n)
  BY DEF QueueBox, ConnBox, Queue
<1> QED
  BY <1>1, <1>2, <1>4, <1>5, <1>6

\* Boxes that are emptied take nothing from the others.
LEMMA Emptied ==
  ASSUME NEW S, NEW H, Once(H, S), NEW G, OnBoxes(G),
         \A b \in Box : G[b] = H[b] \/ G[b] = <<>>
  PROVE  Once(G, S)
<1>1. \A b \in Box : H[b] \in Seq(Proper(b, S))
  BY DEF Once
<1>2. \A b \in Box : G[b] \in Seq(Proper(b, S))
  <2>1. \A b \in Box : <<>> \in Seq(Proper(b, S))
    OBVIOUS
  <2> QED
    BY <1>1, <2>1
<1>3. \A b \in Box : \A k \in 1..Len(G[b]) : G[b] = H[b]
  BY <1>1
<1>4. ASSUME NEW a \in Box, NEW b \in Box, NEW k \in 1..Len(G[a]), NEW l \in 1..Len(G[b]),
             G[a][k] = G[b][l]
      PROVE  a = b /\ k = l
  <2>1. G[a] = H[a] /\ G[b] = H[b]
    BY <1>3
  <2> QED
    BY <1>4, <2>1 DEF Once
<1> QED
  BY <1>2, <1>4 DEF Once

\* Messages that leave at the head of one box and enter at the end of another.
LEMMA Moved ==
  ASSUME NEW S, NEW H, Once(H, S), NEW a \in Box, NEW b \in Box, a # b,
         NEW p \in Seq(Proper(b, S)), NEW r \in Seq(Proper(a, S)), H[a] = p \o r,
         NEW G, OnBoxes(G), G[a] = r, G[b] = H[b] \o p,
         \A z \in Box \ {a, b} : G[z] = H[z]
  PROVE  Once(G, S)
<1>1. \A z \in Box : H[z] \in Seq(Proper(z, S))
  BY DEF Once
<1>0. \A y, z \in Box : \A k \in 1..Len(H[y]), l \in 1..Len(H[z]) :
        H[y][k] = H[z][l] => y = z /\ k = l
  BY DEF Once
<1>2. PICK u \in Nat, v \in Nat, w \in Nat : u = Len(p) /\ v = Len(r) /\ w = Len(H[b])
  <2>1. Len(p) \in Nat /\ Len(r) \in Nat /\ Len(H[b]) \in Nat
    BY <1>1
  <2> QED
    BY <2>1
<1>3. /\ Len(H[a]) = u + v
      /\ \A k \in 1..u : H[a][k] = p[k]
      /\ \A k \in 1..v : H[a][u + k] = r[k]
  <2>1. PICK T : T = Proper(a, S) \cup Proper(b, S)
    OBVIOUS
  <2>2. p \in Seq(T) /\ r \in Seq(T)
    BY <2>1
  <2>3. /\ Len(p \o r) = Len(p) + Len(r)
        /\ \A k \in 1..Len(p) : (p \o r)[k] = p[k]
        /\ \A k \in 1..Len(r) : (p \o r)[Len(p) + k] = r[k]
    BY <2>2, Joined
  <2> QED
    BY <1>2, <2>3
<1>4. /\ G[b] \in Seq(Proper(b, S)) /\ Len(G[b]) = w + u
      /\ \A k \in 1..w : G[b][k] = H[b][k]
      /\ \A k \in 1..u : G[b][w + k] = p[k]
  <2>1. PICK T : T = Proper(b, S)
    OBVIOUS
  <2>2. PICK h : h = H[b]
    OBVIOUS
  <2>3. p \in Seq(T) /\ h \in Seq(T)
    BY <1>1, <2>1, <2>2
  <2>4. /\ h \o p \in Seq(T) /\ Len(h \o p) = Len(h) + Len(p)
        /\ \A k \in 1..Len(h) : (h \o p)[k] = h[k]
        /\ \A k \in 1..Len(p) : (h \o p)[Len(h) + k] = p[k]
    BY <2>3, Joined
  <2> QED
    BY <1>2, <2>1, <2>2, <2>4
<1>5. \A z \in Box : G[z] \in Seq(Proper(z, S))
  BY <1>1, <1>4
<1> DEFINE From(z, k) == IF z = b /\ k > w THEN a ELSE z
           Was(z, k)  == IF z = a THEN u + k ELSE IF z = b /\ k > w THEN k - w ELSE k
<1>6. ASSUME NEW z \in Box, NEW k \in 1..Len(G[z])
      PROVE  /\ From(z, k) \in Box /\ Was(z, k) \in 1..Len(H[From(z, k)])
             /\ H[From(z, k)][Was(z, k)] = G[z][k]
  <2>1. CASE z = a
    <3>1. k \in 1..v /\ u + k \in 1..u + v
      BY <1>2, <2>1
    <3> QED
      BY <1>3, <2>1, <3>1
  <2>2. CASE z = b /\ k > w
    <3>1. k \in 1..w + u /\ k > w
      BY <1>4, <2>2
    <3>2. k - w \in 1..u /\ w + (k - w) = k /\ k - w \in 1..u + v
      BY <1>2, <3>1
    <3>3. From(z, k) = a /\ Was(z, k) = k - w
      BY <2>2
    <3>4. G[b][w + (k - w)] = p[k - w] /\ H[a][k - w] = p[k - w]
      BY <1>3, <1>4, <3>2
    <3> QED
      BY <1>3, <2>2, <3>2, <3>3, <3>4
  <2>3. CASE z = b /\ ~(k > w)
    <3>1. k \in 1..w
      BY <1>2, <1>4, <2>3
    <3>2. From(z, k) = b /\ Was(z, k) = k
      BY <2>3
    <3> QED
      BY <1>2, <1>4, <2>3, <3>1, <3>2
  <2>4. CASE z \notin {a, b}
    BY <2>4
  <2> QED
    BY <2>1, <2>2, <2>3, <2>4
<1>7. ASSUME NEW y \in Box, NEW z \in Box, NEW k \in 1..Len(G[y]), NEW l \in 1..Len(G[z]),
             From(y, k) = From(z, l), Was(y, k) = Was(z, l)
      PROVE  y = z /\ k = l
  <2>1. k \in Nat /\ l \in Nat
    BY <1>5
  <2>2. y = b => k <= w + u
    BY <1>4
  <2>3. z = b => l <= w + u
    BY <1>4
  <2> QED
    BY <1>2, <1>7, <2>1, <2>2, <2>3
<1> HIDE DEF From, Was
<1>8. ASSUME NEW y \in Box, NEW z \in Box, NEW k \in 1..Len(G[y]), NEW l \in 1..Len(G[z]),
             G[y][k] = G[z][l]
      PROVE  y = z /\ k = l
  <2>1. /\ From(y, k) \in Box /\ Was(y, k) \in 1..Len(H[From(y, k)])
        /\ H[From(y, k)][Was(y, k)] = G[y][k]
    BY <1>6
  <2>2. /\ From(z, l) \in Box /\ Was(z, l) \in 1..Len(H[From(z, l)])
        /\ H[From(z, l)][Was(z, l)] = G[z][l]
    BY <1>6
  <2>3. From(y, k) = From(z, l) /\ Was(y, k) = Was(z, l)
    BY <1>0, <1>8, <2>1, <2>2
  <2> QED
    BY <1>7, <2>3
<1> QED
  BY <1>5, <1>8 DEF Once

\* Messages that leave at the head of a box and are dropped.
LEMMA Shortened ==
  ASSUME NEW S, NEW H, Once(H, S), NEW a \in Box,
         NEW p \in Seq(S), NEW r \in Seq(Proper(a, S)), H[a] = p \o r,
         NEW G, OnBoxes(G), G[a] = r,
         \A z \in Box \ {a} : G[z] = H[z]
  PROVE  Once(G, S)
<1>1. \A z \in Box : H[z] \in Seq(Proper(z, S))
  BY DEF Once
<1>2. PICK u \in Nat, v \in Nat : u = Len(p) /\ v = Len(r)
  OBVIOUS
<1>3. Len(H[a]) = u + v /\ \A k \in 1..v : H[a][u + k] = r[k]
  <2>1. p \in Seq(S) /\ r \in Seq(S)
    <3>1. Proper(a, S) \subseteq S
      BY DEF Proper
    <3> QED
      BY <3>1
  <2>2. /\ Len(p \o r) = Len(p) + Len(r)
        /\ \A k \in 1..Len(r) : (p \o r)[Len(p) + k] = r[k]
    BY <2>1, Joined
  <2> QED
    BY <1>2, <2>2
<1>4. \A z \in Box : G[z] \in Seq(Proper(z, S))
  BY <1>1
<1> DEFINE Was(z, k) == IF z = a THEN u + k ELSE k
<1>5. ASSUME NEW z \in Box, NEW k \in 1..Len(G[z])
      PROVE  Was(z, k) \in 1..Len(H[z]) /\ H[z][Was(z, k)] = G[z][k]
  <2>1. CASE z = a
    <3>1. k \in 1..v /\ u + k \in 1..u + v
      BY <1>2, <2>1
    <3> QED
      BY <1>3, <2>1, <3>1
  <2>2. CASE z # a
    BY <2>2
  <2> QED
    BY <2>1, <2>2
<1>6. ASSUME NEW y \in Box, NEW z \in Box, NEW k \in 1..Len(G[y]), NEW l \in 1..Len(G[z]),
             G[y][k] = G[z][l]
      PROVE  y = z /\ k = l
  <2>1. H[y][Was(y, k)] = H[z][Was(z, l)]
    BY <1>5, <1>6
  <2>2. y = z /\ Was(y, k) = Was(z, l)
    <3> HIDE DEF Was
    <3> QED
      BY <1>5, <2>1, SMTT(30) DEF Once
  <2>3. k \in Nat /\ l \in Nat
    BY <1>4
  <2> QED
    BY <1>2, <2>2, <2>3
<1> QED
  BY <1>4, <1>6 DEF Once

\* A message that had not been sent enters a queue.
LEMMA Entered ==
  ASSUME NEW S, NEW T, S \subseteq T, NEW m \in T \ S, NEW H, Once(H, S),
         NEW a \in Box, m \in Proper(a, T),
         NEW G, OnBoxes(G), G[a] = Append(H[a], m),
         \A z \in Box \ {a} : G[z] = H[z]
  PROVE  Once(G, T)
<1>1. \A z \in Box : H[z] \in Seq(Proper(z, S)) /\ H[z] \in Seq(Proper(z, T))
  <2>1. \A z \in Box : Proper(z, S) \subseteq Proper(z, T)
    BY DEF Proper
  <2> QED
    BY <2>1 DEF Once
<1>2. \A y, z \in Box : \A k \in 1..Len(H[y]), l \in 1..Len(H[z]) :
        H[y][k] = H[z][l] => y = z /\ k = l
  BY DEF Once
<1>3. \A z \in Box : \A k \in 1..Len(H[z]) : H[z][k] # m
  <2>1. \A z \in Box : \A k \in 1..Len(H[z]) : H[z][k] \in Proper(z, S)
    BY <1>1
  <2>2. \A z \in Box : Proper(z, S) \subseteq S
    BY DEF Proper
  <2> QED
    BY <2>1, <2>2
<1>4. PICK w \in Nat : w = Len(H[a])
  BY <1>1
<1>5. /\ G[a] \in Seq(Proper(a, T)) /\ Len(G[a]) = w + 1 /\ G[a][w + 1] = m
      /\ \A k \in 1..w : G[a][k] = H[a][k]
  <2>1. PICK h, X : h = H[a] /\ X = Proper(a, T)
    OBVIOUS
  <2>2. h \in Seq(X) /\ m \in X
    BY <1>1, <2>1
  <2>3. /\ Append(h, m) \in Seq(X) /\ Len(Append(h, m)) = Len(h) + 1
        /\ Append(h, m)[Len(h) + 1] = m /\ \A k \in 1..Len(h) : Append(h, m)[k] = h[k]
    BY <2>2
  <2> QED
    BY <1>4, <2>1, <2>3
<1>6. \A z \in Box : G[z] \in Seq(Proper(z, T))
  BY <1>1, <1>5
<1>7. ASSUME NEW z \in Box, NEW k \in 1..Len(G[z])
      PROVE  (z = a /\ k = w + 1 /\ G[z][k] = m) \/ (k \in 1..Len(H[z]) /\ G[z][k] = H[z][k])
  <2>1. CASE z = a
    <3>1. k = w + 1 \/ k \in 1..w
      BY <1>5, <2>1
    <3> QED
      BY <1>4, <1>5, <2>1, <3>1
  <2>2. CASE z # a
    BY <2>2
  <2> QED
    BY <2>1, <2>2
<1>8. ASSUME NEW y \in Box, NEW z \in Box, NEW k \in 1..Len(G[y]), NEW l \in 1..Len(G[z]),
             G[y][k] = G[z][l]
      PROVE  y = z /\ k = l
  <2>1. (y = a /\ k = w + 1 /\ G[y][k] = m) \/ (k \in 1..Len(H[y]) /\ G[y][k] = H[y][k])
    BY <1>7
  <2>2. (z = a /\ l = w + 1 /\ G[z][l] = m) \/ (l \in 1..Len(H[z]) /\ G[z][l] = H[z][l])
    BY <1>7
  <2> QED
    BY <1>2, <1>3, <1>8, <2>1, <2>2
<1> QED
  BY <1>6, <1>8 DEF Once

-----------------------------------------------------------------------------
(* Streams: the frames of a sequence of messages, and what comes after.    *)

\* The words ws are the frames of the messages q and the words x.
Carries(q, ws, x) ==
  \E D \in [0..Len(q) -> Seq(Nat)] :
    /\ D[0] = ws /\ D[Len(q)] = x
    /\ \A k \in 1..Len(q) : D[k - 1] = Frame(q[k]) \o D[k]

Framed(M) == \A m \in M : Frame(m) \in Seq(Nat)

\* A stream of no frames.
LEMMA CarriesNothing ==
  ASSUME NEW x
  PROVE  /\ x \in Seq(Nat) => Carries(<<>>, x, x)
         /\ \A ws : Carries(<<>>, ws, x) => ws = x
<1>1. ASSUME x \in Seq(Nat) PROVE Carries(<<>>, x, x)
  <2>1. PICK D : D = [k \in 0..0 |-> x]
    OBVIOUS
  <2>2. D \in [0..Len(<<>>) -> Seq(Nat)] /\ D[0] = x /\ Len(<<>>) = 0
    BY <1>1, <2>1
  <2> QED
    BY <2>2 DEF Carries
<1>2. ASSUME NEW ws, Carries(<<>>, ws, x) PROVE ws = x
  <2>1. Len(<<>>) = 0
    OBVIOUS
  <2> QED
    BY <1>2, <2>1 DEF Carries
<1> QED
  BY <1>1, <1>2

\* More words at the end.
LEMMA CarriesOn ==
  ASSUME NEW M, Framed(M), NEW q \in Seq(M), NEW ws, NEW x, Carries(q, ws, x), NEW y \in Seq(Nat)
  PROVE  Carries(q, ws \o y, x \o y)
<1>1. PICK n \in Nat : n = Len(q)
  OBVIOUS
<1>2. PICK D \in [0..n -> Seq(Nat)] :
        /\ D[0] = ws /\ D[n] = x
        /\ \A k \in 1..n : D[k - 1] = Frame(q[k]) \o D[k]
  BY <1>1 DEF Carries
<1>3. PICK E : E = [k \in 0..n |-> D[k] \o y]
  OBVIOUS
<1>4. E \in [0..n -> Seq(Nat)] /\ E[0] = ws \o y /\ E[n] = x \o y
  BY <1>1, <1>2, <1>3, SMTT(30)
<1>5. ASSUME NEW k \in 1..n PROVE E[k - 1] = Frame(q[k]) \o E[k]
  <2>1. k - 1 \in 0..n /\ k \in 0..n /\ k \in 1..Len(q)
    BY <1>1
  <2>2. Frame(q[k]) \in Seq(Nat)
    BY <2>1 DEF Framed
  <2>3. PICK f, d : f = Frame(q[k]) /\ d = D[k]
    OBVIOUS
  <2>4. f \in Seq(Nat) /\ d \in Seq(Nat)
    BY <2>1, <2>2, <2>3
  <2>5. Cat(Cat(f, d), y) = Cat(f, Cat(d, y))
    BY <2>4, CatRegrouped
  <2>6. E[k - 1] = Cat(D[k - 1], y) /\ E[k] = Cat(D[k], y)
    BY <1>3, <2>1 DEF Cat
  <2>7. D[k - 1] = Cat(f, d)
    BY <1>2, <2>3 DEF Cat
  <2>8. E[k - 1] = Cat(f, E[k])
    BY <2>3, <2>5, <2>6, <2>7
  <2> QED
    BY <2>3, <2>8 DEF Cat
<1> QED
  BY <1>1, <1>4, <1>5 DEF Carries

\* The frame of a message at the end is one message more.
LEMMA CarriesLast ==
  ASSUME NEW M, Framed(M), NEW q \in Seq(M), NEW m \in M, NEW ws, NEW x \in Seq(Nat),
         Carries(q, ws, Frame(m) \o x)
  PROVE  Carries(Append(q, m), ws, x)
<1>1. PICK n \in Nat : n = Len(q)
  OBVIOUS
<1>2. PICK D \in [0..n -> Seq(Nat)] :
        /\ D[0] = ws /\ D[n] = Frame(m) \o x
        /\ \A k \in 1..n : D[k - 1] = Frame(q[k]) \o D[k]
  BY <1>1 DEF Carries
<1>3. PICK p : p = Append(q, m)
  OBVIOUS
<1>4. p \in Seq(M) /\ Len(p) = n + 1 /\ p[n + 1] = m /\ \A k \in 1..n : p[k] = q[k]
  BY <1>1, <1>3
<1>5. PICK E : E = [k \in 0..n + 1 |-> IF k = n + 1 THEN x ELSE D[k]]
  OBVIOUS
<1>6. \A k \in 0..n : E[k] = D[k]
  BY <1>5
<1>7. E[n + 1] = x
  BY <1>5
<1>8. E \in [0..n + 1 -> Seq(Nat)]
  BY <1>2, <1>5
<1>9. ASSUME NEW k \in 1..n + 1 PROVE E[k - 1] = Frame(p[k]) \o E[k]
  <2>1. CASE k = n + 1
    <3>1. k - 1 = n /\ n \in 0..n
      BY <2>1
    <3> QED
      BY <1>2, <1>4, <1>6, <1>7, <2>1, <3>1
  <2>2. CASE k \in 1..n
    <3>1. k - 1 \in 0..n /\ k \in 0..n
      BY <2>2
    <3> QED
      BY <1>2, <1>4, <1>6, <2>2, <3>1
  <2>3. k = n + 1 \/ k \in 1..n
    OBVIOUS
  <2> QED
    BY <2>1, <2>2, <2>3
<1>10. E[0] = ws
  BY <1>2, <1>6
<1> QED
  BY <1>3, <1>4, <1>7, <1>8, <1>9, <1>10 DEF Carries

\* The stream begins with the frame of the first message.
LEMMA CarriesFirst ==
  ASSUME NEW M, Framed(M), NEW q \in Seq(M), q # <<>>, NEW ws, NEW x, Carries(q, ws, x)
  PROVE  \E more \in Seq(Nat) : ws = Frame(q[1]) \o more /\ Carries(Tail(q), more, x)
<1>1. PICK n \in Nat : n + 1 = Len(q)
  <2>1. Len(q) - 1 \in Nat /\ (Len(q) - 1) + 1 = Len(q)
    OBVIOUS
  <2> QED
    BY <2>1
<1>2. PICK D \in [0..n + 1 -> Seq(Nat)] :
        /\ D[0] = ws /\ D[n + 1] = x
        /\ \A k \in 1..n + 1 : D[k - 1] = Frame(q[k]) \o D[k]
  BY <1>1 DEF Carries
<1>3. PICK p : p = Tail(q)
  OBVIOUS
<1>4. p \in Seq(M) /\ Len(p) = n /\ \A k \in 1..n : p[k] = q[k + 1]
  BY <1>1, <1>3
<1>5. ws = Frame(q[1]) \o D[1] /\ D[1] \in Seq(Nat)
  <2>1. 1 \in 1..n + 1 /\ 1 - 1 = 0 /\ 1 \in 0..n + 1
    OBVIOUS
  <2> QED
    BY <1>2, <2>1
<1>6. PICK E : E = [k \in 0..n |-> D[k + 1]]
  OBVIOUS
<1>7. E \in [0..n -> Seq(Nat)] /\ E[0] = D[1] /\ E[n] = x
  BY <1>2, <1>6
<1>8. ASSUME NEW k \in 1..n PROVE E[k - 1] = Frame(p[k]) \o E[k]
  <2>1. k - 1 \in 0..n /\ k \in 0..n /\ k + 1 \in 1..n + 1 /\ (k - 1) + 1 = k /\ (k + 1) - 1 = k
    OBVIOUS
  <2>2. E[k - 1] = D[k] /\ E[k] = D[k + 1]
    BY <1>6, <2>1
  <2> QED
    BY <1>2, <1>4, <2>1, <2>2
<1>9. Carries(p, D[1], x)
  BY <1>4, <1>7, <1>8 DEF Carries
<1> QED
  BY <1>3, <1>5, <1>9

\* The messages that may get into a stream can be written, and their frames
\* are read as what they are.
Addressed == {m \in Message : m.to \in Node}

\* The frame of an addressed message is read as that message.
LEMMA FramesKnown ==
  /\ Framed(Addressed)
  /\ \A m \in Addressed : FrameOf[m] \in Seq(Nat) /\ MessageIn(FrameOf[m]) = <<m>>
<1>1. ASSUME NEW m \in Addressed
      PROVE  FrameOf[m] \in Seq(Nat) /\ Frame(m) \in Seq(Nat) /\ MessageIn(FrameOf[m]) = <<m>>
  <2>1. m \in Message /\ m.to \in Node
    BY DEF Addressed
  <2>2. PICK i \in Node : m \in Range(Script[i])
    BY <2>1 DEF Message
  <2>3. PICK k \in DOMAIN Script[i] : Script[i][k] = m
    BY <2>2 DEF Range
  <2>4. Fits(m)
    BY <2>1, <2>3, FitAssumption
  <2>5. DOMAIN FrameOf = Message /\ FrameOf[m] = Serialize(m)
    BY <2>1 DEF FrameOf, Message
  <2>6. PICK f : f = Serialize(m)
    OBVIOUS
  <2>7. f \in Seq(Nat) /\ Deserialize(f) = <<m>>
    BY <2>4, <2>6, RoundTrip
  <2>8. MessageIn(f) = Deserialize(f)
    BY DEF MessageIn, Known
  <2>9. Frame(m) = <<Len(f)>> \o f
    BY <2>5, <2>6 DEF Frame
  <2>10. <<Len(f)>> \o f \in Seq(Nat)
    BY <2>7, Headed
  <2> QED
    BY <2>5, <2>6, <2>7, <2>8, <2>9, <2>10
<1> QED
  BY <1>1 DEF Framed

\* Connection k holds the frames of the messages q, some in the buffer of its
\* receiver, some in the stream.  Part of a frame only ends a stream nothing
\* will be added to.
Connection ==
  [stream : Seq(Nat), cuts : SUBSET Nat, open : BOOLEAN,
   receiver : {"backlog", "open", "closed"}, buffer : Seq(Nat)]

Holds(k, q) ==
  /\ k \in Connection
  /\ k.cuts \subseteq 1..Len(k.stream)
  /\ k.receiver = "closed" => q = <<>> /\ k.stream = <<>> /\ k.buffer = <<>>
  /\ \E x \in Seq(Nat) : Len(x) <= 1 /\ (k.open => x = <<>>) /\ Carries(q, k.buffer \o k.stream, x)

\* A new connection holds nothing.
LEMMA HoldsNew ==
  Holds(NewConnection, <<>>)
<1>1. PICK k : k = NewConnection
  OBVIOUS
<1>2. k \in Connection
  BY <1>1 DEF NewConnection, Connection
<1>3. /\ k.stream = <<>> /\ k.cuts = {} /\ k.open = TRUE /\ k.receiver = "backlog"
      /\ k.buffer = <<>>
  BY <1>1 DEF NewConnection
<1>4. <<>> \in Seq(Nat) /\ <<>> \o <<>> = <<>> /\ Len(<<>>) <= 1
  OBVIOUS
<1>5. Carries(<<>>, k.buffer \o k.stream, <<>>)
  BY <1>3, <1>4, CarriesNothing
<1>6. Holds(k, <<>>)
  BY <1>2, <1>3, <1>4, <1>5 DEF Holds
<1> QED
  BY <1>1, <1>6

\* A connection its receiver has closed holds nothing any more.
LEMMA HoldsDropped ==
  ASSUME NEW k, NEW q, Holds(k, q)
  PROVE  Holds(Dropped(k), <<>>)
<1>1. PICK d : d = Dropped(k)
  OBVIOUS
<1>2. k \in Connection
  BY DEF Holds
<1>3. d \in Connection
  <2>1. PICK e \in Seq(Nat) : e = <<>>
    <3>1. <<>> \in Seq(Nat)
      OBVIOUS
    <3> QED
      BY <3>1, Zenon
  <2>2. PICK a, b, c : /\ a = [k EXCEPT !.receiver = "closed"] /\ b = [a EXCEPT !.stream = e]
                       /\ c = [b EXCEPT !.cuts = {}]
    OBVIOUS
  <2>3. a \in Connection
    BY <1>2, <2>2 DEF Connection
  <2>4. b \in Connection
    BY <2>1, <2>2, <2>3 DEF Connection
  <2>5. c \in Connection
    BY <2>2, <2>4 DEF Connection
  <2>6. [c EXCEPT !.buffer = e] \in Connection
    BY <2>1, <2>5 DEF Connection
  <2>7. d = [c EXCEPT !.buffer = e]
    BY <1>1, <2>1, <2>2 DEF Dropped
  <2> QED
    BY <2>6, <2>7
<1>4. d.stream = <<>> /\ d.cuts = {} /\ d.receiver = "closed" /\ d.buffer = <<>>
  <2>1. DOMAIN k = {"stream", "cuts", "open", "receiver", "buffer"}
    BY <1>2 DEF Connection
  <2>2. d = [k EXCEPT !.receiver = "closed", !.stream = <<>>, !.cuts = {}, !.buffer = <<>>]
    BY <1>1 DEF Dropped
  <2>3. d.stream = <<>>
    BY <2>1, <2>2
  <2>4. d.cuts = {}
    BY <2>1, <2>2
  <2>5. d.receiver = "closed"
    BY <2>1, <2>2
  <2>6. d.buffer = <<>>
    BY <2>1, <2>2
  <2> QED
    BY <2>3, <2>4, <2>5, <2>6
<1>5. <<>> \in Seq(Nat) /\ <<>> \o <<>> = <<>> /\ Len(<<>>) <= 1
  OBVIOUS
<1>6. Carries(<<>>, d.buffer \o d.stream, <<>>)
  BY <1>4, <1>5, CarriesNothing
<1>7. Holds(d, <<>>)
  BY <1>3, <1>4, <1>5, <1>6 DEF Holds
<1> QED
  BY <1>1, <1>7

\* A connection its sender has closed still holds what it held.
LEMMA HoldsFinished ==
  ASSUME NEW k, NEW q, Holds(k, q)
  PROVE  Holds(Finished(k), q)
<1>1. PICK d : d = Finished(k)
  OBVIOUS
<1>2. k \in Connection
  BY DEF Holds
<1>3. d \in Connection
  BY <1>1, <1>2 DEF Finished, Connection
<1>4. /\ d.stream = k.stream /\ d.cuts = k.cuts /\ d.open = FALSE /\ d.receiver = k.receiver
      /\ d.buffer = k.buffer
  BY <1>1, <1>2 DEF Finished, Connection
<1>5. Holds(d, q)
  BY <1>3, <1>4 DEF Holds
<1> QED
  BY <1>1, <1>5

\* The receiver accepts.
LEMMA HoldsAccepted ==
  ASSUME NEW k, NEW q, Holds(k, q), k.receiver = "backlog"
  PROVE  Holds([k EXCEPT !.receiver = "open"], q)
<1>1. PICK d : d = [k EXCEPT !.receiver = "open"]
  OBVIOUS
<1>2. k \in Connection
  BY DEF Holds
<1>3. d \in Connection
  BY <1>1, <1>2 DEF Connection
<1>4. /\ d.stream = k.stream /\ d.cuts = k.cuts /\ d.open = k.open /\ d.receiver = "open"
      /\ d.buffer = k.buffer
  BY <1>1, <1>2 DEF Connection
<1>5. Holds(d, q)
  BY <1>3, <1>4 DEF Holds
<1> QED
  BY <1>1, <1>5

\* What writing does to the fields of a connection.
LEMMA StreamedFields ==
  ASSUME NEW k \in Connection, k.cuts \subseteq 1..Len(k.stream), k.receiver # "closed",
         NEW ws \in Seq(Nat), Len(ws) >= 1, NEW d, d = Streamed(k, ws)
  PROVE  /\ d \in Connection /\ d.cuts \subseteq 1..Len(d.stream)
         /\ d.stream = k.stream \o ws /\ d.open = k.open
         /\ d.receiver = k.receiver /\ d.buffer = k.buffer
<1>1. k.stream \in Seq(Nat) /\ k.cuts \subseteq Nat
  BY DEF Connection
<1>2. PICK s : s = k.stream \o ws
  OBVIOUS
<1>3. s \in Seq(Nat) /\ Len(s) = Len(k.stream) + Len(ws) /\ Len(k.stream) \in Nat /\ Len(ws) \in Nat
  BY <1>1, <1>2, Joined
<1>4. PICK c : c = k.cuts \cup {Len(k.stream) + 1, Len(k.stream) + Len(ws)}
  OBVIOUS
<1>5. c \subseteq 1..Len(s) /\ c \in SUBSET Nat
  BY <1>1, <1>3, <1>4, SMTT(30)
<1>6. d = [k EXCEPT !.stream = s, !.cuts = c]
  BY <1>1, <1>2, <1>4 DEF Streamed, Connection
<1>7. d \in Connection
  BY <1>3, <1>5, <1>6 DEF Connection
<1>8. /\ d.stream = s /\ d.cuts = c /\ d.open = k.open /\ d.receiver = k.receiver
      /\ d.buffer = k.buffer
  BY <1>6 DEF Connection
<1> QED
  BY <1>2, <1>5, <1>7, <1>8

\* A frame is written, or nobody reads it any more.
LEMMA HoldsStreamed ==
  ASSUME NEW M, Framed(M), NEW q \in Seq(M), NEW m \in M, NEW k, Holds(k, q), k.open = TRUE
  PROVE  Holds(Streamed(k, Frame(m)), IF k.receiver = "closed" THEN q ELSE Append(q, m))
<1>1. CASE k.receiver = "closed"
  BY <1>1 DEF Streamed
<1>2. CASE k.receiver # "closed"
  <2>1. k \in Connection /\ k.cuts \subseteq 1..Len(k.stream)
    BY DEF Holds
  <2>2. PICK f : f = Frame(m)
    OBVIOUS
  <2>3. f \in Seq(Nat)
    BY <2>2 DEF Framed
  <2>4. Len(f) >= 1
    <3>1. f = <<Len(FrameOf[m])>> \o FrameOf[m]
      BY <2>2 DEF Frame
    <3>2. f # <<>>
      BY <3>1
    <3> QED
      BY <2>3, <3>2
  <2>5. PICK d : d = Streamed(k, f)
    OBVIOUS
  <2>6. /\ d \in Connection /\ d.cuts \subseteq 1..Len(d.stream)
        /\ d.stream = k.stream \o f /\ d.open = k.open
        /\ d.receiver = k.receiver /\ d.buffer = k.buffer
    BY <1>2, <2>1, <2>3, <2>4, <2>5, StreamedFields
  <2>7. Carries(q, k.buffer \o k.stream, <<>>)
    BY DEF Holds
  <2>8. k.buffer \in Seq(Nat) /\ k.stream \in Seq(Nat)
    BY <2>1 DEF Connection
  <2>9. PICK b, s, w : b = k.buffer /\ s = k.stream /\ w = b \o s
    OBVIOUS
  <2>10. (b \o s) \o f = b \o (s \o f)
    <3>1. b \in Seq(Nat) /\ s \in Seq(Nat) /\ f \in Seq(Nat)
      BY <2>3, <2>8, <2>9
    <3>2. Cat(Cat(b, s), f) = Cat(b, Cat(s, f))
      BY <3>1, CatRegrouped
    <3> QED
      BY <3>2 DEF Cat
  <2>11. Carries(q, w \o f, <<>> \o f)
    BY <2>3, <2>7, <2>9, CarriesOn
  <2>12. <<>> \o f = f /\ f \o <<>> = f /\ <<>> \in Seq(Nat)
    BY <2>3
  <2>13. Carries(q, w \o f, Frame(m) \o <<>>)
    BY <2>2, <2>11, <2>12
  <2>14. Carries(Append(q, m), w \o f, <<>>)
    BY <2>12, <2>13, CarriesLast
  <2>15. d.buffer \o d.stream = w \o f
    BY <2>6, <2>9, <2>10
  <2>16. Carries(Append(q, m), d.buffer \o d.stream, <<>>)
    BY <2>14, <2>15
  <2>17. Len(<<>>) <= 1
    OBVIOUS
  <2>18. Holds(d, Append(q, m))
    BY <1>2, <2>6, <2>12, <2>16, <2>17 DEF Holds
  <2> QED
    BY <1>2, <2>2, <2>5, <2>18
<1> QED
  BY <1>1, <1>2

\* A length is written, and nothing after it.
LEMMA HoldsPart ==
  ASSUME NEW M, Framed(M), NEW q \in Seq(M), NEW y \in Nat, NEW k, Holds(k, q), k.open = TRUE
  PROVE  Holds(Finished(Streamed(k, <<y>>)), q)
<1>1. CASE k.receiver = "closed"
  BY <1>1, HoldsFinished DEF Streamed
<1>2. CASE k.receiver # "closed"
  <2>1. k \in Connection /\ k.cuts \subseteq 1..Len(k.stream)
    BY DEF Holds
  <2>2. PICK f \in Seq(Nat) : f = <<y>> /\ Len(f) = 1
    <3>1. <<y>> \in Seq(Nat) /\ Len(<<y>>) = 1
      OBVIOUS
    <3> QED
      BY <3>1, Zenon
  <2>3. PICK d : d = Streamed(k, f)
    OBVIOUS
  <2>4. /\ d \in Connection /\ d.cuts \subseteq 1..Len(d.stream)
        /\ d.stream = k.stream \o f /\ d.open = k.open
        /\ d.receiver = k.receiver /\ d.buffer = k.buffer
    <3>1. Len(f) >= 1
      BY <2>2
    <3> QED
      BY <1>2, <2>1, <2>3, <3>1, StreamedFields
  <2>5. PICK e : e = Finished(d)
    OBVIOUS
  <2>6. e \in Connection
    BY <2>4, <2>5 DEF Finished, Connection
  <2>7. /\ e.stream = d.stream /\ e.cuts = d.cuts /\ e.open = FALSE /\ e.receiver = d.receiver
        /\ e.buffer = d.buffer
    BY <2>4, <2>5 DEF Finished, Connection
  <2>8. Carries(q, k.buffer \o k.stream, <<>>)
    BY DEF Holds
  <2>9. k.buffer \in Seq(Nat) /\ k.stream \in Seq(Nat)
    BY <2>1 DEF Connection
  <2>10. PICK b, s, w : b = k.buffer /\ s = k.stream /\ w = b \o s
    OBVIOUS
  <2>11. (b \o s) \o f = b \o (s \o f)
    <3>1. b \in Seq(Nat) /\ s \in Seq(Nat) /\ f \in Seq(Nat)
      BY <2>2, <2>9, <2>10
    <3>2. Cat(Cat(b, s), f) = Cat(b, Cat(s, f))
      BY <3>1, CatRegrouped
    <3> QED
      BY <3>2 DEF Cat
  <2>12. Carries(q, w \o f, <<>> \o f)
    BY <2>2, <2>8, <2>10, CarriesOn
  <2>13. <<>> \o f = f
    BY <2>2
  <2>14. e.buffer \o e.stream = w \o f
    BY <2>4, <2>7, <2>10, <2>11
  <2>15. Carries(q, e.buffer \o e.stream, f)
    BY <2>12, <2>13, <2>14
  <2>16. Holds(e, q)
    <3>1. Len(f) <= 1 /\ (e.open => f = <<>>)
      BY <2>2, <2>7
    <3>2. \E x \in Seq(Nat) : /\ Len(x) <= 1 /\ (e.open => x = <<>>)
                              /\ Carries(q, e.buffer \o e.stream, x)
      BY <2>2, <2>15, <3>1, Zenon
    <3>3. e.cuts \subseteq 1..Len(e.stream) /\ e.receiver # "closed"
      BY <1>2, <2>4, <2>7
    <3> QED
      BY <2>6, <3>2, <3>3 DEF Holds
  <2> QED
    BY <2>2, <2>3, <2>5, <2>16
<1> QED
  BY <1>1, <1>2

\* A sequence cut in two.
LEMMA Halves ==
  ASSUME NEW S, NEW q \in Seq(S), NEW c \in 0..Len(q)
  PROVE  /\ SubSeq(q, 1, c) \in Seq(S) /\ SubSeq(q, c + 1, Len(q)) \in Seq(S)
         /\ Len(SubSeq(q, 1, c)) = c /\ Len(SubSeq(q, c + 1, Len(q))) = Len(q) - c
         /\ SubSeq(q, 1, c) \o SubSeq(q, c + 1, Len(q)) = q
         /\ \A k \in 1..c : SubSeq(q, 1, c)[k] = q[k]
<1>1. PICK n \in Nat, m \in Nat : n = Len(q) /\ m = n - c
  <2>1. Len(q) \in Nat /\ Len(q) - c \in Nat
    OBVIOUS
  <2> QED
    BY <2>1
<1>2. PICK a, b : a = SubSeq(q, 0 + 1, 0 + c) /\ b = SubSeq(q, c + 1, c + m)
  OBVIOUS
<1>3. c \in Nat /\ 0 + c <= Len(q) /\ c + m <= Len(q) /\ c + m = n
  BY <1>1
<1>4. a \in Seq(S) /\ Len(a) = c /\ \A k \in 1..c : a[k] = q[0 + k]
  BY <1>2, <1>3, Part
<1>5. b \in Seq(S) /\ Len(b) = m /\ \A k \in 1..m : b[k] = q[c + k]
  BY <1>2, <1>3, Part
<1>6. PICK w : w = a \o b
  OBVIOUS
<1>7. /\ w \in Seq(S) /\ Len(w) = c + m
      /\ \A k \in 1..c : w[k] = a[k]
      /\ \A k \in 1..m : w[c + k] = b[k]
  <2>0. a \in Seq(S) /\ b \in Seq(S)
    BY <1>4, <1>5
  <2>1. /\ a \o b \in Seq(S) /\ Len(a \o b) = Len(a) + Len(b)
        /\ \A k \in 1..Len(a) : (a \o b)[k] = a[k]
        /\ \A k \in 1..Len(b) : (a \o b)[Len(a) + k] = b[k]
    BY <2>0, Joined
  <2> QED
    BY <1>4, <1>5, <1>6, <2>1
<1>8. \A k \in 1..Len(w) : w[k] = q[k]
  <2> SUFFICES ASSUME NEW k \in 1..Len(w) PROVE w[k] = q[k]
    OBVIOUS
  <2>1. CASE k \in 1..c
    <3>1. w[k] = a[k] /\ a[k] = q[0 + k] /\ 0 + k = k
      BY <1>4, <1>7, <2>1
    <3> QED
      BY <3>1
  <2>2. CASE k > c
    <3>1. k - c \in 1..m /\ c + (k - c) = k
      BY <1>1, <1>3, <1>7, <2>2
    <3>2. w[c + (k - c)] = b[k - c] /\ b[k - c] = q[c + (k - c)]
      BY <1>5, <1>7, <3>1
    <3> QED
      BY <3>1, <3>2
  <2> QED
    BY <1>3, <1>7, <2>1, <2>2
<1>9. w = q
  BY <1>1, <1>3, <1>7, <1>8, SeqEqual
<1>10. 0 + 1 = 1 /\ 0 + c = c /\ c + m = Len(q) /\ m = Len(q) - c /\ \A k \in 1..c : 0 + k = k
  BY <1>1, <1>3
<1> QED
  BY <1>2, <1>4, <1>5, <1>6, <1>9, <1>10

\* The receiver reads up to a cut.
LEMMA HoldsRead ==
  ASSUME NEW k, NEW q, Holds(k, q), NEW c \in k.cuts
  PROVE  Holds([k EXCEPT !.stream = SubSeq(@, c + 1, Len(@)),
                         !.cuts = {x - c : x \in {y \in @ : y > c}},
                         !.buffer = @ \o SubSeq(k.stream, 1, c)], q)
<1>1. k \in Connection /\ k.cuts \subseteq 1..Len(k.stream)
  BY DEF Holds
<1>2. PICK s, b : s = k.stream /\ b = k.buffer
  OBVIOUS
<1>3. s \in Seq(Nat) /\ b \in Seq(Nat) /\ k.cuts \subseteq 1..Len(s) /\ c \in 1..Len(s)
  BY <1>1, <1>2 DEF Connection
<1>4. PICK l, r : l = SubSeq(s, 1, c) /\ r = SubSeq(s, c + 1, Len(s))
  OBVIOUS
<1>5. l \in Seq(Nat) /\ r \in Seq(Nat) /\ l \o r = s /\ Len(r) = Len(s) - c
  <2>1. c \in 0..Len(s)
    BY <1>3
  <2> QED
    BY <1>3, <1>4, <2>1, Halves
<1>6. PICK cs, bl : cs = {x - c : x \in {y \in k.cuts : y > c}} /\ bl = b \o l
  OBVIOUS
<1>7. cs \subseteq 1..Len(r) /\ cs \in SUBSET Nat
  <2>1. Len(s) \in Nat
    BY <1>3
  <2>2. ASSUME NEW y \in k.cuts, y > c PROVE y - c \in 1..Len(r)
    <3>1. y \in 1..Len(s)
      BY <1>3
    <3> QED
      BY <1>3, <1>5, <2>1, <2>2, <3>1, SMTT(30)
  <2>3. cs \subseteq 1..Len(r)
    BY <1>6, <2>2
  <2> QED
    BY <2>1, <2>3
<1>8. bl \in Seq(Nat)
  BY <1>3, <1>5, <1>6
<1>9. PICK d : d = [k EXCEPT !.stream = r, !.cuts = cs, !.buffer = bl]
  OBVIOUS
<1>10. d \in Connection
  BY <1>1, <1>5, <1>7, <1>8, <1>9 DEF Connection
<1>11. /\ d.stream = r /\ d.cuts = cs /\ d.open = k.open /\ d.receiver = k.receiver
       /\ d.buffer = bl
  BY <1>1, <1>9 DEF Connection
<1>12. bl \o r = b \o s
  <2>1. Cat(Cat(b, l), r) = Cat(b, Cat(l, r))
    BY <1>3, <1>5, CatRegrouped
  <2> QED
    BY <1>5, <1>6, <2>1 DEF Cat
<1>13. k.receiver # "closed"
  <2>1. Len(<<>>) = 0
    OBVIOUS
  <2>2. k.stream # <<>>
    BY <1>2, <1>3, <2>1
  <2> QED
    BY <2>2 DEF Holds
<1>14. PICK x \in Seq(Nat) : Len(x) <= 1 /\ (k.open => x = <<>>) /\ Carries(q, b \o s, x)
  BY <1>2 DEF Holds
<1>15. Holds(d, q)
  <2>1. \E y \in Seq(Nat) : /\ Len(y) <= 1 /\ (d.open => y = <<>>)
                            /\ Carries(q, d.buffer \o d.stream, y)
    BY <1>11, <1>12, <1>14, Zenon
  <2>2. d.cuts \subseteq 1..Len(d.stream) /\ d.receiver # "closed"
    BY <1>7, <1>11, <1>13
  <2> QED
    BY <1>10, <2>1, <2>2 DEF Holds
<1>16. d = [k EXCEPT !.stream = SubSeq(@, c + 1, Len(@)),
                     !.cuts = {z - c : z \in {y \in @ : y > c}},
                     !.buffer = @ \o SubSeq(k.stream, 1, c)]
  <2>1. DOMAIN k = {"stream", "cuts", "open", "receiver", "buffer"}
    BY <1>1 DEF Connection
  <2> QED
    BY <1>2, <1>4, <1>6, <1>9, <2>1, Zenon
<1> QED
  BY <1>15, <1>16

\* What follows the first part is the same, however a sequence is cut.
LEMMA Cancelled ==
  ASSUME NEW S, NEW a \in Seq(S), NEW b \in Seq(S), NEW c \in Seq(S), Cat(a, b) = Cat(a, c)
  PROVE  b = c
<1>1. Cat(a, b) = a \o b /\ Cat(a, c) = a \o c
  BY DEF Cat
<1>2. SubSeq(a \o b, Len(a) + 1, Len(a \o b)) = b
  BY Parted
<1>3. SubSeq(a \o c, Len(a) + 1, Len(a \o c)) = c
  BY Parted
<1> QED
  BY <1>1, <1>2, <1>3

\* A whole frame in the buffer is that of the first message.
LEMMA HoldsDecoded ==
  ASSUME NEW q \in Seq(Addressed), NEW k, Holds(k, q), k.buffer # <<>>,
         k.buffer[1] # 0, Len(k.buffer) - 1 >= k.buffer[1]
  PROVE  /\ q # <<>> /\ SubSeq(k.buffer, 2, 1 + k.buffer[1]) = FrameOf[q[1]]
         /\ Holds([k EXCEPT !.buffer = SubSeq(@, 2 + k.buffer[1], Len(@))], Tail(q))
<1>1. k \in Connection /\ k.cuts \subseteq 1..Len(k.stream) /\ k.receiver # "closed"
  BY DEF Holds
<1>2. PICK b, s, ws : b = k.buffer /\ s = k.stream /\ ws = b \o s
  OBVIOUS
<1>3. b \in Seq(Nat) /\ s \in Seq(Nat) /\ b # <<>>
  BY <1>1, <1>2 DEF Connection
<1>4. PICK n : n = b[1]
  OBVIOUS
<1>5. n \in Nat /\ n # 0 /\ 1 + n <= Len(b) /\ Len(b) \in Nat
  BY <1>2, <1>3, <1>4
<1>6. /\ ws \in Seq(Nat) /\ Len(ws) = Len(b) + Len(s) /\ Len(s) \in Nat
      /\ \A i \in 1..Len(b) : ws[i] = b[i]
  <2>1. /\ b \o s \in Seq(Nat) /\ Len(b \o s) = Len(b) + Len(s) /\ Len(s) \in Nat
        /\ \A i \in 1..Len(b) : (b \o s)[i] = b[i]
    BY <1>3, Joined
  <2> QED
    BY <1>2, <2>1
<1>7. PICK x \in Seq(Nat) : Len(x) <= 1 /\ (k.open => x = <<>>) /\ Carries(q, ws, x)
  BY <1>2 DEF Holds
<1>8. q # <<>>
  <2> SUFFICES ASSUME q = <<>> PROVE FALSE
    OBVIOUS
  <2>1. ws = x
    BY <1>7, CarriesNothing
  <2> QED
    BY <1>5, <1>6, <1>7, <2>1
<1>9. PICK m \in Addressed : m = q[1]
  <2>1. q[1] \in Addressed
    BY <1>8
  <2> QED
    BY <2>1
<1>10. PICK more \in Seq(Nat) : ws = Frame(m) \o more /\ Carries(Tail(q), more, x)
  BY <1>7, <1>8, <1>9, FramesKnown, CarriesFirst
<1>11. PICK g, f : g = FrameOf[m] /\ f = Frame(m)
  OBVIOUS
<1>12. g \in Seq(Nat) /\ f = <<Len(g)>> \o g
  BY <1>9, <1>11, FramesKnown DEF Frame
<1>13. /\ f \in Seq(Nat) /\ Len(f) = 1 + Len(g) /\ f # <<>> /\ f[1] = Len(g) /\ Len(g) \in Nat
       /\ \A i \in 1..Len(g) : f[1 + i] = g[i]
  BY <1>12, Headed
<1>14. \A i \in 1..Len(f) : ws[i] = f[i]
  <2>1. ws = f \o more
    BY <1>10, <1>11
  <2> QED
    BY <1>10, <1>13, <2>1, Joined
<1>15. n = Len(g)
  <2>1. 1 \in 1..Len(f) /\ 1 \in 1..Len(b)
    BY <1>5, <1>13
  <2> QED
    BY <1>4, <1>6, <1>13, <1>14, <2>1
<1>16. PICK c \in 0..Len(b) : c = 1 + n
  BY <1>5
<1>17. PICK l, r : l = SubSeq(b, 1, c) /\ r = SubSeq(b, c + 1, Len(b))
  OBVIOUS
<1>18. /\ l \in Seq(Nat) /\ r \in Seq(Nat) /\ Len(l) = c /\ l \o r = b
       /\ \A i \in 1..c : l[i] = b[i]
  BY <1>3, <1>17, Halves
<1>19. l = f
  <2>1. Len(f) = c
    BY <1>13, <1>15, <1>16
  <2>2. \A i \in 1..c : i \in 1..Len(b)
    BY <1>16, <1>5
  <2>3. \A i \in 1..Len(l) : l[i] = f[i]
    BY <1>6, <1>14, <1>18, <2>1, <2>2
  <2> QED
    BY <1>13, <1>18, <2>1, <2>3, SeqEqual
<1>20. SubSeq(b, 2, 1 + n) = g
  <2>1. PICK y : y = SubSeq(b, 1 + 1, 1 + n)
    OBVIOUS
  <2>2. y \in Seq(Nat) /\ Len(y) = n /\ \A i \in 1..n : y[i] = b[1 + i]
    BY <1>3, <1>5, <2>1, Part, SMTT(60)
  <2>3. \A i \in 1..n : 1 + i \in 1..c
    BY <1>5, <1>16
  <2>4. \A i \in 1..Len(y) : y[i] = g[i]
    BY <1>13, <1>15, <1>18, <1>19, <2>2, <2>3
  <2>5. y = g
    BY <1>12, <1>15, <2>2, <2>4, SeqEqual
  <2> QED
    BY <2>1, <2>5
<1>21. r \o s = more
  <2>1. Cat(Cat(f, r), s) = Cat(f, Cat(r, s))
    BY <1>3, <1>13, <1>18, CatRegrouped
  <2>2. Cat(Cat(f, r), s) = ws
    BY <1>2, <1>18, <1>19 DEF Cat
  <2>3. ws = Cat(f, more)
    BY <1>10, <1>11 DEF Cat
  <2>4. Cat(r, s) \in Seq(Nat)
    BY <1>3, <1>18 DEF Cat
  <2>5. PICK u \in Seq(Nat) : u = Cat(r, s)
    BY <2>4
  <2>6. Cat(f, u) = Cat(f, more)
    BY <2>1, <2>2, <2>3, <2>5
  <2>7. f \in Seq(Nat)
    BY <1>13
  <2>8. u = more
    BY <2>6, <2>7, Cancelled
  <2> QED
    BY <2>5, <2>8 DEF Cat
<1>22. PICK d : d = [k EXCEPT !.buffer = r]
  OBVIOUS
<1>23. d \in Connection
  BY <1>1, <1>18, <1>22 DEF Connection
<1>24. /\ d.stream = s /\ d.cuts = k.cuts /\ d.open = k.open /\ d.receiver = k.receiver
       /\ d.buffer = r
  BY <1>1, <1>2, <1>22 DEF Connection
<1>25. Holds(d, Tail(q))
  <2>1. \E y \in Seq(Nat) : /\ Len(y) <= 1 /\ (d.open => y = <<>>)
                            /\ Carries(Tail(q), d.buffer \o d.stream, y)
    BY <1>7, <1>10, <1>21, <1>24, Zenon
  <2>2. d.cuts \subseteq 1..Len(d.stream) /\ d.receiver # "closed"
    BY <1>1, <1>2, <1>24
  <2> QED
    BY <1>23, <2>1, <2>2 DEF Holds
<1>26. r = SubSeq(b, 2 + n, Len(b))
  <2>1. c + 1 = 2 + n
    BY <1>5, <1>16
  <2> QED
    BY <1>17, <2>1
<1>27. d = [k EXCEPT !.buffer = SubSeq(@, 2 + n, Len(@))]
  <2>1. DOMAIN k = {"stream", "cuts", "open", "receiver", "buffer"}
    BY <1>1 DEF Connection
  <2> QED
    BY <1>2, <1>22, <1>26, <2>1, Zenon
<1> QED
  BY <1>2, <1>4, <1>8, <1>9, <1>11, <1>20, <1>25, <1>27

-----------------------------------------------------------------------------
(* Connections: what the steps do to them, seen as if all existed before.  *)

View(f, c, n) == IF n \in DOMAIN f[c] THEN f[c][n] ELSE NewConnection

Connections == [Channel -> Seq(Connection)]

\* g is f but for connection n of c, which is k.
Sets(f, g, c, p, n, k) == g = [f EXCEPT ![c] = [p EXCEPT ![n] = k]]

Becomes(f, g, c, n, k) ==
  /\ g \in Connections
  /\ n \in Nat \ {0} /\ n \in DOMAIN g[c] /\ View(g, c, n) = k
  /\ \A d \in Channel : DOMAIN f[d] \subseteq DOMAIN g[d]
  /\ \A d \in Channel, x \in Nat : d # c \/ x # n => View(g, d, x) = View(f, d, x)

\* A new connection is open and waits to be accepted.
LEMMA NewConnectionFields ==
  /\ NewConnection \in Connection
  /\ NewConnection.open = TRUE /\ NewConnection.receiver = "backlog"
<1>1. PICK k : k = NewConnection
  OBVIOUS
<1>2. k \in Connection /\ k.open = TRUE /\ k.receiver = "backlog"
  BY <1>1 DEF NewConnection, Connection
<1> QED
  BY <1>1, <1>2

\* One connection that exists is changed.
LEMMA ViewSet ==
  ASSUME NEW f \in Connections, NEW c \in Channel, NEW n \in DOMAIN f[c], NEW k \in Connection,
         NEW g, Sets(f, g, c, f[c], n, k)
  PROVE  Becomes(f, g, c, n, k)
<1>1. f[c] \in Seq(Connection)
  BY DEF Connections
<1>2. PICK q : q = [f[c] EXCEPT ![n] = k]
  OBVIOUS
<1>3. q \in Seq(Connection) /\ DOMAIN q = DOMAIN f[c] /\ q[n] = k
      /\ \A x \in DOMAIN f[c] : x # n => q[x] = f[c][x]
  BY <1>1, <1>2
<1>4. g \in Connections /\ g[c] = q /\ \A d \in Channel \ {c} : g[d] = f[d]
  BY <1>2, <1>3 DEF Connections, Sets
<1>5. n \in Nat \ {0}
  BY <1>1
<1>6. \A d \in Channel : DOMAIN g[d] = DOMAIN f[d]
  BY <1>3, <1>4
<1>7. View(g, c, n) = k
  BY <1>3, <1>4, <1>6 DEF View
<1>8. ASSUME NEW d \in Channel, NEW x \in Nat, d # c \/ x # n
      PROVE  View(g, d, x) = View(f, d, x)
  <2>1. CASE d = c
    BY <1>3, <1>4, <1>6, <1>8, <2>1 DEF View
  <2>2. CASE d # c
    BY <1>4, <2>2 DEF View
  <2> QED
    BY <2>1, <2>2
<1> QED
  BY <1>4, <1>5, <1>6, <1>7, <1>8 DEF Becomes

\* The connection of number l is changed, or a new one if l is 0.
LEMMA ViewConnected ==
  ASSUME NEW f \in Connections, NEW c \in Channel, NEW l \in Nat, l = 0 \/ l \in DOMAIN f[c],
         NEW p, NEW n, l # 0 => p = f[c] /\ n = l,
         l = 0 => p = Append(f[c], NewConnection) /\ n = Len(f[c]) + 1,
         NEW k \in Connection, NEW g, Sets(f, g, c, p, n, k)
  PROVE  Becomes(f, g, c, n, k) /\ p[n] = View(f, c, n)
<1>1. f[c] \in Seq(Connection)
  BY DEF Connections
<1>2. CASE l # 0
  <2>1. p = f[c] /\ n = l /\ n \in DOMAIN f[c]
    BY <1>2
  <2>2. Sets(f, g, c, f[c], n, k) /\ n \in DOMAIN f[c]
    BY <2>1
  <2>3. Becomes(f, g, c, n, k)
    BY <2>2, ViewSet
  <2>4. p[n] = View(f, c, n)
    BY <2>1 DEF View
  <2> QED
    BY <2>3, <2>4
<1>3. CASE l = 0
  <2>1. PICK w \in Nat : w = Len(f[c])
    BY <1>1
  <2>2. p = Append(f[c], NewConnection) /\ n = w + 1
    BY <1>3, <2>1
  <2>3. /\ p \in Seq(Connection) /\ Len(p) = n /\ p[n] = NewConnection /\ n \notin DOMAIN f[c]
        /\ \A x \in 1..w : p[x] = f[c][x]
    BY <1>1, <2>1, <2>2, NewConnectionFields
  <2>4. PICK q : q = [p EXCEPT ![n] = k]
    OBVIOUS
  <2>5. DOMAIN p = 1..n /\ DOMAIN f[c] = 1..w /\ n \in 1..n /\ n \in Nat \ {0}
    BY <1>1, <2>1, <2>2, <2>3
  <2>6. /\ q \in Seq(Connection) /\ DOMAIN q = 1..n /\ q[n] = k
        /\ \A x \in 1..n : x # n => q[x] = p[x]
    <3>1. q = [x \in 1..n |-> IF x = n THEN k ELSE p[x]]
      BY <2>4, <2>5
    <3>2. \A x \in 1..n : p[x] \in Connection
      BY <2>3, <2>5
    <3>3. \A x \in 1..n : (IF x = n THEN k ELSE p[x]) \in Connection
      BY <3>2
    <3>4. q \in [1..n -> Connection] /\ n \in Nat
      BY <2>5, <3>1, <3>3
    <3>5. q \in Seq(Connection)
      BY <3>4
    <3> QED
      BY <2>5, <3>1, <3>5
  <2>7. g \in Connections /\ g[c] = q /\ \A d \in Channel \ {c} : g[d] = f[d]
    BY <2>4, <2>6 DEF Connections, Sets
  <2>8. \A d \in Channel : DOMAIN f[d] \subseteq DOMAIN g[d]
    BY <2>2, <2>5, <2>6, <2>7
  <2>9. View(g, c, n) = k /\ View(f, c, n) = NewConnection
    BY <2>3, <2>5, <2>6, <2>7 DEF View
  <2>10. ASSUME NEW d \in Channel, NEW x \in Nat, d # c \/ x # n
         PROVE  View(g, d, x) = View(f, d, x)
    <3>1. CASE d # c
      BY <2>7, <3>1 DEF View
    <3>2. CASE d = c
      <4>1. x \in DOMAIN q <=> x \in DOMAIN f[c]
        BY <2>2, <2>5, <2>6, <2>10, <3>2
      <4>2. x \in DOMAIN f[c] => q[x] = f[c][x]
        BY <2>2, <2>3, <2>5, <2>6, <2>10, <3>2
      <4> QED
        BY <2>7, <3>2, <4>1, <4>2 DEF View
    <3> QED
      BY <3>1, <3>2
  <2> QED
    <3>1. p[n] = View(f, c, n)
      BY <2>3, <2>9
    <3>2. n \in DOMAIN g[c]
      BY <2>5, <2>6, <2>7
    <3> QED
      BY <2>5, <2>7, <2>8, <2>9, <2>10, <3>1, <3>2 DEF Becomes
<1> QED
  BY <1>2, <1>3

\* All connections may be changed.
LEMMA ViewMapped ==
  ASSUME NEW f \in Connections, NEW g, g = [c \in Channel |-> g[c]],
         \A c \in Channel : g[c] = [n \in DOMAIN f[c] |-> g[c][n]],
         \A c \in Channel : \A n \in DOMAIN f[c] : g[c][n] \in Connection
  PROVE  /\ g \in Connections
         /\ \A c \in Channel : DOMAIN g[c] = DOMAIN f[c]
<1>1. ASSUME NEW c \in Channel PROVE g[c] \in Seq(Connection) /\ DOMAIN g[c] = DOMAIN f[c]
  <2>1. f[c] \in Seq(Connection)
    BY DEF Connections
  <2>2. PICK w \in Nat : DOMAIN f[c] = 1..w
    BY <2>1
  <2>3. PICK q : q = g[c]
    OBVIOUS
  <2>4. q = [n \in 1..w |-> q[n]] /\ \A n \in 1..w : q[n] \in Connection
    BY <2>2, <2>3
  <2>5. q \in Seq(Connection)
    BY <2>4
  <2> QED
    BY <2>2, <2>3, <2>4, <2>5
<1> QED
  BY <1>1 DEF Connections

-----------------------------------------------------------------------------
(* The invariant.                                                          *)

SentUpTo(s) == UNION {Range(SubSeq(Script[i], 1, s[i])) : i \in Node}

SentSoFar == SentUpTo(sent)

OnNodes(f) == f = [i \in Node |-> f[i]]

Types ==
  /\ sent \in [Node -> Nat] /\ \A i \in Node : sent[i] <= Len(Script[i])
  /\ OnNodes(outbound) /\ OnNodes(batch) /\ OnNodes(decoded) /\ OnNodes(inbound) /\ OnNodes(handed)
  /\ crashed \in [Node -> BOOLEAN] /\ running \in [Node -> BOOLEAN]
  /\ at \in [Node -> {"top", "sending", "serving", "ended"}]
  /\ ready \in [Node -> SUBSET (Node \X Nat)] /\ OnNodes(serving)
  /\ link \in [Node -> [Node -> Nat]]
  /\ conns \in Connections
  /\ failed \subseteq Channel

\* The io thread has a batch only while it sends, serves one of the accepted
\* connections only while it receives, and it is no longer among the ready.
Served ==
  /\ \A i \in Node : batch[i] # <<>> => at[i] = "sending"
  /\ \A i \in Node : decoded[i] # <<>> => serving[i] # <<>>
  /\ \A i \in Node : \A k \in ready[i] : View(conns, <<k[1], i>>, k[2]).receiver = "open"
  /\ \A i \in Node : serving[i] # <<>> =>
       /\ at[i] = "serving" /\ serving[i] \in (Node \X Nat) \ ready[i]
       /\ View(conns, <<serving[i][1], i>>, serving[i][2]).receiver = "open"

\* The connection a node writes to exists and is open.
Linked ==
  \A i, j \in Node : link[i][j] # 0 =>
    link[i][j] \in DOMAIN conns[<<i, j>>] /\ View(conns, <<i, j>>, link[i][j]).open

\* H holds what the queues and the connections hold.
Queued(H) ==
  \A i \in Node :
    /\ H[QueueBox("outbound", i)] = outbound[i] /\ H[QueueBox("batch", i)] = batch[i]
    /\ H[QueueBox("decoded", i)] = decoded[i] /\ H[QueueBox("inbound", i)] = inbound[i]
    /\ H[QueueBox("handed", i)] = handed[i]

Carried(H) ==
  \A c \in Channel, n \in Nat \ {0} : Holds(View(conns, c, n), H[ConnBox(c, n)])

\* How far the messages in a box have to go.
Stage(b) ==
  CASE b[1] = "outbound" -> 5 [] b[1] = "batch" -> 4 [] b[1] = "conn" -> 3
    [] b[1] = "decoded" -> 2 [] b[1] = "inbound" -> 1 [] b[1] = "handed" -> 0

\* Message m may be in box b.
Routed(b, m) ==
  \/ b[1] \in {"outbound", "batch"} /\ b = QueueBox(b[1], m.from)
  \/ /\ b[1] = "conn" /\ m.from # m.to
     /\ \E n \in Nat \ {0} : b = ConnBox(<<m.from, m.to>>, n)
  \/ b[1] = "decoded" /\ m.from # m.to /\ b = QueueBox("decoded", m.to)
  \/ b[1] \in {"inbound", "handed"} /\ b = QueueBox(b[1], m.to)

\* x was sent before y, on a channel in L.
Precedes(x, y, L) ==
  /\ x.from = y.from /\ x.to = y.to /\ <<x.from, x.to>> \in L
  /\ \E k, l \in DOMAIN Script[x.from] :
       k < l /\ x = Script[x.from][k] /\ y = Script[x.from][l]

\* Whatever precedes y is further on or before it in the same box.
Ordered(H, L) ==
  \A a \in Box : \A k \in 1..Len(H[a]) :
    /\ Routed(a, H[a][k])
    /\ \A b \in Box : \A l \in 1..Len(H[b]) :
         Precedes(H[a][k], H[b][l], L) => Stage(a) < Stage(b) \/ (a = b /\ k < l)

\* The channels that had one connection at most.
Lone == {c \in Channel : Len(conns[c]) <= 1}

Flow == \E H : Once(H, SentSoFar) /\ Queued(H) /\ Carried(H) /\ Ordered(H, Lone)

TInv == Types /\ Served /\ Linked /\ Flow

\* A script is a sequence.
LEMMA ScriptTypes ==
  \A i \in Node : Script[i] \in Seq(Range(Script[i])) /\ Len(Script[i]) \in Nat
BY ScriptAssumption

\* What a node has sent, place by place.
LEMMA SentPlaces ==
  ASSUME NEW s \in [Node -> Nat], \A i \in Node : s[i] <= Len(Script[i])
  PROVE  /\ SentUpTo(s) \subseteq Message
         /\ \A m : m \in SentUpTo(s) <=> \E i \in Node : \E k \in 1..s[i] : m = Script[i][k]
<1> DEFINE S == SentUpTo(s)
<1>1. ASSUME NEW i \in Node, NEW m
      PROVE  m \in Range(SubSeq(Script[i], 1, s[i])) <=> \E k \in 1..s[i] : m = Script[i][k]
  <2>1. PICK q, R : q = Script[i] /\ R = Range(Script[i])
    OBVIOUS
  <2>2. q \in Seq(R) /\ s[i] \in 0..Len(q)
    BY <2>1, ScriptTypes
  <2>3. PICK p : p = SubSeq(q, 1, s[i])
    OBVIOUS
  <2>4. p \in Seq(R) /\ Len(p) = s[i] /\ \A k \in 1..s[i] : p[k] = q[k]
    BY <2>2, <2>3, Halves
  <2>5. DOMAIN p = 1..s[i]
    BY <2>4
  <2>6. m \in Range(p) <=> \E k \in 1..s[i] : m = p[k]
    BY <2>5 DEF Range
  <2> QED
    BY <2>1, <2>3, <2>4, <2>6
<1>2. \A m : m \in S <=> \E i \in Node : \E k \in 1..s[i] : m = Script[i][k]
  <2>1. \A m : m \in S <=> \E i \in Node : m \in Range(SubSeq(Script[i], 1, s[i]))
    BY DEF SentUpTo
  <2>2. ASSUME NEW m PROVE m \in S <=> \E i \in Node : \E k \in 1..s[i] : m = Script[i][k]
    <3>1. \A i \in Node : m \in Range(SubSeq(Script[i], 1, s[i])) <=> \E k \in 1..s[i] : m = Script[i][k]
      BY <1>1
    <3> QED
      BY <2>1, <3>1
  <2> QED
    BY <2>2
<1>3. ASSUME NEW m \in S PROVE m \in Message
  <2>1. PICK i \in Node : \E k \in 1..s[i] : m = Script[i][k]
    BY <1>2
  <2>2. PICK k \in 1..s[i] : m = Script[i][k]
    BY <2>1
  <2>3. k \in 1..Len(Script[i])
    BY ScriptTypes
  <2>4. m \in Range(Script[i])
    BY <2>2, <2>3, ScriptTypes DEF Range
  <2> QED
    BY <2>4 DEF Message
<1> QED
  BY <1>2, <1>3

\* Init: nothing is in any box.
LEMMA InitInv ==
  Init => TInv
<1> SUFFICES ASSUME Init PROVE TInv
  OBVIOUS
<1>1. Types
  <2>1. conns \in Connections
    BY DEF Init, Connections
  <2> QED
    BY <2>1, ScriptTypes DEF Init, Types, OnNodes
<1>2. Served
  BY DEF Init, Served
<1>3. Linked
  BY DEF Init, Linked
<1>4. Flow
  <2>1. PICK H : H = [b \in Box |-> <<>>]
    OBVIOUS
  <2>2. Once(H, SentSoFar)
    <3>1. \A b \in Box : H[b] = <<>> /\ <<>> \in Seq(Proper(b, SentSoFar)) /\ Len(<<>>) = 0
      BY <2>1
    <3> QED
      BY <2>1, <3>1 DEF Once, OnBoxes
  <2>3. Queued(H)
    <3>1. \A q \in Queue, i \in Node : H[QueueBox(q, i)] = <<>>
      BY <2>1, Boxes
    <3> QED
      BY <3>1 DEF Init, Queued, Queue
  <2>4. Carried(H)
    <3> SUFFICES ASSUME NEW c \in Channel, NEW n \in Nat \ {0}
                 PROVE  Holds(View(conns, c, n), H[ConnBox(c, n)])
      BY DEF Carried
    <3>1. H[ConnBox(c, n)] = <<>>
      BY <2>1, Boxes
    <3>2. n \notin DOMAIN conns[c]
      BY DEF Init
    <3> QED
      BY <3>1, <3>2, HoldsNew DEF View
  <2>5. Ordered(H, Lone)
    <3>1. \A b \in Box : H[b] = <<>> /\ 1..Len(<<>>) = {}
      BY <2>1
    <3> QED
      BY <3>1 DEF Ordered
  <2> QED
    BY <2>2, <2>3, <2>4, <2>5 DEF Flow
<1> QED
  BY <1>1, <1>2, <1>3, <1>4 DEF TInv

\* What is done to boxes, as what there is afterwards.
LEMMA EmptiedTo ==
  ASSUME NEW S, NEW H, Once(H, S), NEW X
  PROVE  \E G : Once(G, S) /\ \A z \in Box : G[z] = IF z \in X THEN <<>> ELSE H[z]
<1>1. PICK G : G = [z \in Box |-> IF z \in X THEN <<>> ELSE H[z]]
  OBVIOUS
<1>2. OnBoxes(G) /\ \A z \in Box : G[z] = IF z \in X THEN <<>> ELSE H[z]
  BY <1>1 DEF OnBoxes
<1>3. Once(G, S)
  BY <1>2, Emptied
<1> QED
  BY <1>2, <1>3

\* G is H but for p, which went from the front of a, where r is left, to the end of b.
Moves(G, H, S, a, b, p, r) ==
  /\ Once(G, S) /\ G[a] = r /\ G[b] = H[b] \o p
  /\ \A z \in Box \ {a, b} : G[z] = H[z]

\* The front of a box can be moved to the end of another.
LEMMA MovedTo ==
  ASSUME NEW S, NEW H, Once(H, S), NEW a \in Box, NEW b \in Box, a # b,
         NEW p \in Seq(Proper(b, S)), NEW r \in Seq(Proper(a, S)), H[a] = p \o r
  PROVE  \E G : Moves(G, H, S, a, b, p, r)
<1>1. PICK G : G = [z \in Box |-> IF z = a THEN r ELSE IF z = b THEN H[b] \o p ELSE H[z]]
  OBVIOUS
<1>2. /\ OnBoxes(G) /\ G[a] = r /\ G[b] = H[b] \o p
      /\ \A z \in Box \ {a, b} : G[z] = H[z]
  BY <1>1 DEF OnBoxes
<1>3. Once(G, S)
  BY <1>2, Moved, ZenonT(60)
<1> QED
  BY <1>2, <1>3 DEF Moves

\* G is H but for box a, of which r is left.
Shortens(G, H, S, a, r) ==
  Once(G, S) /\ G[a] = r /\ \A z \in Box \ {a} : G[z] = H[z]

\* The front of a box can be taken away.
LEMMA ShortenedTo ==
  ASSUME NEW S, NEW H, Once(H, S), NEW a \in Box,
         NEW p \in Seq(S), NEW r \in Seq(Proper(a, S)), H[a] = p \o r
  PROVE  \E G : Shortens(G, H, S, a, r)
<1>1. PICK G : G = [z \in Box |-> IF z = a THEN r ELSE H[z]]
  OBVIOUS
<1>2. OnBoxes(G) /\ G[a] = r /\ \A z \in Box \ {a} : G[z] = H[z]
  BY <1>1 DEF OnBoxes
<1>3. Once(G, S)
  BY <1>2, Shortened
<1> QED
  BY <1>2, <1>3 DEF Shortens

\* To append an element is to append a sequence of it.
LEMMA Appended ==
  ASSUME NEW X, NEW q \in Seq(X), NEW m \in X
  PROVE  Append(q, m) = q \o <<m>>
OBVIOUS

\* The first element and the others.
LEMMA HeadTail ==
  ASSUME NEW X, NEW q \in Seq(X), q # <<>>
  PROVE  /\ Head(q) \in X /\ Head(q) = q[1] /\ Tail(q) \in Seq(X) /\ <<Head(q)>> \in Seq(X)
         /\ q = <<Head(q)>> \o Tail(q)
OBVIOUS

-----------------------------------------------------------------------------
(* In what order the messages of a channel are, as long as one connection  *)
(* is all it had.                                                          *)

\* Messages p of box a overtake nothing in going to the end of box b.
Onward(H, L, a, b, p) ==
  \A z \in Box : \A k \in 1..Len(H[z]), l \in 1..Len(p) :
    Precedes(H[z][k], p[l], L) /\ Stage(z) < Stage(a) => z = b \/ Stage(z) < Stage(b)

\* Boxes are in one of six stages.
LEMMA Stages ==
  ASSUME NEW b \in Box
  PROVE  /\ Stage(b) \in 0..5
         /\ b[1] \in Queue \cup {"conn"}
         /\ b[1] = "outbound" <=> Stage(b) = 5
         /\ b[1] = "batch" <=> Stage(b) = 4
         /\ b[1] = "conn" <=> Stage(b) = 3
         /\ b[1] = "decoded" <=> Stage(b) = 2
         /\ b[1] = "inbound" <=> Stage(b) = 1
         /\ b[1] = "handed" <=> Stage(b) = 0
<1>1. b[1] \in {"outbound", "batch", "decoded", "inbound", "handed", "conn"}
  BY DEF Box, Queue
<1> QED
  BY <1>1 DEF Stage, Queue

\* With fewer channels to look at, less is asked.
LEMMA OrderedLess ==
  ASSUME NEW H, NEW L, Ordered(H, L), NEW M, M \subseteq L
  PROVE  Ordered(H, M)
<1>1. \A x, y : Precedes(x, y, M) => Precedes(x, y, L)
  BY DEF Precedes
<1> QED
  BY <1>1 DEF Ordered

\* Each box of G is what is left of that box of H without d[z] messages.
Ends(G, H, d) ==
  \A z \in Box : \A k \in 1..Len(G[z]) :
    /\ k \in Nat /\ d[z] \in Nat
    /\ d[z] + k \in 1..Len(H[z]) /\ G[z][k] = H[z][d[z] + k]

\* Nothing overtakes when only ends of boxes are left.
LEMMA OrderedPart ==
  ASSUME NEW H, NEW G, NEW L, Ordered(H, L), NEW d, Ends(G, H, d)
  PROVE  Ordered(G, L)
<1> SUFFICES ASSUME NEW a \in Box, NEW k \in 1..Len(G[a])
             PROVE  /\ Routed(a, G[a][k])
                    /\ \A b \in Box : \A l \in 1..Len(G[b]) :
                         Precedes(G[a][k], G[b][l], L) => Stage(a) < Stage(b) \/ (a = b /\ k < l)
  BY DEF Ordered
<1>1. PICK w : w = d[a] + k /\ w \in 1..Len(H[a]) /\ G[a][k] = H[a][w] /\ k \in Nat /\ d[a] \in Nat
  BY DEF Ends
<1>2. Routed(a, G[a][k])
  BY <1>1 DEF Ordered
<1>3. ASSUME NEW b \in Box, NEW l \in 1..Len(G[b]), Precedes(G[a][k], G[b][l], L)
      PROVE  Stage(a) < Stage(b) \/ (a = b /\ k < l)
  <2>1. PICK v : v = d[b] + l /\ v \in 1..Len(H[b]) /\ G[b][l] = H[b][v] /\ l \in Nat
    BY DEF Ends
  <2>2. Stage(a) < Stage(b) \/ (a = b /\ w < v)
    BY <1>1, <1>3, <2>1 DEF Ordered
  <2>3. a = b /\ w < v => k < l
    <3> SUFFICES ASSUME a = b, w < v PROVE k < l
      OBVIOUS
    <3>1. k \in Nat /\ l \in Nat /\ d[a] \in Nat /\ w = d[a] + k /\ v = d[a] + l
      BY <1>1, <2>1
    <3> QED
      BY <3>1
  <2> QED
    BY <2>2, <2>3
<1> QED
  BY <1>2, <1>3

\* Nothing overtakes when boxes are emptied.
LEMMA OrderedEmptied ==
  ASSUME NEW S, NEW H, Once(H, S), NEW L, Ordered(H, L), NEW G,
         \A z \in Box : G[z] = H[z] \/ G[z] = <<>>
  PROVE  Ordered(G, L)
<1>1. PICK d : d = [z \in Box |-> 0]
  OBVIOUS
<1>2. ASSUME NEW z \in Box, NEW k \in 1..Len(G[z])
      PROVE  /\ k \in Nat /\ d[z] \in Nat
             /\ d[z] + k \in 1..Len(H[z]) /\ G[z][k] = H[z][d[z] + k]
  <2>1. G[z] = H[z]
    BY <1>2
  <2>2. k \in Nat /\ d[z] = 0
    BY <1>1, <2>1 DEF Once
  <2> QED
    BY <2>1, <2>2
<1>3. Ends(G, H, d)
  BY <1>2 DEF Ends
<1> QED
  BY <1>3, OrderedPart

\* Nothing overtakes when the front of a box is taken away.
LEMMA OrderedShortens ==
  ASSUME NEW S, NEW H, Once(H, S), NEW L, Ordered(H, L), NEW a \in Box,
         NEW p \in Seq(S), NEW r \in Seq(Proper(a, S)), H[a] = p \o r,
         NEW G, Shortens(G, H, S, a, r)
  PROVE  Ordered(G, L)
<1>1. /\ \A z \in Box : H[z] \in Seq(Proper(z, S))
      /\ G[a] = r /\ \A z \in Box \ {a} : G[z] = H[z]
  BY DEF Once, Shortens
<1>2. PICK u \in Nat, v \in Nat : u = Len(p) /\ v = Len(r)
  OBVIOUS
<1>3. Len(H[a]) = u + v /\ \A k \in 1..v : H[a][u + k] = r[k]
  <2>1. p \in Seq(S) /\ r \in Seq(S)
    <3>1. Proper(a, S) \subseteq S
      BY DEF Proper
    <3> QED
      BY <3>1
  <2>2. /\ Len(p \o r) = Len(p) + Len(r)
        /\ \A k \in 1..Len(r) : (p \o r)[Len(p) + k] = r[k]
    BY <2>1, Joined
  <2> QED
    BY <1>2, <2>2
<1>4. PICK d : d = [z \in Box |-> IF z = a THEN u ELSE 0]
  OBVIOUS
<1>5. ASSUME NEW z \in Box, NEW k \in 1..Len(G[z])
      PROVE  /\ k \in Nat /\ d[z] \in Nat
             /\ d[z] + k \in 1..Len(H[z]) /\ G[z][k] = H[z][d[z] + k]
  <2>1. CASE z = a
    <3>1. k \in 1..v /\ d[z] = u /\ u + k \in 1..u + v
      BY <1>1, <1>2, <1>4, <2>1
    <3>2. u + k \in 1..Len(H[z]) /\ H[z][u + k] = r[k] /\ G[z][k] = r[k]
      BY <1>1, <1>3, <2>1, <3>1
    <3> QED
      BY <1>2, <3>1, <3>2
  <2>2. CASE z # a
    <3>1. G[z] = H[z] /\ d[z] = 0 /\ k \in Nat
      BY <1>1, <1>4, <2>2
    <3> QED
      BY <3>1
  <2> QED
    BY <2>1, <2>2
<1>6. Ends(G, H, d)
  BY <1>5 DEF Ends
<1> QED
  BY <1>6, OrderedPart

\* Nothing is overtaken by messages that go on to the end of the next box.
LEMMA OrderedMoves ==
  ASSUME NEW S, NEW H, Once(H, S), NEW L, Ordered(H, L),
         NEW a \in Box, NEW b \in Box, a # b,
         NEW p \in Seq(Proper(b, S)), NEW r \in Seq(Proper(a, S)), H[a] = p \o r,
         NEW G, Moves(G, H, S, a, b, p, r), Stage(b) < Stage(a),
         \A l \in 1..Len(p) : Routed(b, p[l]), Onward(H, L, a, b, p)
  PROVE  Ordered(G, L)
<1>1. /\ \A z \in Box : H[z] \in Seq(Proper(z, S))
      /\ G[a] = r /\ G[b] = H[b] \o p /\ \A z \in Box \ {a, b} : G[z] = H[z]
  BY DEF Once, Moves
<1>2. PICK u \in Nat, v \in Nat, w \in Nat : u = Len(p) /\ v = Len(r) /\ w = Len(H[b])
  <2>1. Len(p) \in Nat /\ Len(r) \in Nat /\ Len(H[b]) \in Nat
    BY <1>1
  <2> QED
    BY <2>1
<1>3. /\ Len(H[a]) = u + v
      /\ \A k \in 1..u : H[a][k] = p[k]
      /\ \A k \in 1..v : H[a][u + k] = r[k]
  <2>1. PICK T : T = Proper(a, S) \cup Proper(b, S)
    OBVIOUS
  <2>2. p \in Seq(T) /\ r \in Seq(T)
    BY <2>1
  <2>3. /\ Len(p \o r) = Len(p) + Len(r)
        /\ \A k \in 1..Len(p) : (p \o r)[k] = p[k]
        /\ \A k \in 1..Len(r) : (p \o r)[Len(p) + k] = r[k]
    BY <2>2, Joined
  <2> QED
    BY <1>2, <2>3
<1>4. /\ Len(G[b]) = w + u
      /\ \A k \in 1..w : G[b][k] = H[b][k]
      /\ \A k \in 1..u : G[b][w + k] = p[k]
  <2>1. PICK T, h : T = Proper(b, S) /\ h = H[b]
    OBVIOUS
  <2>2. p \in Seq(T) /\ h \in Seq(T)
    BY <1>1, <2>1
  <2>3. /\ Len(h \o p) = Len(h) + Len(p)
        /\ \A k \in 1..Len(h) : (h \o p)[k] = h[k]
        /\ \A k \in 1..Len(p) : (h \o p)[Len(h) + k] = p[k]
    BY <2>2, Joined
  <2> QED
    BY <1>1, <1>2, <2>1, <2>3
<1> DEFINE Come(z, k)  == /\ z = b /\ k > w /\ k - w \in 1..u /\ k - w \in 1..Len(H[a])
                          /\ G[z][k] = p[k - w] /\ G[z][k] = H[a][k - w]
           Left(z, k)  == z = a /\ u + k \in 1..Len(H[a]) /\ G[z][k] = H[a][u + k]
           Still(z, k) == /\ z # a /\ k \in 1..Len(H[z]) /\ G[z][k] = H[z][k]
                          /\ z = b => k <= w
<1>5. ASSUME NEW z \in Box, NEW k \in 1..Len(G[z])
      PROVE  k \in Nat /\ (Come(z, k) \/ Left(z, k) \/ Still(z, k))
  <2>1. CASE z = a
    <3>1. k \in 1..v
      BY <1>1, <1>2, <2>1
    <3>2. u + k \in 1..u + v /\ G[z][k] = r[k]
      BY <1>1, <1>2, <2>1, <3>1
    <3>3. H[a][u + k] = r[k]
      BY <1>3, <3>1
    <3> QED
      BY <1>3, <2>1, <3>1, <3>2, <3>3
  <2>2. CASE z = b /\ k > w
    <3>1. k \in 1..w + u /\ k > w
      BY <1>4, <2>2
    <3>2. k \in Nat /\ k - w \in 1..u /\ w + (k - w) = k /\ k - w \in 1..u + v
      BY <1>2, <3>1
    <3>3. G[b][w + (k - w)] = p[k - w] /\ H[a][k - w] = p[k - w]
      BY <1>3, <1>4, <3>2
    <3> QED
      BY <1>3, <2>2, <3>2, <3>3
  <2>3. CASE z = b /\ ~(k > w)
    <3>1. k \in 1..w
      BY <1>2, <1>4, <2>3
    <3> QED
      BY <1>2, <1>4, <2>3, <3>1
  <2>4. CASE z \notin {a, b}
    <3>1. G[z] = H[z] /\ k \in Nat
      BY <1>1, <2>4
    <3> QED
      BY <2>4, <3>1
  <2> QED
    BY <2>1, <2>2, <2>3, <2>4
<1>6. \A y, z \in Box : \A k \in 1..Len(H[y]), l \in 1..Len(H[z]) :
        Precedes(H[y][k], H[z][l], L) => Stage(y) < Stage(z) \/ (y = z /\ k < l)
  BY DEF Ordered
<1>7. \A z \in Box : Stage(z) \in Int
  BY Stages
<1>0. ASSUME NEW k \in 1..Len(H[a]), NEW l \in 1..Len(H[a]), Precedes(H[a][k], H[a][l], L)
      PROVE  k < l
  <2>1. Stage(a) < Stage(a) \/ k < l
    BY <1>0, <1>6
  <2>2. ~(Stage(a) < Stage(a))
    BY <1>7
  <2> QED
    BY <2>1, <2>2
<1>8. ASSUME NEW z \in Box, NEW k \in 1..Len(G[z]) PROVE Routed(z, G[z][k])
  <2>1. Come(z, k) => Routed(b, p[k - w])
    BY <1>2
  <2>2. Left(z, k) => Routed(a, H[a][u + k])
    BY DEF Ordered
  <2>3. Still(z, k) => Routed(z, H[z][k])
    BY DEF Ordered
  <2> QED
    BY <1>5, <2>1, <2>2, <2>3
<1>9. ASSUME NEW y \in Box, NEW k \in 1..Len(G[y]), NEW z \in Box, NEW l \in 1..Len(G[z]),
             Precedes(G[y][k], G[z][l], L)
      PROVE  Stage(y) < Stage(z) \/ (y = z /\ k < l)
  <2>1. k \in Nat /\ l \in Nat
    BY <1>5
  <2>2. CASE Come(y, k) /\ Come(z, l)
    <3>1. k - w < l - w
      <4>1. Precedes(H[a][k - w], H[a][l - w], L)
        BY <1>9, <2>2
      <4> QED
        BY <1>0, <2>2, <4>1
    <3> QED
      BY <1>2, <2>1, <2>2, <3>1
  <2>3. CASE Come(y, k) /\ Left(z, l)
    BY <2>3
  <2>4. CASE Come(y, k) /\ Still(z, l)
    <3>1. Stage(a) < Stage(z)
      BY <1>6, <1>9, <2>4
    <3> QED
      BY <1>7, <2>4, <3>1
  <2>5. CASE Left(y, k) /\ Come(z, l)
    <3>1. u + k < l - w /\ l - w <= u
      <4>1. Precedes(H[a][u + k], H[a][l - w], L)
        BY <1>9, <2>5
      <4>2. l - w \in 1..u /\ u + k \in 1..Len(H[a]) /\ l - w \in 1..Len(H[a])
        BY <2>5
      <4>3. u + k < l - w
        BY <1>0, <4>1, <4>2
      <4> QED
        BY <1>2, <4>2, <4>3
    <3> QED
      BY <1>2, <2>1, <3>1
  <2>6. CASE Left(y, k) /\ Left(z, l)
    <3>1. u + k < u + l
      <4>1. Precedes(H[a][u + k], H[a][u + l], L)
        BY <1>9, <2>6
      <4> QED
        BY <1>0, <2>6, <4>1
    <3> QED
      BY <1>2, <2>1, <2>6, <3>1
  <2>7. CASE Left(y, k) /\ Still(z, l)
    BY <1>6, <1>9, <2>7
  <2>8. CASE Still(y, k) /\ Come(z, l)
    <3>1. Stage(y) < Stage(a)
      BY <1>6, <1>9, <2>8
    <3>2. y = b \/ Stage(y) < Stage(b)
      BY <1>2, <1>9, <2>8, <3>1 DEF Onward
    <3> QED
      BY <1>2, <2>1, <2>8, <3>2
  <2>9. CASE Still(y, k) /\ Left(z, l)
    BY <1>6, <1>9, <2>9
  <2>10. CASE Still(y, k) /\ Still(z, l)
    BY <1>6, <1>9, <2>10
  <2> QED
    BY <1>5, <2>2, <2>3, <2>4, <2>5, <2>6, <2>7, <2>8, <2>9, <2>10
<1> QED
  BY <1>8, <1>9 DEF Ordered

\* Nothing is overtaken by a message that enters behind all there is.
LEMMA OrderedEntered ==
  ASSUME NEW S, NEW H, Once(H, S), NEW L, Ordered(H, L), NEW m, NEW a \in Box, Stage(a) = 5,
         Routed(a, m), ~Precedes(m, m, L), \A x \in S : ~Precedes(m, x, L),
         NEW G, G[a] = Append(H[a], m), \A z \in Box \ {a} : G[z] = H[z]
  PROVE  Ordered(G, L)
<1>1. \A z \in Box : /\ H[z] \in Seq(Proper(z, S))
                     /\ \A k \in 1..Len(H[z]) : k \in Nat /\ H[z][k] \in S
  <2>1. \A z \in Box : H[z] \in Seq(Proper(z, S)) /\ Proper(z, S) \subseteq S
    BY DEF Once, Proper
  <2> QED
    BY <2>1
<1>2. PICK w \in Nat : w = Len(H[a])
  BY <1>1
<1>3. Len(G[a]) = w + 1 /\ G[a][w + 1] = m /\ \A k \in 1..w : G[a][k] = H[a][k]
  <2>1. PICK h, X : h = H[a] /\ X = Proper(a, S) \cup {m}
    OBVIOUS
  <2>2. h \in Seq(X) /\ m \in X
    BY <1>1, <2>1
  <2>3. /\ Len(Append(h, m)) = Len(h) + 1
        /\ Append(h, m)[Len(h) + 1] = m /\ \A k \in 1..Len(h) : Append(h, m)[k] = h[k]
    BY <2>2
  <2> QED
    BY <1>2, <2>1, <2>3
<1>4. ASSUME NEW z \in Box, NEW k \in 1..Len(G[z])
      PROVE  (z = a /\ k = w + 1 /\ G[z][k] = m) \/ (k \in 1..Len(H[z]) /\ G[z][k] = H[z][k])
  <2>1. CASE z = a
    <3>1. k = w + 1 \/ k \in 1..w
      BY <1>3, <2>1
    <3> QED
      BY <1>2, <1>3, <2>1, <3>1
  <2>2. CASE z # a
    BY <2>2
  <2> QED
    BY <2>1, <2>2
<1>5. ASSUME NEW z \in Box, NEW k \in 1..Len(G[z]) PROVE Routed(z, G[z][k])
  BY <1>4 DEF Ordered
<1>6. \A y, z \in Box : \A k \in 1..Len(H[y]), l \in 1..Len(H[z]) :
        Precedes(H[y][k], H[z][l], L) => Stage(y) < Stage(z) \/ (y = z /\ k < l)
  BY DEF Ordered
<1>7. ASSUME NEW y \in Box, NEW k \in 1..Len(H[y]), NEW l, l = w + 1, Precedes(H[y][k], m, L)
      PROVE  Stage(y) < Stage(a) \/ (y = a /\ k < l)
  <2>1. Routed(y, H[y][k]) /\ k \in Nat
    BY <1>1 DEF Ordered
  <2>2. Stage(y) < 5 \/ y[1] = "outbound"
    BY Stages
  <2>3. y[1] = "outbound" => y = QueueBox("outbound", H[y][k].from)
    BY <2>1 DEF Routed
  <2>4. a[1] = "outbound"
    BY Stages
  <2>5. a = QueueBox("outbound", m.from)
    BY <2>4 DEF Routed
  <2>6. H[y][k].from = m.from
    BY <1>7 DEF Precedes
  <2>7. y = a => k <= w
    BY <1>2
  <2> QED
    BY <1>2, <1>7, <2>1, <2>2, <2>3, <2>5, <2>6, <2>7
<1>8. ASSUME NEW y \in Box, NEW k \in 1..Len(G[y]), NEW z \in Box, NEW l \in 1..Len(G[z]),
             Precedes(G[y][k], G[z][l], L)
      PROVE  Stage(y) < Stage(z) \/ (y = z /\ k < l)
  <2>1. (y = a /\ k = w + 1 /\ G[y][k] = m) \/ (k \in 1..Len(H[y]) /\ G[y][k] = H[y][k])
    BY <1>4
  <2>2. (z = a /\ l = w + 1 /\ G[z][l] = m) \/ (l \in 1..Len(H[z]) /\ G[z][l] = H[z][l])
    BY <1>4
  <2>3. ~(G[y][k] = m)
    BY <1>1, <1>8, <2>2
  <2> QED
    BY <1>6, <1>7, <1>8, <2>1, <2>2, <2>3
<1> QED
  BY <1>5, <1>8 DEF Ordered

\* Boxes of one stage that hold messages of one channel are one box.
LEMMA NothingBetween ==
  ASSUME NEW a \in Box, NEW b \in Box, NEW z \in Box, NEW x, NEW y,
         x.from = y.from, x.to = y.to, Routed(a, y), Routed(b, y), Routed(z, x),
         \/ Stage(a) = Stage(b) + 1 /\ b[1] # "conn"
         \/ a[1] = "batch" /\ b[1] = "inbound" /\ y.from = y.to,
         Stage(z) < Stage(a)
  PROVE  z = b \/ Stage(z) < Stage(b)
<1>1. /\ Stage(a) \in 0..5 /\ Stage(b) \in 0..5 /\ Stage(z) \in 0..5
      /\ a[1] = "batch" => Stage(a) = 4
      /\ b[1] = "inbound" => Stage(b) = 1
  BY Stages
<1>2. z[1] = b[1] /\ b[1] # "conn" => z = b
  BY DEF Routed
<1>3. Stage(z) = Stage(b) => z[1] = b[1]
  BY Stages
<1>4. CASE Stage(a) = Stage(b) + 1 /\ b[1] # "conn"
  BY <1>1, <1>2, <1>3, <1>4
<1>5. CASE a[1] = "batch" /\ b[1] = "inbound" /\ y.from = y.to
  <2>1. z[1] \notin {"conn", "decoded"}
    BY <1>5 DEF Routed
  <2>2. Stage(z) # 3 /\ Stage(z) # 2
    BY <2>1, Stages
  <2> QED
    BY <1>1, <1>2, <1>3, <1>5, <2>2
<1> QED
  BY <1>4, <1>5

\* What is at the front of a box may be there.
LEMMA FrontRouted ==
  ASSUME NEW H, NEW L, Ordered(H, L), NEW a \in Box, NEW T, NEW p \in Seq(T), NEW r \in Seq(T),
         H[a] = p \o r
  PROVE  \A l \in 1..Len(p) : Routed(a, p[l])
<1>1. /\ Len(p \o r) = Len(p) + Len(r) /\ Len(p) \in Nat /\ Len(r) \in Nat
      /\ \A k \in 1..Len(p) : (p \o r)[k] = p[k]
  BY Joined
<1>2. ASSUME NEW l \in 1..Len(p) PROVE l \in 1..Len(H[a]) /\ H[a][l] = p[l]
  BY <1>1
<1> QED
  BY <1>2 DEF Ordered

\* Messages that may be in the next box overtake nothing in going there.
LEMMA OnwardNext ==
  ASSUME NEW H, NEW L, Ordered(H, L), NEW a \in Box, NEW b \in Box, NEW p,
         \A l \in 1..Len(p) : Routed(a, p[l]) /\ Routed(b, p[l]),
         \/ Stage(a) = Stage(b) + 1 /\ b[1] # "conn"
         \/ a[1] = "batch" /\ b[1] = "inbound" /\ \A l \in 1..Len(p) : p[l].from = p[l].to
  PROVE  Onward(H, L, a, b, p) /\ Stage(b) < Stage(a)
<1>1. Stage(b) < Stage(a)
  BY Stages
<1>2. ASSUME NEW z \in Box, NEW k \in 1..Len(H[z]), NEW l \in 1..Len(p),
             Precedes(H[z][k], p[l], L), Stage(z) < Stage(a)
      PROVE  z = b \/ Stage(z) < Stage(b)
  <2>1. PICK x, y : x = H[z][k] /\ y = p[l]
    OBVIOUS
  <2>2. x.from = y.from /\ x.to = y.to
    BY <1>2, <2>1 DEF Precedes
  <2>3. Routed(a, y) /\ Routed(b, y) /\ Routed(z, x)
    BY <2>1 DEF Ordered
  <2>4. \/ Stage(a) = Stage(b) + 1 /\ b[1] # "conn"
        \/ a[1] = "batch" /\ b[1] = "inbound" /\ y.from = y.to
    BY <2>1
  <2> QED
    BY <1>2, <2>2, <2>3, <2>4, NothingBetween
<1> QED
  BY <1>1, <1>2 DEF Onward

\* Messages p of queue q of node i may go to queue d.
Passes(q, d, i, p) ==
  \/ q = "outbound" /\ d = "batch"
  \/ q = "batch" /\ d = "inbound" /\ \A l \in 1..Len(p) : p[l].to = i
  \/ q = "decoded" /\ d = "inbound"
  \/ q = "inbound" /\ d = "handed"

\* They are at the right place there, and overtake nothing.
LEMMA PassesOnward ==
  ASSUME NEW H, NEW L, Ordered(H, L), NEW i \in Node, NEW q \in Queue, NEW d \in Queue, NEW p,
         \A l \in 1..Len(p) : Routed(QueueBox(q, i), p[l]), Passes(q, d, i, p)
  PROVE  /\ \A l \in 1..Len(p) : Routed(QueueBox(d, i), p[l])
         /\ Onward(H, L, QueueBox(q, i), QueueBox(d, i), p)
         /\ Stage(QueueBox(d, i)) < Stage(QueueBox(q, i))
<1>1. PICK a \in Box, b \in Box : a = QueueBox(q, i) /\ b = QueueBox(d, i)
  BY Boxes
<1>2. a[1] = q /\ b[1] = d
  BY <1>1 DEF QueueBox
<1>3. \A j \in Node : \A e \in Queue : QueueBox(e, j) = QueueBox(e, i) => j = i
  BY Boxes
<1>4. ASSUME NEW l \in 1..Len(p)
      PROVE  Routed(b, p[l]) /\ (q = "batch" => p[l].from = p[l].to)
  <2>1. Routed(a, p[l])
    BY <1>1
  <2>2. q \in {"outbound", "batch"} => p[l].from = i
    BY <1>1, <1>2, <2>1 DEF Routed, QueueBox, Queue
  <2>3. q \in {"decoded", "inbound"} => p[l].to = i
    BY <1>1, <1>2, <2>1 DEF Routed, QueueBox, Queue
  <2> QED
    BY <1>1, <1>2, <2>2, <2>3 DEF Passes, Routed
<1>5. \/ Stage(a) = Stage(b) + 1 /\ b[1] # "conn"
      \/ a[1] = "batch" /\ b[1] = "inbound" /\ \A l \in 1..Len(p) : p[l].from = p[l].to
  BY <1>2, <1>4, Stages DEF Passes
<1>6. Onward(H, L, a, b, p) /\ Stage(b) < Stage(a)
  BY <1>1, <1>4, <1>5, OnwardNext
<1> QED
  BY <1>1, <1>4, <1>6

\* Nothing overtakes when messages pass from queue to queue.
LEMMA OrderedQueueMove ==
  ASSUME NEW S, NEW H, Once(H, S), NEW L, Ordered(H, L), NEW i \in Node,
         NEW q \in Queue, NEW d \in Queue, q # d,
         NEW p \in Seq(Proper(QueueBox(d, i), S)), NEW r \in Seq(Proper(QueueBox(q, i), S)),
         H[QueueBox(q, i)] = p \o r, Passes(q, d, i, p),
         NEW G, Moves(G, H, S, QueueBox(q, i), QueueBox(d, i), p, r)
  PROVE  Ordered(G, L)
<1>1. PICK a \in Box, b \in Box : a = QueueBox(q, i) /\ b = QueueBox(d, i) /\ a # b
  <2>1. QueueBox(q, i) \in Box /\ QueueBox(d, i) \in Box /\ QueueBox(q, i) # QueueBox(d, i)
    BY Boxes
  <2> QED
    BY <2>1, Zenon
<1>2. p \in Seq(Proper(b, S)) /\ r \in Seq(Proper(a, S)) /\ H[a] = p \o r /\ Moves(G, H, S, a, b, p, r)
  BY <1>1
<1>3. \A l \in 1..Len(p) : Routed(a, p[l])
  <2>1. PICK T : T = Proper(b, S) \cup Proper(a, S)
    OBVIOUS
  <2>2. p \in Seq(T) /\ r \in Seq(T)
    BY <1>2, <2>1
  <2> QED
    BY <1>2, <2>2, FrontRouted
<1>4. (\A l \in 1..Len(p) : Routed(b, p[l])) /\ Onward(H, L, a, b, p) /\ Stage(b) < Stage(a)
  BY <1>1, <1>3, PassesOnward
<1> QED
  BY <1>1, <1>2, <1>4, OrderedMoves

\* Connections are never forgotten, so there are no more such channels.
LEMMA LoneLess ==
  ASSUME conns \in Connections, conns' \in Connections,
         \A c \in Channel : DOMAIN conns[c] \subseteq DOMAIN conns'[c]
  PROVE  Lone' \subseteq Lone
<1> SUFFICES ASSUME NEW c \in Channel, Len(conns'[c]) <= 1 PROVE Len(conns[c]) <= 1
  BY DEF Lone
<1>1. conns[c] \in Seq(Connection) /\ conns'[c] \in Seq(Connection)
  BY DEF Connections
<1>2. PICK u \in Nat, v \in Nat : u = Len(conns[c]) /\ v = Len(conns'[c])
  BY <1>1
<1>3. DOMAIN conns[c] = 1..u /\ DOMAIN conns'[c] = 1..v
  BY <1>1, <1>2
<1>4. u \in 1..u => u \in 1..v
  BY <1>3
<1> QED
  BY <1>2, <1>4

\* A connection not made yet holds nothing.
LEMMA HoldsNewOnly ==
  ASSUME NEW q \in Seq(Addressed), Holds(NewConnection, q)
  PROVE  q = <<>>
<1> SUFFICES ASSUME q # <<>> PROVE FALSE
  OBVIOUS
<1>1. PICK x \in Seq(Nat) : Carries(q, <<>> \o <<>>, x)
  BY DEF Holds, NewConnection
<1>2. Framed(Addressed) /\ q[1] \in Addressed
  BY FramesKnown
<1>3. PICK more \in Seq(Nat) : <<>> \o <<>> = Frame(q[1]) \o more
  BY <1>1, <1>2, CarriesFirst
<1>4. PICK f \in Seq(Nat) : f = Frame(q[1]) /\ Len(f) >= 1
  <2>1. PICK w \in Seq(Nat) : w = FrameOf[q[1]]
    BY <1>2, FramesKnown
  <2>2. Frame(q[1]) = <<Len(w)>> \o w
    BY <2>1 DEF Frame
  <2>3. <<Len(w)>> \o w \in Seq(Nat) /\ Len(<<Len(w)>> \o w) = 1 + Len(w) /\ Len(w) \in Nat
    BY <2>1, Headed
  <2>4. Frame(q[1]) \in Seq(Nat) /\ Len(Frame(q[1])) >= 1
    BY <2>2, <2>3
  <2> QED
    BY <2>4, Zenon
<1>5. Len(f \o more) = Len(f) + Len(more) /\ Len(f) \in Nat /\ Len(more) \in Nat
  BY <1>4, Joined
<1>6. <<>> \o <<>> = <<>> /\ Len(<<>>) = 0
  OBVIOUS
<1>7. <<>> = f \o more
  BY <1>3, <1>4, <1>6
<1>8. 0 = Len(f) + Len(more)
  BY <1>5, <1>6, <1>7
<1>9. Len(f) >= 1
  BY <1>4
<1> QED
  BY <1>5, <1>8, <1>9

\* Nothing overtakes when the front of a queue is taken away.
LEMMA OrderedDrop ==
  ASSUME NEW S, NEW H, Once(H, S), NEW L, Ordered(H, L), NEW i \in Node, NEW q \in Queue,
         NEW p \in Seq(S), NEW r \in Seq(Proper(QueueBox(q, i), S)), H[QueueBox(q, i)] = p \o r,
         NEW G, Shortens(G, H, S, QueueBox(q, i), r)
  PROVE  Ordered(G, L)
<1>1. PICK a \in Box : a = QueueBox(q, i)
  BY Boxes
<1>2. r \in Seq(Proper(a, S)) /\ H[a] = p \o r /\ Shortens(G, H, S, a, r)
  BY <1>1
<1> QED
  BY <1>1, <1>2, OrderedShortens, Zenon

\* A message goes from the batch to a connection, which is the only one of
\* its channel that holds anything if the channel is in L.
LEMMA OnwardToConn ==
  ASSUME NEW H, NEW L, Ordered(H, L), NEW i \in Node, NEW c \in Channel, c[1] = i, c[2] # i,
         NEW m, Routed(QueueBox("batch", i), m), m.to = c[2], NEW n \in Nat \ {0},
         c \in L => \A x \in Nat \ {0} : x # n => H[ConnBox(c, x)] = <<>>
  PROVE  /\ \A l \in 1..Len(<<m>>) : Routed(ConnBox(c, n), <<m>>[l])
         /\ Onward(H, L, QueueBox("batch", i), ConnBox(c, n), <<m>>)
         /\ Stage(ConnBox(c, n)) < Stage(QueueBox("batch", i))
<1>1. PICK a \in Box, b \in Box : a = QueueBox("batch", i) /\ b = ConnBox(c, n)
  BY Boxes DEF Queue
<1>2. a[1] = "batch" /\ b[1] = "conn"
  BY <1>1 DEF QueueBox, ConnBox
<1>3. m.from = i
  BY <1>1, <1>2 DEF Routed, QueueBox
<1>4. c = <<m.from, m.to>>
  BY <1>3 DEF Channel
<1>5. Routed(b, m)
  BY <1>1, <1>2, <1>3, <1>4 DEF Routed
<1>6. Stage(a) = 4 /\ Stage(b) = 3
  BY <1>2, Stages
<1>7. ASSUME NEW z \in Box, NEW k \in 1..Len(H[z]), Precedes(H[z][k], m, L), Stage(z) < 4
      PROVE  z = b \/ Stage(z) < 3
  <2>1. Stage(z) \in 0..5 /\ (Stage(z) = 3 => z[1] = "conn")
    BY Stages
  <2>2. CASE z[1] = "conn"
    <3>1. Routed(z, H[z][k])
      BY DEF Ordered
    <3>2. H[z][k].from = m.from /\ H[z][k].to = m.to /\ <<H[z][k].from, H[z][k].to>> \in L
      BY <1>7 DEF Precedes
    <3>3. PICK x \in Nat \ {0} : z = ConnBox(<<H[z][k].from, H[z][k].to>>, x)
      BY <2>2, <3>1 DEF Routed
    <3>4. z = ConnBox(c, x) /\ c \in L
      BY <1>4, <3>2, <3>3
    <3>5. H[z] # <<>>
      BY <1>7
    <3> QED
      BY <1>1, <3>4, <3>5
  <2> QED
    BY <1>7, <2>1, <2>2
<1>8. Len(<<m>>) = 1 /\ <<m>>[1] = m
  OBVIOUS
<1>9. \A l \in 1..Len(<<m>>) : <<m>>[l] = m
  BY <1>8
<1>10. Onward(H, L, a, b, <<m>>)
  BY <1>6, <1>7, <1>9 DEF Onward
<1> QED
  BY <1>1, <1>5, <1>6, <1>9, <1>10

\* A message goes from a connection to what was decoded.
LEMMA OnwardToDecoded ==
  ASSUME NEW H, NEW L, Ordered(H, L), NEW c \in Channel, NEW n \in Nat \ {0},
         NEW m, Routed(ConnBox(c, n), m)
  PROVE  /\ \A l \in 1..Len(<<m>>) : Routed(QueueBox("decoded", c[2]), <<m>>[l])
         /\ Onward(H, L, ConnBox(c, n), QueueBox("decoded", c[2]), <<m>>)
         /\ Stage(QueueBox("decoded", c[2])) < Stage(ConnBox(c, n))
<1>1. PICK a \in Box, b \in Box : a = ConnBox(c, n) /\ b = QueueBox("decoded", c[2])
  BY Boxes DEF Queue, Channel
<1>2. a[1] = "conn" /\ b[1] = "decoded"
  BY <1>1 DEF QueueBox, ConnBox
<1>3. m.from # m.to /\ m.to = c[2]
  BY <1>1, <1>2 DEF Routed, ConnBox
<1>4. Routed(b, m)
  BY <1>1, <1>2, <1>3 DEF Routed
<1>5. Len(<<m>>) = 1 /\ <<m>>[1] = m
  OBVIOUS
<1>6. \A l \in 1..Len(<<m>>) : Routed(a, <<m>>[l]) /\ Routed(b, <<m>>[l])
  BY <1>1, <1>4, <1>5
<1>7. Stage(a) = Stage(b) + 1 /\ b[1] # "conn"
  BY <1>2, Stages
<1>8. Onward(H, L, a, b, <<m>>) /\ Stage(b) < Stage(a)
  BY <1>6, <1>7, OnwardNext
<1> QED
  BY <1>1, <1>6, <1>8

\* A change of one connection forgets none.
LEMMA LoneBecomes ==
  ASSUME Types, NEW c, NEW n, NEW k, Becomes(conns, conns', c, n, k)
  PROVE  Lone' \subseteq Lone
BY LoneLess DEF Becomes, Types

-----------------------------------------------------------------------------
(* What each step does to the boxes.                                       *)

\* send: a message not seen before enters the outbound queue.
LEMMA SendInv ==
  ASSUME TInv, NEW i \in Node, Send(i)
  PROVE  TInv'
<1>1. Types /\ Served /\ Linked
  BY DEF TInv
<1>2. /\ sent[i] < Len(Script[i])
      /\ sent' = [sent EXCEPT ![i] = @ + 1]
      /\ outbound' = [outbound EXCEPT ![i] = Append(@, Script[i][sent[i] + 1])]
      /\ UNCHANGED <<inbound, handed, crashed, running, ioVars, tcpVars, failed>>
  BY DEF Send
<1>3. Types'
  <2>1. sent' \in [Node -> Nat] /\ \A j \in Node : sent'[j] <= Len(Script[j])
    BY <1>1, <1>2, ScriptTypes DEF Types
  <2>2. OnNodes(outbound)'
    BY <1>1, <1>2 DEF Types, OnNodes
  <2> QED
    BY <1>1, <1>2, <2>1, <2>2 DEF Types, OnNodes, ioVars, tcpVars
<1>4. Served'
  BY <1>1, <1>2 DEF Served, ioVars, tcpVars
<1>5. Linked'
  BY <1>1, <1>2 DEF Linked, tcpVars
<1>6. Flow'
  <2>1. PICK H : Once(H, SentSoFar) /\ Queued(H) /\ Carried(H) /\ Ordered(H, Lone)
    BY DEF TInv, Flow
  <2>2. PICK S, T : S = SentSoFar /\ T = SentSoFar' /\ Once(H, S)
    BY <2>1
  <2>3. sent \in [Node -> Nat] /\ \A j \in Node : sent[j] <= Len(Script[j])
    BY <1>1 DEF Types
  <2>4. \A m : m \in S <=> \E j \in Node : \E k \in 1..sent[j] : m = Script[j][k]
    BY <2>2, <2>3, SentPlaces DEF SentSoFar
  <2>5. sent' \in [Node -> Nat] /\ \A j \in Node : sent'[j] <= Len(Script[j])
    BY <1>3 DEF Types
  <2>6. \A m : m \in T <=> \E j \in Node : \E k \in 1..sent'[j] : m = Script[j][k]
    BY <2>2, <2>5, SentPlaces DEF SentSoFar
  <2>7. PICK n \in Nat : n = sent[i] + 1
    BY <2>3
  <2>8. sent'[i] = n /\ n \in 1..Len(Script[i]) /\ \A j \in Node : sent[j] <= sent'[j]
    BY <1>2, <2>3, <2>7, ScriptTypes
  <2>9. PICK m : m = Script[i][n]
    OBVIOUS
  <2>10. S \subseteq T
    BY <2>3, <2>4, <2>5, <2>6, <2>8
  <2>11. m \in T
    BY <2>6, <2>7, <2>8, <2>9
  <2>12. m \notin S
    <3> SUFFICES ASSUME m \in S PROVE FALSE
      OBVIOUS
    <3>1. PICK j \in Node : \E k \in 1..sent[j] : m = Script[j][k]
      BY <2>4
    <3>2. PICK k \in 1..sent[j] : m = Script[j][k]
      BY <3>1
    <3>3. k \in DOMAIN Script[j] /\ n \in DOMAIN Script[i]
      BY <2>3, <2>8, ScriptTypes
    <3>4. i = j /\ n = k
      BY <2>9, <3>2, <3>3, ScriptAssumption
    <3> QED
      BY <2>3, <2>7, <3>4
  <2>13. PICK a \in Box : a = QueueBox("outbound", i)
    BY Boxes DEF Queue
  <2>14. m \in Proper(a, T)
    BY <2>11, <2>13 DEF Proper, QueueBox
  <2>15. PICK G : G = [z \in Box |-> IF z = a THEN Append(H[a], m) ELSE H[z]]
    OBVIOUS
  <2>16. /\ OnBoxes(G) /\ G[a] = Append(H[a], m)
         /\ \A z \in Box \ {a} : G[z] = H[z]
    BY <2>15 DEF OnBoxes
  <2>17. Once(G, T)
    BY <2>2, <2>10, <2>11, <2>12, <2>13, <2>14, <2>16, Entered
  <2>18. Queued(G)'
    <3> SUFFICES ASSUME NEW j \in Node
                 PROVE  /\ G[QueueBox("outbound", j)] = outbound'[j]
                        /\ G[QueueBox("batch", j)] = batch'[j]
                        /\ G[QueueBox("decoded", j)] = decoded'[j]
                        /\ G[QueueBox("inbound", j)] = inbound'[j]
                        /\ G[QueueBox("handed", j)] = handed'[j]
      BY DEF Queued
    <3>1. /\ \A q \in Queue \ {"outbound"} : QueueBox(q, j) \in Box \ {a}
          /\ j # i => QueueBox("outbound", j) \in Box \ {a}
      BY <2>13, Boxes DEF Queue
    <3>2. /\ H[QueueBox("outbound", j)] = outbound[j] /\ H[QueueBox("batch", j)] = batch[j]
          /\ H[QueueBox("decoded", j)] = decoded[j] /\ H[QueueBox("inbound", j)] = inbound[j]
          /\ H[QueueBox("handed", j)] = handed[j]
      BY <2>1 DEF Queued
    <3>3. outbound'[j] = IF j = i THEN Append(outbound[i], m) ELSE outbound[j]
      BY <1>1, <1>2, <2>7, <2>9 DEF Types, OnNodes
    <3> QED
      BY <1>2, <2>13, <2>16, <3>1, <3>2, <3>3 DEF Queue, ioVars
  <2>19. Carried(G)'
    <3> SUFFICES ASSUME NEW c \in Channel, NEW x \in Nat \ {0}
                 PROVE  Holds(View(conns', c, x), G[ConnBox(c, x)])
      BY DEF Carried
    <3>1. ConnBox(c, x) \in Box \ {a}
      BY <2>13, Boxes DEF Queue
    <3> QED
      BY <1>2, <2>1, <2>16, <3>1 DEF Carried, tcpVars
  <2>20. \A k, l \in DOMAIN Script[i] : Script[i][k] = Script[i][l] => k = l
    BY ScriptAssumption
  <2>21. m.from = i /\ n \in DOMAIN Script[i]
    BY <2>8, <2>9, ScriptTypes, SenderAssumption
  <2>22. ~Precedes(m, m, Lone)
    <3>1. \A k, l \in DOMAIN Script[i] : k = l => ~(k < l)
      BY ScriptTypes
    <3> QED
      BY <2>20, <2>21, <3>1 DEF Precedes
  <2>23. ASSUME NEW x \in S PROVE ~Precedes(m, x, Lone)
    <3> SUFFICES ASSUME Precedes(m, x, Lone) PROVE FALSE
      OBVIOUS
    <3>1. PICK k \in DOMAIN Script[i], l \in DOMAIN Script[i] :
            k < l /\ m = Script[i][k] /\ x = Script[i][l]
      BY <2>21 DEF Precedes
    <3>2. k = n
      BY <2>9, <2>20, <2>21, <3>1
    <3>3. PICK j \in Node : \E z \in 1..sent[j] : x = Script[j][z]
      BY <2>4
    <3>4. PICK z \in 1..sent[j] : x = Script[j][z]
      BY <3>3
    <3>5. z \in DOMAIN Script[j]
      BY <2>3, ScriptTypes
    <3>6. Script[i][l] = Script[j][z]
      BY <3>1, <3>4
    <3>7. j = i /\ z = l
      BY <3>1, <3>5, <3>6, ScriptAssumption
    <3> QED
      BY <2>3, <2>7, <3>1, <3>2, <3>7
  <2>24. Stage(a) = 5 /\ Routed(a, m)
    <3>1. a[1] = "outbound"
      BY <2>13 DEF QueueBox
    <3> QED
      BY <2>13, <2>21, <3>1, Stages DEF Routed
  <2>25. Ordered(G, Lone)
    BY <2>1, <2>2, <2>16, <2>22, <2>23, <2>24, OrderedEntered
  <2>26. Lone' = Lone
    BY <1>2 DEF Lone, tcpVars
  <2>27. Ordered(G, Lone)'
    BY <2>25, <2>26
  <2> QED
    BY <2>2, <2>17, <2>18, <2>19, <2>27 DEF Flow
<1> QED
  BY <1>3, <1>4, <1>5, <1>6 DEF TInv

\* G and H differ only in the queues Q of node i.
ButQueues(G, H, Q, i) ==
  /\ \A q \in Queue, j \in Node : q \notin Q \/ j # i => G[QueueBox(q, j)] = H[QueueBox(q, j)]
  /\ \A c \in Channel, n \in Nat : G[ConnBox(c, n)] = H[ConnBox(c, n)]

\* G is H but for p, which went from queue q to queue d.
QueueMove(G, H, S, i, q, d, p, r) ==
  /\ Moves(G, H, S, QueueBox(q, i), QueueBox(d, i), p, r)
  /\ Once(G, S) /\ ButQueues(G, H, {q, d}, i)
  /\ G[QueueBox(q, i)] = r /\ G[QueueBox(d, i)] = H[QueueBox(d, i)] \o p

\* The front of a queue can be moved to the end of another.
LEMMA QueueMoves ==
  ASSUME NEW S, NEW H, Once(H, S), NEW i \in Node, NEW q \in Queue, NEW d \in Queue, q # d,
         NEW p \in Seq(Proper(QueueBox(d, i), S)), NEW r \in Seq(Proper(QueueBox(q, i), S)),
         H[QueueBox(q, i)] = p \o r
  PROVE  \E G : QueueMove(G, H, S, i, q, d, p, r)
<1>1. PICK a \in Box, b \in Box : a = QueueBox(q, i) /\ b = QueueBox(d, i) /\ a # b
  <2>1. QueueBox(q, i) \in Box /\ QueueBox(d, i) \in Box /\ QueueBox(q, i) # QueueBox(d, i)
    BY Boxes
  <2> QED
    BY <2>1, Zenon
<1>2. p \in Seq(Proper(b, S)) /\ r \in Seq(Proper(a, S)) /\ H[a] = p \o r
  BY <1>1
<1>3. PICK G : Moves(G, H, S, a, b, p, r)
  BY <1>1, <1>2, MovedTo, Zenon
<1>5. /\ Once(G, S) /\ G[a] = r /\ G[b] = H[b] \o p
      /\ \A z \in Box \ {a, b} : G[z] = H[z]
  BY <1>3 DEF Moves
<1>4. ButQueues(G, H, {q, d}, i)
  <2>1. ASSUME NEW e \in Queue, NEW j \in Node, e \notin {q, d} \/ j # i
        PROVE  G[QueueBox(e, j)] = H[QueueBox(e, j)]
    <3>1. QueueBox(e, j) \in Box \ {a, b}
      BY <1>1, <2>1, Boxes
    <3> QED
      BY <1>5, <3>1
  <2>2. ASSUME NEW c \in Channel, NEW n \in Nat PROVE G[ConnBox(c, n)] = H[ConnBox(c, n)]
    <3>1. ConnBox(c, n) \in Box \ {a, b}
      BY <1>1, Boxes
    <3> QED
      BY <1>5, <3>1
  <2> QED
    BY <2>1, <2>2 DEF ButQueues
<1> QED
  BY <1>1, <1>3, <1>4, <1>5 DEF QueueMove

\* G is H but for queue q, of which r is left.
QueueDrop(G, H, S, i, q, r) ==
  /\ Shortens(G, H, S, QueueBox(q, i), r)
  /\ Once(G, S) /\ ButQueues(G, H, {q}, i) /\ G[QueueBox(q, i)] = r

\* The front of a queue can be taken away.
LEMMA QueueDrops ==
  ASSUME NEW S, NEW H, Once(H, S), NEW i \in Node, NEW q \in Queue,
         NEW p \in Seq(S), NEW r \in Seq(Proper(QueueBox(q, i), S)),
         H[QueueBox(q, i)] = p \o r
  PROVE  \E G : QueueDrop(G, H, S, i, q, r)
<1>1. PICK a \in Box : a = QueueBox(q, i)
  BY Boxes
<1>2. r \in Seq(Proper(a, S)) /\ H[a] = p \o r
  BY <1>1
<1>5. PICK G : Shortens(G, H, S, a, r)
  BY <1>1, <1>2, ShortenedTo, Zenon
<1>3. Once(G, S) /\ G[a] = r /\ \A z \in Box \ {a} : G[z] = H[z]
  BY <1>5 DEF Shortens
<1>4. ButQueues(G, H, {q}, i)
  <2>1. ASSUME NEW e \in Queue, NEW j \in Node, e \notin {q} \/ j # i
        PROVE  G[QueueBox(e, j)] = H[QueueBox(e, j)]
    <3>1. QueueBox(e, j) \in Box \ {a}
      BY <1>1, <2>1, Boxes
    <3> QED
      BY <1>3, <3>1
  <2>2. ASSUME NEW c \in Channel, NEW n \in Nat PROVE G[ConnBox(c, n)] = H[ConnBox(c, n)]
    <3>1. ConnBox(c, n) \in Box \ {a}
      BY <1>1, Boxes
    <3> QED
      BY <1>3, <3>1
  <2> QED
    BY <2>1, <2>2 DEF ButQueues
<1> QED
  BY <1>1, <1>3, <1>4, <1>5 DEF QueueDrop

\* What a queue holds.
LEMMA QueueHolds ==
  ASSUME NEW S, NEW H, Once(H, S), NEW q \in Queue, NEW i \in Node
  PROVE  /\ H[QueueBox(q, i)] \in Seq(Proper(QueueBox(q, i), S))
         /\ Proper(QueueBox(q, i), S) \subseteq S
         /\ \A m : m \in Proper(QueueBox(q, i), S)
                     <=> m \in S /\ (q \in {"outbound", "batch"} \/ m.to = i)
<1>1. H[QueueBox(q, i)] \in Seq(Proper(QueueBox(q, i), S))
  BY Boxes DEF Once
<1>2. QueueBox(q, i)[1] = q /\ QueueBox(q, i)[3] = i
  BY DEF QueueBox
<1> QED
  BY <1>1, <1>2 DEF Proper

\* Connections are not touched.
LEMMA CarriedKept ==
  ASSUME NEW H, Carried(H), NEW G, NEW Q, NEW i, ButQueues(G, H, Q, i), conns' = conns
  PROVE  Carried(G)'
BY DEF ButQueues, Carried

-----------------------------------------------------------------------------
(* The steps that only touch queues.                                       *)

QueueOf(q) ==
  CASE q = "outbound" -> outbound [] q = "batch" -> batch [] q = "decoded" -> decoded
    [] q = "inbound" -> inbound [] q = "handed" -> handed

\* Queued, queue by queue.
LEMMA QueuesHeld ==
  /\ \A H : Queued(H) <=> \A q \in Queue, j \in Node : H[QueueBox(q, j)] = QueueOf(q)[j]
  /\ \A H : Queued(H)' <=> \A q \in Queue, j \in Node : H[QueueBox(q, j)] = QueueOf(q)'[j]
<1>1. ASSUME NEW H PROVE Queued(H) <=> \A q \in Queue, j \in Node : H[QueueBox(q, j)] = QueueOf(q)[j]
  BY DEF Queued, Queue, QueueOf
<1>2. ASSUME NEW H PROVE Queued(H)' <=> \A q \in Queue, j \in Node : H[QueueBox(q, j)] = QueueOf(q)'[j]
  BY DEF Queued, Queue, QueueOf
<1> QED
  BY <1>1, <1>2

\* Both parts of a sequence are sequences of what is in it.
LEMMA Pieces ==
  ASSUME NEW X, NEW Y, NEW p \in Seq(Y), NEW r \in Seq(Y), p \o r \in Seq(X)
  PROVE  p \in Seq(X) /\ r \in Seq(X)
<1>1. PICK w : w = p \o r
  OBVIOUS
<1>2. /\ Len(w) = Len(p) + Len(r) /\ Len(p) \in Nat /\ Len(r) \in Nat
      /\ \A k \in 1..Len(p) : w[k] = p[k]
      /\ \A k \in 1..Len(r) : w[Len(p) + k] = r[k]
  <2>1. /\ Len(p \o r) = Len(p) + Len(r) /\ Len(p) \in Nat /\ Len(r) \in Nat
        /\ \A k \in 1..Len(p) : (p \o r)[k] = p[k]
        /\ \A k \in 1..Len(r) : (p \o r)[Len(p) + k] = r[k]
    BY Joined
  <2> QED
    BY <1>1, <2>1
<1>3. \A k \in 1..Len(w) : w[k] \in X
  BY <1>1
<1>4. \A k \in 1..Len(p) : p[k] \in X
  BY <1>2, <1>3
<1>5. \A k \in 1..Len(r) : r[k] \in X
  <2>1. ASSUME NEW k \in 1..Len(r) PROVE Len(p) + k \in 1..Len(w)
    BY <1>2
  <2> QED
    BY <1>2, <1>3, <2>1
<1>6. p \in Seq(X)
  BY <1>4
<1>7. r \in Seq(X)
  BY <1>5
<1> QED
  BY <1>6, <1>7

\* The queues hold messages sent so far, and behind the io thread only those
\* for their node.
LEMMA QueueTypes ==
  ASSUME Types, Flow
  PROVE  /\ SentSoFar \subseteq Message
         /\ \A q \in Queue, i \in Node :
              QueueOf(q)[i] \in Seq(Proper(QueueBox(q, i), SentSoFar)) /\ QueueOf(q)[i] \in Seq(Message)
<1>1. PICK H : Once(H, SentSoFar) /\ Queued(H) /\ Carried(H) /\ Ordered(H, Lone)
  BY DEF Flow
<1>2. SentSoFar \subseteq Message
  BY SentPlaces DEF Types, SentSoFar
<1>3. ASSUME NEW q \in Queue, NEW i \in Node
      PROVE  QueueOf(q)[i] \in Seq(Proper(QueueBox(q, i), SentSoFar)) /\ QueueOf(q)[i] \in Seq(Message)
  <2>1. PICK X : X = Proper(QueueBox(q, i), SentSoFar)
    OBVIOUS
  <2>2. X \subseteq Message
    BY <1>2, <2>1 DEF Proper
  <2>3. PICK p : p = QueueOf(q)[i]
    OBVIOUS
  <2>4. p = H[QueueBox(q, i)]
    BY <1>1, <2>3, QueuesHeld
  <2>5. p \in Seq(X)
    BY <1>1, <2>1, <2>4, QueueHolds
  <2>6. p \in Seq(Message)
    BY <2>2, <2>5
  <2> QED
    BY <2>1, <2>3, <2>5, <2>6
<1> QED
  BY <1>2, <1>3

\* Nothing is done but to the queues Q of node i.
OnlyQueues(Q, i) ==
  /\ sent' = sent /\ conns' = conns
  /\ \A e \in Queue, j \in Node : e \notin Q \/ j # i => QueueOf(e)'[j] = QueueOf(e)[j]

\* No message moves.
LEMMA FlowKept ==
  ASSUME Flow, sent' = sent, conns' = conns,
         \A e \in Queue, j \in Node : QueueOf(e)'[j] = QueueOf(e)[j]
  PROVE  Flow'
<1>1. PICK H : Once(H, SentSoFar) /\ Queued(H) /\ Carried(H) /\ Ordered(H, Lone)
  BY DEF Flow
<1>2. Once(H, SentSoFar)'
  BY <1>1 DEF SentSoFar
<1>3. Queued(H)'
  BY <1>1, QueuesHeld
<1>4. Carried(H)'
  BY <1>1 DEF Carried
<1>5. Ordered(H, Lone)'
  BY <1>1 DEF Lone
<1> QED
  BY <1>2, <1>3, <1>4, <1>5 DEF Flow

\* What is for the node, or in a queue for what is, may go to its queues.
LEMMA ProperMoves ==
  ASSUME NEW S, NEW i \in Node, NEW q \in Queue, NEW d \in Queue,
         NEW p \in Seq(Proper(QueueBox(q, i), S)),
         \/ d = "batch"
         \/ q \in {"decoded", "inbound"}
         \/ \A k \in 1..Len(p) : p[k].to = i
  PROVE  p \in Seq(Proper(QueueBox(d, i), S))
<1>1. PICK X, Y : X = Proper(QueueBox(q, i), S) /\ Y = Proper(QueueBox(d, i), S)
  OBVIOUS
<1>2. p \in Seq(X) /\ \A k \in 1..Len(p) : p[k] \in X
  BY <1>1
<1>3. /\ QueueBox(q, i)[1] = q /\ QueueBox(q, i)[3] = i
      /\ QueueBox(d, i)[1] = d /\ QueueBox(d, i)[3] = i
  BY DEF QueueBox
<1>4. \A m : m \in X <=> m \in S /\ (q \in {"outbound", "batch"} \/ m.to = i)
  BY <1>1, <1>3 DEF Proper
<1>5. \A m : m \in Y <=> m \in S /\ (d \in {"outbound", "batch"} \/ m.to = i)
  BY <1>1, <1>3 DEF Proper
<1>6. ASSUME NEW k \in 1..Len(p) PROVE p[k] \in Y
  BY <1>2, <1>4, <1>5, Zenon
<1>7. p \in Seq(Y)
  BY <1>2, <1>6
<1> QED
  BY <1>1, <1>7

\* Messages move from one queue of a node to another.
LEMMA FlowMoved ==
  ASSUME Types, Flow, NEW i \in Node, NEW q \in Queue, NEW d \in Queue, q # d,
         NEW p \in Seq(Message), NEW r \in Seq(Message),
         Passes(q, d, i, p),
         QueueOf(q)[i] = p \o r,
         OnlyQueues({q, d}, i), QueueOf(q)'[i] = r, QueueOf(d)'[i] = QueueOf(d)[i] \o p
  PROVE  Flow'
<1>1. PICK H : Once(H, SentSoFar) /\ Queued(H) /\ Carried(H) /\ Ordered(H, Lone)
  BY DEF Flow
<1>2. PICK S : S = SentSoFar /\ S = SentSoFar'
  BY DEF OnlyQueues, SentSoFar
<1>3. p \in Seq(Proper(QueueBox(q, i), S)) /\ r \in Seq(Proper(QueueBox(q, i), S))
  <2>1. p \o r \in Seq(Proper(QueueBox(q, i), S))
    BY <1>2, QueueTypes
  <2> QED
    BY <2>1, Pieces
<1>4. p \in Seq(Proper(QueueBox(d, i), S))
  BY <1>3, ProperMoves DEF Passes
<1>5. Once(H, S) /\ H[QueueBox(q, i)] = p \o r
  BY <1>1, <1>2, QueuesHeld
<1>6. PICK G : QueueMove(G, H, S, i, q, d, p, r)
  BY <1>3, <1>4, <1>5, QueueMoves, Zenon
<1>7. /\ Once(G, S) /\ ButQueues(G, H, {q, d}, i)
      /\ G[QueueBox(q, i)] = r /\ G[QueueBox(d, i)] = H[QueueBox(d, i)] \o p
  BY <1>6 DEF QueueMove
<1>8. Queued(G)'
  <2>1. ASSUME NEW e \in Queue, NEW j \in Node PROVE G[QueueBox(e, j)] = QueueOf(e)'[j]
    <3>1. \A z \in Queue, x \in Node : H[QueueBox(z, x)] = QueueOf(z)[x]
      BY <1>1, QueuesHeld
    <3>2. CASE e \notin {q, d} \/ j # i
      <4>1. G[QueueBox(e, j)] = H[QueueBox(e, j)]
        BY <1>7, <3>2 DEF ButQueues
      <4>2. QueueOf(e)'[j] = QueueOf(e)[j]
        BY <3>2 DEF OnlyQueues
      <4> QED
        BY <3>1, <4>1, <4>2
    <3>3. CASE j = i /\ e = q
      BY <1>7, <3>3
    <3>4. CASE j = i /\ e = d
      BY <1>7, <3>1, <3>4
    <3> QED
      BY <3>2, <3>3, <3>4
  <2> QED
    BY <2>1, QueuesHeld
<1>9. Carried(G)'
  BY <1>1, <1>7, CarriedKept DEF OnlyQueues
<1>10. Ordered(G, Lone)'
  <2>1. Moves(G, H, S, QueueBox(q, i), QueueBox(d, i), p, r)
    BY <1>6 DEF QueueMove
  <2>2. Ordered(G, Lone)
    BY <1>1, <1>3, <1>4, <1>5, <2>1, OrderedQueueMove
  <2>3. Lone' = Lone
    BY DEF OnlyQueues, Lone
  <2> QED
    BY <2>2, <2>3
<1> QED
  BY <1>2, <1>7, <1>8, <1>9, <1>10 DEF Flow

\* Messages at the front of a queue are dropped.
LEMMA FlowDropped ==
  ASSUME Types, Flow, NEW i \in Node, NEW q \in Queue,
         NEW p \in Seq(Message), NEW r \in Seq(Message), QueueOf(q)[i] = p \o r,
         OnlyQueues({q}, i), QueueOf(q)'[i] = r
  PROVE  Flow'
<1>1. PICK H : Once(H, SentSoFar) /\ Queued(H) /\ Carried(H) /\ Ordered(H, Lone)
  BY DEF Flow
<1>2. PICK S : S = SentSoFar /\ S = SentSoFar'
  BY DEF OnlyQueues, SentSoFar
<1>3. p \in Seq(Proper(QueueBox(q, i), S)) /\ r \in Seq(Proper(QueueBox(q, i), S))
  <2>1. p \o r \in Seq(Proper(QueueBox(q, i), S))
    BY <1>2, QueueTypes
  <2> QED
    BY <2>1, Pieces
<1>4. p \in Seq(S)
  <2>1. Proper(QueueBox(q, i), S) \subseteq S
    BY DEF Proper
  <2> QED
    BY <1>3, <2>1
<1>5. Once(H, S) /\ H[QueueBox(q, i)] = p \o r
  BY <1>1, <1>2, QueuesHeld
<1>6. PICK G : QueueDrop(G, H, S, i, q, r)
  BY <1>3, <1>4, <1>5, QueueDrops, Zenon
<1>7. Once(G, S) /\ ButQueues(G, H, {q}, i) /\ G[QueueBox(q, i)] = r
  BY <1>6 DEF QueueDrop
<1>8. Queued(G)'
  <2>1. ASSUME NEW e \in Queue, NEW j \in Node PROVE G[QueueBox(e, j)] = QueueOf(e)'[j]
    <3>1. \A z \in Queue, x \in Node : H[QueueBox(z, x)] = QueueOf(z)[x]
      BY <1>1, QueuesHeld
    <3>2. CASE e \notin {q} \/ j # i
      <4>1. G[QueueBox(e, j)] = H[QueueBox(e, j)]
        BY <1>7, <3>2 DEF ButQueues
      <4>2. QueueOf(e)'[j] = QueueOf(e)[j]
        BY <3>2 DEF OnlyQueues
      <4> QED
        BY <3>1, <4>1, <4>2
    <3>3. CASE j = i /\ e = q
      BY <1>7, <3>3
    <3> QED
      BY <3>2, <3>3
  <2> QED
    BY <2>1, QueuesHeld
<1>9. Carried(G)'
  BY <1>1, <1>7, CarriedKept DEF OnlyQueues
<1>10. Ordered(G, Lone)'
  <2>1. Shortens(G, H, S, QueueBox(q, i), r)
    BY <1>6 DEF QueueDrop
  <2>2. Ordered(G, Lone)
    BY <1>1, <1>3, <1>4, <1>5, <2>1, OrderedDrop
  <2>3. Lone' = Lone
    BY DEF OnlyQueues, Lone
  <2> QED
    BY <2>2, <2>3
<1> QED
  BY <1>2, <1>7, <1>8, <1>9, <1>10 DEF Flow

\* The first message of the batch, and the others.
LEMMA BatchHead ==
  ASSUME TInv, NEW i \in Node, batch[i] # <<>>
  PROVE  /\ Head(batch[i]) \in Message /\ Tail(batch[i]) \in Seq(Message)
         /\ <<Head(batch[i])>> \in Seq(Message)
         /\ batch[i] = <<Head(batch[i])>> \o Tail(batch[i])
<1>1. Types /\ Flow /\ "batch" \in Queue
  BY DEF TInv, Queue
<1>2. QueueOf("batch")[i] \in Seq(Message)
  BY <1>1, QueueTypes
<1>3. batch[i] \in Seq(Message)
  BY <1>2 DEF QueueOf
<1> QED
  BY <1>3, HeadTail

\* A message is discarded, or its connection cannot be made.
LEMMA DropInv ==
  ASSUME TInv, NEW i \in Node, Discard(i) \/ \E j \in Node : ConnectFails(i, j)
  PROVE  TInv'
<1>1. Types /\ Served /\ Linked /\ Flow
  BY DEF TInv
<1>2. /\ batch[i] # <<>> /\ batch' = [batch EXCEPT ![i] = Tail(@)]
      /\ failed' \subseteq failed \cup Channel
      /\ UNCHANGED <<mainVars, outbound, inbound, crashed, running,
                     at, ready, serving, decoded, tcpVars>>
  BY DEF Discard, ConnectFails, Sending, Channel
<1>3. /\ OnNodes(batch)' /\ batch'[i] = Tail(batch[i])
      /\ \A j \in Node \ {i} : batch'[j] = batch[j]
  BY <1>1, <1>2 DEF Types, OnNodes
<1>4. Types'
  BY <1>1, <1>2, <1>3 DEF Types, OnNodes, mainVars, tcpVars
<1>5. Served'
  BY <1>1, <1>2, <1>3 DEF Served, tcpVars
<1>6. Linked'
  BY <1>1, <1>2 DEF Linked, tcpVars
<1>7. Flow'
  <2>1. PICK p, r : p = <<Head(batch[i])>> /\ r = Tail(batch[i])
    OBVIOUS
  <2>2. p \in Seq(Message) /\ r \in Seq(Message) /\ batch[i] = p \o r
    BY <1>2, <2>1, BatchHead
  <2>3. OnlyQueues({"batch"}, i) /\ "batch" \in Queue
    BY <1>2, <1>3 DEF OnlyQueues, Queue, QueueOf, mainVars, tcpVars
  <2>4. QueueOf("batch")[i] = p \o r /\ QueueOf("batch")'[i] = r
    BY <1>3, <2>1, <2>2 DEF QueueOf
  <2> QED
    BY <1>1, <2>2, <2>3, <2>4, FlowDropped
<1> QED
  BY <1>4, <1>5, <1>6, <1>7 DEF TInv

\* A message to the node itself goes to its inbound queue.
LEMMA LoopbackInv ==
  ASSUME TInv, NEW i \in Node, Loopback(i)
  PROVE  TInv'
<1>1. Types /\ Served /\ Linked /\ Flow
  BY DEF TInv
<1>2. /\ batch[i] # <<>> /\ Head(batch[i]).to = i
      /\ inbound' = [inbound EXCEPT ![i] = Append(@, Head(batch[i]))]
      /\ batch' = [batch EXCEPT ![i] = Tail(@)]
      /\ UNCHANGED <<mainVars, outbound, crashed, running,
                     at, ready, serving, decoded, tcpVars, failed>>
  BY DEF Loopback
<1>3. /\ OnNodes(batch)' /\ OnNodes(inbound)'
      /\ batch'[i] = Tail(batch[i]) /\ inbound'[i] = Append(inbound[i], Head(batch[i]))
      /\ \A j \in Node \ {i} : batch'[j] = batch[j] /\ inbound'[j] = inbound[j]
  BY <1>1, <1>2 DEF Types, OnNodes
<1>4. Types'
  BY <1>1, <1>2, <1>3 DEF Types, OnNodes, mainVars, tcpVars
<1>5. Served'
  BY <1>1, <1>2, <1>3 DEF Served, tcpVars
<1>6. Linked'
  BY <1>1, <1>2 DEF Linked, tcpVars
<1>7. Flow'
  <2>1. PICK p, r : p = <<Head(batch[i])>> /\ r = Tail(batch[i])
    OBVIOUS
  <2>2. p \in Seq(Message) /\ r \in Seq(Message) /\ batch[i] = p \o r
    BY <1>2, <2>1, BatchHead
  <2>3. OnlyQueues({"batch", "inbound"}, i)
    BY <1>2, <1>3 DEF OnlyQueues, Queue, QueueOf, mainVars, tcpVars
  <2>4. "inbound" \in Queue /\ "batch" \in Queue /\ "batch" # "inbound"
    BY DEF Queue
  <2>5. QueueOf("batch")[i] = p \o r /\ QueueOf("batch")'[i] = r
    BY <1>3, <2>1, <2>2 DEF QueueOf
  <2>6. QueueOf("inbound")'[i] = QueueOf("inbound")[i] \o p
    <3>1. QueueOf("inbound")[i] \in Seq(Message)
      BY <1>1, <2>4, QueueTypes
    <3>2. inbound[i] \in Seq(Message)
      BY <3>1 DEF QueueOf
    <3>3. Head(batch[i]) \in Message
      BY <1>2, BatchHead
    <3>4. inbound'[i] = inbound[i] \o p
      BY <1>3, <2>1, <3>2, <3>3
    <3> QED
      BY <3>4 DEF QueueOf
  <2>7. Passes("batch", "inbound", i, p)
    BY <1>2, <2>1 DEF Passes
  <2> QED
    BY <1>1, <2>2, <2>3, <2>4, <2>5, <2>6, <2>7, FlowMoved
<1> QED
  BY <1>4, <1>5, <1>6, <1>7 DEF TInv

\* What was decoded goes to the inbound queue.
LEMMA PushInv ==
  ASSUME TInv, NEW i \in Node, PushDecoded(i)
  PROVE  TInv'
<1>1. Types /\ Served /\ Linked /\ Flow
  BY DEF TInv
<1>2. /\ serving[i] # <<>>
      /\ inbound' = [inbound EXCEPT ![i] = @ \o decoded[i]]
      /\ decoded' = [decoded EXCEPT ![i] = <<>>]
      /\ serving' = [serving EXCEPT ![i] = <<>>]
      /\ at' = [at EXCEPT ![i] = AfterServing(i, ready[i])]
      /\ UNCHANGED <<mainVars, outbound, crashed, running, batch, ready, tcpVars, failed>>
  BY DEF PushDecoded
<1>3. /\ OnNodes(decoded)' /\ OnNodes(inbound)' /\ OnNodes(serving)'
      /\ decoded'[i] = <<>> /\ inbound'[i] = inbound[i] \o decoded[i] /\ serving'[i] = <<>>
      /\ \A j \in Node \ {i} : decoded'[j] = decoded[j] /\ inbound'[j] = inbound[j]
                               /\ serving'[j] = serving[j]
  BY <1>1, <1>2 DEF Types, OnNodes
<1>4. /\ at' \in [Node -> {"top", "sending", "serving", "ended"}]
      /\ \A j \in Node \ {i} : at'[j] = at[j]
  BY <1>1, <1>2 DEF Types, AfterServing
<1>5. Types'
  BY <1>1, <1>2, <1>3, <1>4 DEF Types, OnNodes, mainVars, tcpVars
<1>6. Served'
  <2>1. batch[i] = <<>>
    BY <1>1, <1>2 DEF Served
  <2> QED
    BY <1>1, <1>2, <1>3, <1>4, <2>1 DEF Served, tcpVars
<1>7. Linked'
  BY <1>1, <1>2 DEF Linked, tcpVars
<1>8. Flow'
  <2>1. PICK p, r : p = decoded[i] /\ r = <<>>
    OBVIOUS
  <2>2. "decoded" \in Queue /\ "inbound" \in Queue /\ "decoded" # "inbound"
    BY DEF Queue
  <2>3. p \in Seq(Message)
    <3>1. QueueOf("decoded")[i] \in Seq(Message)
      BY <1>1, <2>2, QueueTypes
    <3> QED
      BY <2>1, <3>1 DEF QueueOf
  <2>4. r \in Seq(Message) /\ p \o r = p
    BY <2>1, <2>3
  <2>5. OnlyQueues({"decoded", "inbound"}, i)
    BY <1>2, <1>3 DEF OnlyQueues, Queue, QueueOf, mainVars, tcpVars
  <2>6. /\ QueueOf("decoded")[i] = p \o r /\ QueueOf("decoded")'[i] = r
        /\ QueueOf("inbound")'[i] = QueueOf("inbound")[i] \o p
    BY <1>3, <2>1, <2>4 DEF QueueOf
  <2> QED
    BY <1>1, <2>2, <2>3, <2>4, <2>5, <2>6, FlowMoved DEF Passes
<1> QED
  BY <1>5, <1>6, <1>7, <1>8 DEF TInv

\* pump_inbound hands over the inbound queue.
LEMMA PumpInv ==
  ASSUME TInv, NEW i \in Node, PumpInbound(i)
  PROVE  TInv'
<1>1. Types /\ Served /\ Linked /\ Flow
  BY DEF TInv
<1>2. /\ handed' = [handed EXCEPT ![i] = @ \o inbound[i]]
      /\ inbound' = [inbound EXCEPT ![i] = <<>>]
      /\ UNCHANGED <<sent, outbound, crashed, running, ioVars, tcpVars, failed>>
  BY DEF PumpInbound
<1>3. /\ OnNodes(handed)' /\ OnNodes(inbound)'
      /\ handed'[i] = handed[i] \o inbound[i] /\ inbound'[i] = <<>>
      /\ \A j \in Node \ {i} : handed'[j] = handed[j] /\ inbound'[j] = inbound[j]
  BY <1>1, <1>2 DEF Types, OnNodes
<1>4. Types'
  BY <1>1, <1>2, <1>3 DEF Types, OnNodes, ioVars, tcpVars
<1>5. Served'
  BY <1>1, <1>2 DEF Served, ioVars, tcpVars
<1>6. Linked'
  BY <1>1, <1>2 DEF Linked, tcpVars
<1>7. Flow'
  <2>1. PICK p, r : p = inbound[i] /\ r = <<>>
    OBVIOUS
  <2>2. "inbound" \in Queue /\ "handed" \in Queue /\ "inbound" # "handed"
    BY DEF Queue
  <2>3. p \in Seq(Message)
    <3>1. QueueOf("inbound")[i] \in Seq(Message)
      BY <1>1, <2>2, QueueTypes
    <3> QED
      BY <2>1, <3>1 DEF QueueOf
  <2>4. r \in Seq(Message) /\ p \o r = p
    BY <2>1, <2>3
  <2>5. OnlyQueues({"inbound", "handed"}, i)
    BY <1>2, <1>3 DEF OnlyQueues, Queue, QueueOf, ioVars, tcpVars
  <2>6. /\ QueueOf("inbound")[i] = p \o r /\ QueueOf("inbound")'[i] = r
        /\ QueueOf("handed")'[i] = QueueOf("handed")[i] \o p
    BY <1>3, <2>1, <2>4 DEF QueueOf
  <2> QED
    BY <1>1, <2>2, <2>3, <2>4, <2>5, <2>6, FlowMoved DEF Passes
<1> QED
  BY <1>4, <1>5, <1>6, <1>7 DEF TInv

\* The io thread takes the outbound queue over.
LEMMA TakeInv ==
  ASSUME TInv, NEW i \in Node, TakeOutbound(i)
  PROVE  TInv'
<1>1. Types /\ Served /\ Linked /\ Flow
  BY DEF TInv
<1>2. /\ at[i] = "top" /\ at' = [at EXCEPT ![i] = "sending"]
      /\ batch' = [batch EXCEPT ![i] = outbound[i]]
      /\ outbound' = [outbound EXCEPT ![i] = <<>>]
      /\ UNCHANGED <<mainVars, inbound, crashed, running, ready, serving, decoded, tcpVars, failed>>
  BY DEF TakeOutbound
<1>3. /\ OnNodes(batch)' /\ OnNodes(outbound)'
      /\ batch'[i] = outbound[i] /\ outbound'[i] = <<>>
      /\ \A j \in Node \ {i} : batch'[j] = batch[j] /\ outbound'[j] = outbound[j]
  BY <1>1, <1>2 DEF Types, OnNodes
<1>4. /\ at' \in [Node -> {"top", "sending", "serving", "ended"}] /\ at'[i] = "sending"
      /\ \A j \in Node \ {i} : at'[j] = at[j]
  BY <1>1, <1>2 DEF Types
<1>5. Types'
  BY <1>1, <1>2, <1>3, <1>4 DEF Types, OnNodes, mainVars, tcpVars
<1>6. Served'
  BY <1>1, <1>2, <1>3, <1>4 DEF Served, tcpVars
<1>7. Linked'
  BY <1>1, <1>2 DEF Linked, tcpVars
<1>8. Flow'
  <2>1. PICK p, r : p = outbound[i] /\ r = <<>>
    OBVIOUS
  <2>2. "outbound" \in Queue /\ "batch" \in Queue /\ "outbound" # "batch"
    BY DEF Queue
  <2>3. p \in Seq(Message)
    <3>1. QueueOf("outbound")[i] \in Seq(Message)
      BY <1>1, <2>2, QueueTypes
    <3> QED
      BY <2>1, <3>1 DEF QueueOf
  <2>4. r \in Seq(Message) /\ p \o r = p /\ <<>> \o p = p
    BY <2>1, <2>3
  <2>5. OnlyQueues({"outbound", "batch"}, i)
    BY <1>2, <1>3 DEF OnlyQueues, Queue, QueueOf, mainVars, tcpVars
  <2>6. batch[i] = <<>>
    BY <1>1, <1>2 DEF Served
  <2>7. /\ QueueOf("outbound")[i] = p \o r /\ QueueOf("outbound")'[i] = r
        /\ QueueOf("batch")'[i] = QueueOf("batch")[i] \o p
    BY <1>3, <2>1, <2>4, <2>6 DEF QueueOf
  <2> QED
    BY <1>1, <2>2, <2>3, <2>4, <2>5, <2>7, FlowMoved DEF Passes
<1> QED
  BY <1>5, <1>6, <1>7, <1>8 DEF TInv

\* Steps that touch neither queues nor connections.
LEMMA MainInv ==
  ASSUME TInv, NEW i \in Node, Crash(i) \/ Restore(i) \/ Stop(i) \/ SelectTimesOut(i)
  PROVE  TInv'
<1>1. Types /\ Served /\ Linked /\ Flow
  BY DEF TInv
<1>2. UNCHANGED <<mainVars, outbound, inbound, batch, ready, serving, decoded, tcpVars>>
  BY DEF Crash, Restore, Stop, SelectTimesOut, ioVars
<1>3. Types'
  <2>1. crashed' \in [Node -> BOOLEAN] /\ running' \in [Node -> BOOLEAN]
    BY <1>1 DEF Types, Crash, Restore, Stop, SelectTimesOut
  <2>2. at' \in [Node -> {"top", "sending", "serving", "ended"}]
    BY <1>1 DEF Types, Crash, Restore, Stop, SelectTimesOut, ioVars
  <2>3. failed' \subseteq Channel
    BY <1>1 DEF Types, Crash, Restore, Stop, SelectTimesOut, Touching
  <2> QED
    BY <1>1, <1>2, <2>1, <2>2, <2>3 DEF Types, OnNodes, mainVars, tcpVars
<1>4. Served'
  <2>1. \A j \in Node : at'[j] = at[j] \/ (batch[j] = <<>> /\ at[j] = "sending" /\ j = i)
    <3>1. CASE Crash(i) \/ Restore(i) \/ Stop(i)
      <4>1. at' = at
        BY <3>1 DEF Crash, Restore, Stop, ioVars
      <4> QED
        BY <4>1
    <3>2. CASE SelectTimesOut(i)
      <4>1. at[i] = "sending" /\ batch[i] = <<>> /\ at' = [at EXCEPT ![i] = "top"]
        BY <3>2 DEF SelectTimesOut
      <4>2. at \in [Node -> {"top", "sending", "serving", "ended"}]
        BY <1>1 DEF Types
      <4>3. \A j \in Node : j # i => at'[j] = at[j]
        BY <4>1, <4>2
      <4> QED
        BY <4>1, <4>3
    <3> QED
      BY <3>1, <3>2
  <2> QED
    BY <1>1, <1>2, <2>1 DEF Served, tcpVars
<1>5. Linked'
  BY <1>1, <1>2 DEF Linked, tcpVars
<1>6. Flow'
  <2>1. \A e \in Queue, j \in Node : QueueOf(e)'[j] = QueueOf(e)[j]
    BY <1>2 DEF Queue, QueueOf, mainVars
  <2> QED
    BY <1>1, <1>2, <2>1, FlowKept DEF mainVars, tcpVars
<1> QED
  BY <1>3, <1>4, <1>5, <1>6 DEF TInv

-----------------------------------------------------------------------------
(* The steps that touch connections.                                       *)

\* What is in a connection is for its receiver.
LEMMA ConnTypes ==
  ASSUME Types, NEW H, Once(H, SentSoFar), Carried(H), NEW c \in Channel, NEW n \in Nat \ {0}
  PROVE  /\ Holds(View(conns, c, n), H[ConnBox(c, n)])
         /\ H[ConnBox(c, n)] \in Seq(Proper(ConnBox(c, n), SentSoFar))
         /\ H[ConnBox(c, n)] \in Seq(Addressed)
         /\ \A m : m \in Proper(ConnBox(c, n), SentSoFar) <=> m \in SentSoFar /\ m.to = c[2]
<1>1. Holds(View(conns, c, n), H[ConnBox(c, n)])
  BY DEF Carried
<1>2. PICK X, p : X = Proper(ConnBox(c, n), SentSoFar) /\ p = H[ConnBox(c, n)]
  OBVIOUS
<1>3. p \in Seq(X)
  BY <1>2, Boxes DEF Once
<1>4. ConnBox(c, n)[1] = "conn" /\ ConnBox(c, n)[3] = c[2]
  BY DEF ConnBox
<1>5. \A m : m \in X <=> m \in SentSoFar /\ m.to = c[2]
  BY <1>2, <1>4 DEF Proper
<1>6. SentSoFar \subseteq Message
  BY SentPlaces DEF Types, SentSoFar
<1>7. c[2] \in Node
  BY DEF Channel
<1>8. X \subseteq Addressed
  BY <1>5, <1>6, <1>7 DEF Addressed
<1>9. p \in Seq(Addressed)
  BY <1>3, <1>8
<1> QED
  BY <1>1, <1>2, <1>3, <1>5, <1>9

\* One connection becomes k, and G is what the boxes hold then.
LEMMA FlowSet ==
  ASSUME NEW H, Carried(H), NEW c \in Channel, NEW n, NEW k, Becomes(conns, conns', c, n, k),
         NEW G, Once(G, SentSoFar)', Queued(G)', Ordered(G, Lone)', Holds(k, G[ConnBox(c, n)]),
         \A d \in Channel, x \in Nat : d # c \/ x # n => G[ConnBox(d, x)] = H[ConnBox(d, x)]
  PROVE  Flow'
<1>1. ASSUME NEW d \in Channel, NEW x \in Nat \ {0}
      PROVE  Holds(View(conns', d, x), G[ConnBox(d, x)])
  <2>1. CASE d = c /\ x = n
    <3>1. View(conns', d, x) = k
      BY <2>1 DEF Becomes
    <3> QED
      BY <2>1, <3>1
  <2>2. CASE d # c \/ x # n
    <3>1. View(conns', d, x) = View(conns, d, x)
      BY <2>2 DEF Becomes
    <3>2. G[ConnBox(d, x)] = H[ConnBox(d, x)]
      BY <2>2
    <3> QED
      BY <3>1, <3>2 DEF Carried
  <2> QED
    BY <2>1, <2>2
<1>2. Carried(G)'
  BY <1>1 DEF Carried
<1> QED
  BY <1>2 DEF Flow

\* All queues but one stay as they are.
LEMMA QueuedBut ==
  ASSUME NEW H, Queued(H), NEW G, NEW q \in Queue, NEW i \in Node,
         \A e \in Queue, j \in Node : e # q \/ j # i =>
           G[QueueBox(e, j)] = H[QueueBox(e, j)] /\ QueueOf(e)'[j] = QueueOf(e)[j],
         G[QueueBox(q, i)] = QueueOf(q)'[i]
  PROVE  Queued(G)'
<1>1. ASSUME NEW e \in Queue, NEW j \in Node PROVE G[QueueBox(e, j)] = QueueOf(e)'[j]
  <2>1. H[QueueBox(e, j)] = QueueOf(e)[j]
    BY QueuesHeld
  <2>2. CASE e # q \/ j # i
    BY <2>1, <2>2
  <2>3. CASE e = q /\ j = i
    BY <2>3
  <2> QED
    BY <2>2, <2>3
<1> QED
  BY <1>1, QueuesHeld

\* What is seen of a connection is a connection.
LEMMA ViewTypes ==
  ASSUME NEW f \in Connections, NEW c \in Channel, NEW n
  PROVE  View(f, c, n) \in Connection
<1>1. f[c] \in Seq(Connection)
  BY DEF Connections
<1>2. n \in DOMAIN f[c] => f[c][n] \in Connection
  BY <1>1
<1> QED
  BY <1>2, NewConnectionFields DEF View

\* The connection a node writes to is open, new or not.
LEMMA NumberView ==
  ASSUME Types, Linked, NEW i \in Node, NEW j \in Node
  PROVE  /\ Number(i, j) \in Nat \ {0}
         /\ Connected(i, j)[Number(i, j)] = View(conns, <<i, j>>, Number(i, j))
         /\ View(conns, <<i, j>>, Number(i, j)) \in Connection
         /\ View(conns, <<i, j>>, Number(i, j)).open = TRUE
<1>1. PICK c \in Channel : c = <<i, j>>
  BY DEF Channel
<1>2. conns \in Connections /\ conns[c] \in Seq(Connection)
  BY DEF Types, Connections
<1>3. PICK l \in Nat : l = link[i][j]
  BY DEF Types
<1>4. PICK n : n = Number(i, j)
  OBVIOUS
<1>5. CASE l = 0
  <2>1. PICK w \in Nat : w = Len(conns[c])
    BY <1>2
  <2>2. n = w + 1 /\ Connected(i, j) = Append(conns[c], NewConnection)
    BY <1>1, <1>3, <1>4, <1>5, <2>1 DEF Number, Connected
  <2>3. Connected(i, j)[n] = NewConnection /\ n \notin DOMAIN conns[c] /\ n \in Nat \ {0}
    BY <1>2, <2>1, <2>2
  <2>4. View(conns, c, n) = NewConnection
    BY <2>3 DEF View
  <2> QED
    BY <1>1, <1>4, <2>3, <2>4, NewConnectionFields
<1>6. CASE l # 0
  <2>1. n = l /\ Connected(i, j) = conns[c]
    BY <1>1, <1>3, <1>4, <1>6 DEF Number, Connected
  <2>2. n \in DOMAIN conns[c] /\ View(conns, c, n).open
    BY <1>1, <1>3, <1>6, <2>1 DEF Linked
  <2>3. Connected(i, j)[n] = View(conns, c, n)
    BY <2>1, <2>2 DEF View
  <2>4. View(conns, c, n) \in Connection
    BY <1>2, ViewTypes
  <2>5. View(conns, c, n).open = TRUE
    BY <2>2, <2>4 DEF Connection
  <2> QED
    BY <1>1, <1>4, <1>6, <2>1, <2>3, <2>4, <2>5
<1> QED
  BY <1>5, <1>6

\* Changing the connection a node writes to changes just that one.
LEMMA NumberSet ==
  ASSUME Types, Linked, NEW i \in Node, NEW j \in Node, NEW k \in Connection,
         Sets(conns, conns', <<i, j>>, Connected(i, j), Number(i, j), k)
  PROVE  Becomes(conns, conns', <<i, j>>, Number(i, j), k)
<1>1. PICK c \in Channel : c = <<i, j>>
  BY DEF Channel
<1>2. conns \in Connections
  BY DEF Types
<1>3. PICK l \in Nat : l = link[i][j]
  BY DEF Types
<1>4. l = 0 \/ l \in DOMAIN conns[c]
  BY <1>1, <1>3 DEF Linked
<1>5. PICK p, n : p = Connected(i, j) /\ n = Number(i, j)
  OBVIOUS
<1>6. /\ l # 0 => p = conns[c] /\ n = l
      /\ l = 0 => p = Append(conns[c], NewConnection) /\ n = Len(conns[c]) + 1
  BY <1>1, <1>3, <1>5 DEF Connected, Number
<1>7. Sets(conns, conns', c, p, n, k)
  BY <1>1, <1>5
<1>8. Becomes(conns, conns', c, n, k)
  BY <1>2, <1>4, <1>6, <1>7, ViewConnected
<1> QED
  BY <1>1, <1>5, <1>8

\* What the io threads serve and write to is not changed by what a step does
\* to one connection.
LEMMA ServedKept ==
  ASSUME Types, Served, NEW c \in Channel, NEW n, NEW k, Becomes(conns, conns', c, n, k),
         k.receiver = View(conns, c, n).receiver,
         at' = at, ready' = ready, serving' = serving,
         \A j \in Node : batch'[j] # <<>> => batch[j] # <<>>,
         \A j \in Node : decoded'[j] # <<>> => serving[j] # <<>>
  PROVE  Served'
<1>1. \A d \in Channel, x \in Nat : View(conns', d, x).receiver = View(conns, d, x).receiver
  BY DEF Becomes
<1>2. ASSUME NEW j \in Node, NEW y \in ready[j]
      PROVE  View(conns', <<y[1], j>>, y[2]).receiver = "open"
  <2>1. y[1] \in Node /\ y[2] \in Nat
    BY DEF Types
  <2>2. <<y[1], j>> \in Channel
    BY <2>1 DEF Channel
  <2>3. View(conns, <<y[1], j>>, y[2]).receiver = "open"
    BY DEF Served
  <2> QED
    BY <1>1, <2>1, <2>2, <2>3
<1>3. ASSUME NEW j \in Node, serving[j] # <<>>
      PROVE  /\ at[j] = "serving" /\ serving[j] \in (Node \X Nat) \ ready[j]
             /\ View(conns', <<serving[j][1], j>>, serving[j][2]).receiver = "open"
  <2>1. /\ at[j] = "serving" /\ serving[j] \in (Node \X Nat) \ ready[j]
        /\ View(conns, <<serving[j][1], j>>, serving[j][2]).receiver = "open"
    BY <1>3 DEF Served
  <2>2. serving[j][1] \in Node /\ serving[j][2] \in Nat
    BY <2>1
  <2>3. <<serving[j][1], j>> \in Channel
    BY <2>2 DEF Channel
  <2> QED
    BY <1>1, <2>1, <2>2, <2>3
<1>4. \A j \in Node : batch'[j] # <<>> => at[j] = "sending"
  BY DEF Served
<1> QED
  BY <1>2, <1>3, <1>4 DEF Served

\* A connection that is changed stays open if it was.
LEMMA LinkedKept ==
  ASSUME Types, Linked, NEW c \in Channel, NEW n, NEW k, Becomes(conns, conns', c, n, k),
         View(conns, c, n).open => k.open, link' = link
  PROVE  Linked'
<1>1. ASSUME NEW i \in Node, NEW j \in Node, link[i][j] # 0
      PROVE  link[i][j] \in DOMAIN conns'[<<i, j>>] /\ View(conns', <<i, j>>, link[i][j]).open
  <2>1. <<i, j>> \in Channel /\ link[i][j] \in Nat
    BY DEF Types, Channel
  <2>2. link[i][j] \in DOMAIN conns[<<i, j>>] /\ View(conns, <<i, j>>, link[i][j]).open
    BY <1>1 DEF Linked
  <2> QED
    BY <2>1, <2>2 DEF Becomes
<1> QED
  BY <1>1 DEF Linked

\* A connection becomes the one to write to, or there is none.
LEMMA LinkedSet ==
  ASSUME Types, Linked, NEW i \in Node, NEW j \in Node, NEW n, NEW k,
         Becomes(conns, conns', <<i, j>>, n, k),
         NEW x \in Nat, x = 0 \/ (x = n /\ k.open = TRUE), link' = [link EXCEPT ![i][j] = x]
  PROVE  Linked' /\ link' \in [Node -> [Node -> Nat]]
<1>1. link' \in [Node -> [Node -> Nat]] /\ link'[i][j] = x
      /\ \A a, b \in Node : a # i \/ b # j => link'[a][b] = link[a][b]
  BY DEF Types
<1>2. ASSUME NEW a \in Node, NEW b \in Node, link'[a][b] # 0
      PROVE  link'[a][b] \in DOMAIN conns'[<<a, b>>] /\ View(conns', <<a, b>>, link'[a][b]).open
  <2>1. CASE a = i /\ b = j
    <3>1. link'[a][b] = n /\ k.open = TRUE
      BY <1>1, <1>2, <2>1
    <3>2. n \in DOMAIN conns'[<<i, j>>] /\ View(conns', <<i, j>>, n) = k
      BY DEF Becomes
    <3> QED
      BY <2>1, <3>1, <3>2
  <2>2. CASE a # i \/ b # j
    <3>1. <<a, b>> \in Channel /\ link[a][b] \in Nat /\ <<a, b>> # <<i, j>>
      BY <2>2 DEF Types, Channel
    <3>2. link[a][b] # 0 /\ link'[a][b] = link[a][b]
      BY <1>1, <1>2, <2>2
    <3>3. link[a][b] \in DOMAIN conns[<<a, b>>] /\ View(conns, <<a, b>>, link[a][b]).open
      BY <3>2 DEF Linked
    <3> QED
      BY <3>1, <3>2, <3>3 DEF Becomes
  <2> QED
    BY <2>1, <2>2
<1> QED
  BY <1>1, <1>2 DEF Linked

\* The parts of a step that sends the message at the head of the batch.
LEMMA SendingParts ==
  ASSUME TInv, NEW i \in Node, NEW j \in Node, Sending(i, j)
  PROVE  /\ <<i, j>> \in Channel /\ batch[i] # <<>>
         /\ Head(batch[i]) \in Addressed /\ Head(batch[i]).to = j
         /\ FrameOf[Head(batch[i])] \in Seq(Nat)
<1>1. batch[i] # <<>> /\ Head(batch[i]).to = j
  BY DEF Sending
<1>2. Head(batch[i]) \in Message
  BY <1>1, BatchHead
<1>3. Head(batch[i]) \in Addressed
  BY <1>1, <1>2 DEF Addressed
<1> QED
  BY <1>1, <1>3, FramesKnown DEF Channel

\* The queues after the head of the batch has gone.
LEMMA BatchGone ==
  ASSUME TInv, NEW i \in Node, batch[i] # <<>>, batch' = [batch EXCEPT ![i] = Tail(@)],
         UNCHANGED <<mainVars, outbound, inbound, decoded>>
  PROVE  /\ OnNodes(batch)' /\ batch'[i] = Tail(batch[i])
         /\ \A j \in Node : batch'[j] # <<>> => batch[j] # <<>>
         /\ SentSoFar' = SentSoFar
         /\ \A e \in Queue, j \in Node : e # "batch" \/ j # i => QueueOf(e)'[j] = QueueOf(e)[j]
         /\ QueueOf("batch")'[i] = Tail(batch[i])
<1>1. OnNodes(batch)
  BY DEF TInv, Types
<1>2. /\ OnNodes(batch)' /\ batch'[i] = Tail(batch[i])
      /\ \A j \in Node \ {i} : batch'[j] = batch[j]
  BY <1>1 DEF OnNodes
<1>3. \A e \in Queue, j \in Node : e # "batch" \/ j # i => QueueOf(e)'[j] = QueueOf(e)[j]
  BY <1>2 DEF Queue, QueueOf, mainVars
<1>4. SentSoFar' = SentSoFar
  BY DEF SentSoFar, mainVars
<1>5. QueueOf("batch")'[i] = Tail(batch[i])
  BY <1>2 DEF QueueOf
<1>6. \A j \in Node : batch'[j] # <<>> => batch[j] # <<>>
  BY <1>2
<1> QED
  BY <1>2, <1>3, <1>4, <1>5, <1>6

\* The head of the batch is given up; the connection still holds what it held.
LEMMA FlowGivenUp ==
  ASSUME TInv, NEW i \in Node, batch[i] # <<>>, batch' = [batch EXCEPT ![i] = Tail(@)],
         UNCHANGED <<mainVars, outbound, inbound, decoded>>,
         NEW c \in Channel, NEW n \in Nat \ {0}, NEW k, Becomes(conns, conns', c, n, k),
         \A q \in Seq(Addressed) : Holds(View(conns, c, n), q) => Holds(k, q)
  PROVE  Flow'
<1>1. Types /\ Flow
  BY DEF TInv
<1>2. PICK H : Once(H, SentSoFar) /\ Queued(H) /\ Carried(H) /\ Ordered(H, Lone)
  BY <1>1 DEF Flow
<1>3. PICK S : S = SentSoFar /\ S = SentSoFar'
  BY BatchGone
<1>4. PICK m, r : m = Head(batch[i]) /\ r = Tail(batch[i])
  OBVIOUS
<1>5. batch[i] = <<m>> \o r /\ <<m>> \in Seq(Message) /\ r \in Seq(Message)
  BY <1>4, BatchHead
<1>6. "batch" \in Queue
  BY DEF Queue
<1>7. QueueOf("batch")[i] = <<m>> \o r
  BY <1>5 DEF QueueOf
<1>8. <<m>> \in Seq(Proper(QueueBox("batch", i), S)) /\ r \in Seq(Proper(QueueBox("batch", i), S))
  <2>1. <<m>> \o r \in Seq(Proper(QueueBox("batch", i), S))
    BY <1>1, <1>3, <1>6, <1>7, QueueTypes
  <2> QED
    BY <1>5, <2>1, Pieces
<1>9. <<m>> \in Seq(S)
  <2>1. Proper(QueueBox("batch", i), S) \subseteq S
    BY DEF Proper
  <2> QED
    BY <1>8, <2>1
<1>10. Once(H, S) /\ H[QueueBox("batch", i)] = <<m>> \o r
  BY <1>2, <1>3, <1>6, <1>7, QueuesHeld
<1>11. PICK G : QueueDrop(G, H, S, i, "batch", r)
  BY <1>6, <1>8, <1>9, <1>10, QueueDrops, Zenon
<1>12. Once(G, S) /\ ButQueues(G, H, {"batch"}, i) /\ G[QueueBox("batch", i)] = r
  BY <1>11 DEF QueueDrop
<1>13. Queued(G)'
  <2>1. \A e \in Queue, j \in Node : e # "batch" \/ j # i =>
          G[QueueBox(e, j)] = H[QueueBox(e, j)] /\ QueueOf(e)'[j] = QueueOf(e)[j]
    BY <1>12, BatchGone DEF ButQueues
  <2>2. G[QueueBox("batch", i)] = QueueOf("batch")'[i]
    BY <1>4, <1>12, BatchGone
  <2> QED
    BY <1>2, <1>6, <2>1, <2>2, QueuedBut
<1>14. \A d \in Channel, x \in Nat : G[ConnBox(d, x)] = H[ConnBox(d, x)]
  BY <1>12 DEF ButQueues
<1>15. Holds(k, G[ConnBox(c, n)])
  BY <1>1, <1>2, <1>14, ConnTypes
<1>16. Ordered(G, Lone)'
  <2>1. Shortens(G, H, S, QueueBox("batch", i), r)
    BY <1>11 DEF QueueDrop
  <2>2. Ordered(G, Lone)
    BY <1>2, <1>6, <1>8, <1>9, <1>10, <2>1, OrderedDrop
  <2> QED
    BY <1>1, <2>2, LoneBecomes, OrderedLess
<1> QED
  BY <1>2, <1>3, <1>12, <1>13, <1>14, <1>15, <1>16, FlowSet

\* If there is one connection only, no other holds anything.
LEMMA OthersEmpty ==
  ASSUME Types, NEW H, Once(H, SentSoFar), Carried(H), NEW c \in Channel, NEW n, NEW k,
         Becomes(conns, conns', c, n, k), c \in Lone'
  PROVE  \A x \in Nat \ {0} : x # n => H[ConnBox(c, x)] = <<>>
<1> SUFFICES ASSUME NEW x \in Nat \ {0}, x # n PROVE H[ConnBox(c, x)] = <<>>
  OBVIOUS
<1>1. PICK g : g = conns'[c]
  OBVIOUS
<1>2. g \in Seq(Connection) /\ n \in DOMAIN g /\ DOMAIN conns[c] \subseteq DOMAIN g
  BY <1>1 DEF Becomes, Connections
<1>3. Len(g) <= 1
  BY <1>1 DEF Lone
<1>4. x \notin DOMAIN g
  <2>1. DOMAIN g = 1..Len(g) /\ Len(g) \in Nat
    BY <1>2
  <2> QED
    BY <1>2, <1>3, <2>1
<1>5. View(conns, c, x) = NewConnection
  BY <1>2, <1>4 DEF View
<1>6. Holds(NewConnection, H[ConnBox(c, x)]) /\ H[ConnBox(c, x)] \in Seq(Addressed)
  BY <1>5, ConnTypes
<1> QED
  BY <1>6, HoldsNewOnly

\* The head of the batch goes to the end of a connection.
LEMMA FlowWritten ==
  ASSUME TInv, NEW i \in Node, batch[i] # <<>>, batch' = [batch EXCEPT ![i] = Tail(@)],
         UNCHANGED <<mainVars, outbound, inbound, decoded>>,
         NEW c \in Channel, c[1] = i, c[2] # i, c[2] = Head(batch[i]).to,
         NEW n \in Nat \ {0}, NEW k, Becomes(conns, conns', c, n, k),
         \A q \in Seq(Addressed) : Holds(View(conns, c, n), q) => Holds(k, Append(q, Head(batch[i])))
  PROVE  Flow'
<1>1. Types /\ Flow
  BY DEF TInv
<1>2. PICK H : Once(H, SentSoFar) /\ Queued(H) /\ Carried(H) /\ Ordered(H, Lone)
  BY <1>1 DEF Flow
<1>3. PICK S : S = SentSoFar /\ S = SentSoFar'
  BY BatchGone
<1>4. PICK m, r : m = Head(batch[i]) /\ r = Tail(batch[i])
  OBVIOUS
<1>5. batch[i] = <<m>> \o r /\ <<m>> \in Seq(Message) /\ r \in Seq(Message)
  BY <1>4, BatchHead
<1>6. "batch" \in Queue
  BY DEF Queue
<1>7. QueueOf("batch")[i] = <<m>> \o r
  BY <1>5 DEF QueueOf
<1>8. PICK a \in Box, b \in Box : a = QueueBox("batch", i) /\ b = ConnBox(c, n) /\ a # b
  <2>1. QueueBox("batch", i) \in Box /\ ConnBox(c, n) \in Box /\ QueueBox("batch", i) # ConnBox(c, n)
    BY <1>6, Boxes
  <2> QED
    BY <2>1, Zenon
<1>9. <<m>> \in Seq(Proper(a, S)) /\ r \in Seq(Proper(a, S))
  <2>1. <<m>> \o r \in Seq(Proper(a, S))
    BY <1>1, <1>3, <1>6, <1>7, <1>8, QueueTypes
  <2> QED
    BY <1>5, <2>1, Pieces
<1>10. <<m>> \in Seq(Proper(b, S))
  <2>1. m \in Proper(a, S)
    BY <1>9
  <2>2. m \in S /\ m.to = c[2]
    BY <1>4, <2>1 DEF Proper
  <2>3. m \in Proper(b, S)
    BY <1>1, <1>2, <1>3, <1>8, <2>2, ConnTypes
  <2> QED
    BY <2>3
<1>11. Once(H, S) /\ H[a] = <<m>> \o r
  BY <1>2, <1>3, <1>6, <1>7, <1>8, QueuesHeld
<1>12. PICK G : Moves(G, H, S, a, b, <<m>>, r)
  BY <1>8, <1>9, <1>10, <1>11, MovedTo, Zenon
<1>13. /\ Once(G, S) /\ G[a] = r /\ G[b] = H[b] \o <<m>>
       /\ \A z \in Box \ {a, b} : G[z] = H[z]
  BY <1>12 DEF Moves
<1>14. Queued(G)'
  <2>1. ASSUME NEW e \in Queue, NEW j \in Node, e # "batch" \/ j # i
        PROVE  G[QueueBox(e, j)] = H[QueueBox(e, j)] /\ QueueOf(e)'[j] = QueueOf(e)[j]
    <3>1. QueueBox(e, j) \in Box \ {a, b}
      BY <1>6, <1>8, <2>1, Boxes
    <3> QED
      BY <1>13, <2>1, <3>1, BatchGone
  <2>2. G[QueueBox("batch", i)] = QueueOf("batch")'[i]
    BY <1>4, <1>8, <1>13, BatchGone
  <2> QED
    BY <1>2, <1>6, <2>1, <2>2, QueuedBut
<1>15. ASSUME NEW d \in Channel, NEW x \in Nat, d # c \/ x # n
       PROVE  G[ConnBox(d, x)] = H[ConnBox(d, x)]
  <2>1. ConnBox(d, x) \in Box \ {a, b}
    BY <1>6, <1>8, <1>15, Boxes
  <2> QED
    BY <1>13, <2>1
<1>16. Holds(k, G[ConnBox(c, n)])
  <2>1. PICK q \in Seq(Addressed) : q = H[b]
    BY <1>1, <1>2, <1>8, ConnTypes
  <2>2. Holds(k, Append(q, m))
    BY <1>1, <1>2, <1>4, <1>8, <2>1, ConnTypes
  <2>3. Append(q, m) = q \o <<m>>
    <3>1. PICK X : X = Addressed \cup {m}
      OBVIOUS
    <3>2. q \in Seq(X) /\ m \in X
      BY <2>1, <3>1
    <3> QED
      BY <3>2, Appended
  <2> QED
    BY <1>8, <1>13, <2>1, <2>2, <2>3
<1>17. Ordered(G, Lone)'
  <2>1. PICK L : L = Lone' /\ Ordered(H, L)
    BY <1>1, <1>2, LoneBecomes, OrderedLess
  <2>2. c \in L => \A x \in Nat \ {0} : x # n => H[ConnBox(c, x)] = <<>>
    BY <1>1, <1>2, <2>1, OthersEmpty
  <2>3. Routed(a, m)
    <3>1. \A l \in 1..Len(<<m>>) : Routed(a, <<m>>[l])
      BY <1>2, <1>8, <1>9, <1>11, FrontRouted
    <3>2. 1 \in 1..Len(<<m>>) /\ <<m>>[1] = m
      OBVIOUS
    <3> QED
      BY <3>1, <3>2
  <2>4. /\ \A l \in 1..Len(<<m>>) : Routed(b, <<m>>[l])
        /\ Onward(H, L, a, b, <<m>>) /\ Stage(b) < Stage(a)
    BY <1>4, <1>8, <2>1, <2>2, <2>3, OnwardToConn
  <2> QED
    BY <1>8, <1>9, <1>10, <1>11, <1>12, <2>1, <2>4, OrderedMoves
<1> QED
  BY <1>2, <1>3, <1>13, <1>14, <1>15, <1>16, <1>17, FlowSet

\* A frame is written: the message is in the connection, or in none that is read.
LEMMA TransmitInv ==
  ASSUME TInv, NEW i \in Node, NEW j \in Node, Transmit(i, j)
  PROVE  TInv'
<1>1. Types /\ Served /\ Linked /\ Flow
  BY DEF TInv
<1>2. PICK c, n, m, k0, k :
        /\ c = <<i, j>> /\ n = Number(i, j) /\ m = Head(batch[i])
        /\ k0 = Connected(i, j)[n] /\ k = Streamed(k0, Frame(m))
  OBVIOUS
<1>3. /\ Sending(i, j)
      /\ conns' = [conns EXCEPT ![c] = [Connected(i, j) EXCEPT ![n] = k]]
      /\ link' = [link EXCEPT ![i][j] = n]
      /\ batch' = [batch EXCEPT ![i] = Tail(@)]
      /\ UNCHANGED <<mainVars, outbound, inbound, crashed, running,
                     at, ready, serving, decoded, failed>>
  BY <1>2 DEF Transmit
<1>4. c \in Channel /\ batch[i] # <<>> /\ m \in Addressed /\ m.to = j
  BY <1>2, <1>3, SendingParts
<1>5. n \in Nat \ {0} /\ k0 = View(conns, c, n) /\ k0 \in Connection /\ k0.open = TRUE
  BY <1>1, <1>2, NumberView
<1>6. \A q \in Seq(Addressed) : Holds(k0, q) =>
        Holds(k, IF k0.receiver = "closed" THEN q ELSE Append(q, m))
  BY <1>2, <1>4, <1>5, HoldsStreamed, FramesKnown
<1>7. k \in Connection /\ k.open = TRUE /\ k.receiver = k0.receiver
  <2>1. PICK H : Once(H, SentSoFar) /\ Queued(H) /\ Carried(H) /\ Ordered(H, Lone)
    BY <1>1 DEF Flow
  <2>2. PICK q \in Seq(Addressed) : Holds(k0, q)
    BY <1>1, <1>4, <1>5, <2>1, ConnTypes
  <2>3. k \in Connection
    BY <1>6, <2>2 DEF Holds
  <2>4. CASE k0.receiver = "closed"
    BY <1>2, <1>5, <2>4 DEF Streamed
  <2>5. CASE k0.receiver # "closed"
    <3>1. k0.cuts \subseteq 1..Len(k0.stream)
      BY <2>2 DEF Holds
    <3>2. PICK f \in Seq(Nat) : f = Frame(m) /\ Len(f) >= 1
      <4>1. PICK w \in Seq(Nat) : w = FrameOf[m]
        BY <1>4, FramesKnown
      <4>2. Frame(m) = <<Len(w)>> \o w
        BY <4>1 DEF Frame
      <4>3. <<Len(w)>> \o w \in Seq(Nat) /\ Len(<<Len(w)>> \o w) = 1 + Len(w) /\ Len(w) \in Nat
        BY <4>1, Headed
      <4>4. Frame(m) \in Seq(Nat) /\ Len(Frame(m)) >= 1
        BY <4>2, <4>3
      <4> QED
        BY <4>4, Zenon
    <3>3. k = Streamed(k0, f)
      BY <1>2, <3>2
    <3>4. k.open = k0.open /\ k.receiver = k0.receiver
      BY <1>5, <2>5, <3>1, <3>2, <3>3, StreamedFields
    <3> QED
      BY <1>5, <2>3, <3>4
  <2> QED
    BY <2>4, <2>5
<1>8. Becomes(conns, conns', c, n, k)
  <2>1. Sets(conns, conns', c, Connected(i, j), n, k)
    BY <1>3 DEF Sets
  <2> QED
    BY <1>1, <1>2, <1>7, <2>1, NumberSet
<1>9. Linked' /\ link' \in [Node -> [Node -> Nat]]
  BY <1>1, <1>2, <1>3, <1>5, <1>7, <1>8, LinkedSet
<1>10. Types'
  <2>1. conns' \in Connections
    BY <1>8 DEF Becomes
  <2>2. OnNodes(batch)'
    BY <1>3, <1>4, BatchGone
  <2> QED
    BY <1>1, <1>3, <1>9, <2>1, <2>2 DEF Types, OnNodes, mainVars
<1>11. Served'
  <2>1. \A x \in Node : batch'[x] # <<>> => batch[x] # <<>>
    BY <1>3, <1>4, BatchGone
  <2>2. \A x \in Node : decoded'[x] # <<>> => serving[x] # <<>>
    BY <1>1, <1>3 DEF Served
  <2> QED
    BY <1>1, <1>3, <1>4, <1>5, <1>7, <1>8, <2>1, <2>2, ServedKept
<1>12. Flow'
  <2>1. UNCHANGED <<mainVars, outbound, inbound, decoded>>
    BY <1>3
  <2>2. CASE k0.receiver = "closed"
    <3>1. \A q \in Seq(Addressed) : Holds(View(conns, c, n), q) => Holds(k, q)
      BY <1>5, <1>6, <2>2
    <3> QED
      BY <1>3, <1>4, <1>5, <1>8, <2>1, <3>1, FlowGivenUp
  <2>3. CASE k0.receiver # "closed"
    <3>1. \A q \in Seq(Addressed) : Holds(View(conns, c, n), q) => Holds(k, Append(q, Head(batch[i])))
      BY <1>2, <1>5, <1>6, <2>3
    <3>2. c[1] = i /\ c[2] # i /\ c[2] = Head(batch[i]).to
      BY <1>2, <1>3, <1>4 DEF Sending
    <3> QED
      BY <1>3, <1>4, <1>5, <1>8, <2>1, <3>1, <3>2, FlowWritten
  <2> QED
    BY <2>2, <2>3
<1> QED
  BY <1>9, <1>10, <1>11, <1>12 DEF TInv

\* A send fails: part of a frame may be left in a connection now finished.
LEMMA SendFailsInv ==
  ASSUME TInv, NEW i \in Node, NEW j \in Node, SendFails(i, j)
  PROVE  TInv'
<1>1. Types /\ Served /\ Linked /\ Flow
  BY DEF TInv
<1>2. PICK c, n, m, k0 :
        /\ c = <<i, j>> /\ n = Number(i, j) /\ m = Head(batch[i]) /\ k0 = Connected(i, j)[n]
  OBVIOUS
<1>3. PICK begun \in BOOLEAN :
        conns' = [conns EXCEPT ![c] = [Connected(i, j) EXCEPT ![n] =
          Finished(IF begun THEN Streamed(@, <<Len(FrameOf[m])>>) ELSE @)]]
  BY <1>2 DEF SendFails
<1>4. PICK k : k = Finished(IF begun THEN Streamed(k0, <<Len(FrameOf[m])>>) ELSE k0)
  OBVIOUS
<1>5. /\ Sending(i, j)
      /\ conns' = [conns EXCEPT ![c] = [Connected(i, j) EXCEPT ![n] = k]]
      /\ link' = [link EXCEPT ![i][j] = 0]
      /\ batch' = [batch EXCEPT ![i] = Tail(@)]
      /\ failed' = failed \cup {c}
      /\ UNCHANGED <<mainVars, outbound, inbound, crashed, running, at, ready, serving, decoded>>
  BY <1>2, <1>3, <1>4 DEF SendFails
<1>6. c \in Channel /\ batch[i] # <<>> /\ Len(FrameOf[m]) \in Nat
  BY <1>2, <1>5, SendingParts
<1>7. n \in Nat \ {0} /\ k0 = View(conns, c, n) /\ k0 \in Connection /\ k0.open = TRUE
  BY <1>1, <1>2, NumberView
<1>8. PICK y \in Nat : y = Len(FrameOf[m])
  BY <1>6
<1>9. \A q \in Seq(Addressed) : Holds(k0, q) => Holds(k, q)
  <2>1. CASE begun
    <3>1. k = Finished(Streamed(k0, <<y>>))
      BY <1>4, <1>8, <2>1
    <3> QED
      BY <1>7, <3>1, HoldsPart, FramesKnown
  <2>2. CASE ~begun
    BY <1>4, <2>2, HoldsFinished
  <2> QED
    BY <2>1, <2>2
<1>10. k \in Connection /\ k.receiver = k0.receiver
  <2>1. PICK H : Once(H, SentSoFar) /\ Queued(H) /\ Carried(H) /\ Ordered(H, Lone)
    BY <1>1 DEF Flow
  <2>2. PICK q \in Seq(Addressed) : Holds(k0, q)
    BY <1>1, <1>6, <1>7, <2>1, ConnTypes
  <2>3. k \in Connection
    BY <1>9, <2>2 DEF Holds
  <2>4. PICK e : e = IF begun THEN Streamed(k0, <<y>>) ELSE k0
    OBVIOUS
  <2>5. e \in Connection /\ e.receiver = k0.receiver
    <3>1. CASE begun /\ k0.receiver # "closed"
      <4>1. PICK f \in Seq(Nat) : f = <<y>> /\ Len(f) >= 1
        <5>1. <<y>> \in Seq(Nat) /\ Len(<<y>>) >= 1
          OBVIOUS
        <5> QED
          BY <5>1, Zenon
      <4>2. e = Streamed(k0, f)
        BY <2>4, <3>1, <4>1
      <4>3. k0.cuts \subseteq 1..Len(k0.stream)
        BY <2>2 DEF Holds
      <4>4. k0 \in Connection /\ k0.receiver # "closed"
        BY <1>7, <3>1
      <4>5. e \in Connection /\ e.receiver = k0.receiver
        BY <4>1, <4>2, <4>3, <4>4, StreamedFields
      <4> QED
        BY <4>5
    <3>2. CASE ~begun \/ k0.receiver = "closed"
      BY <1>7, <2>4, <3>2 DEF Streamed
    <3> QED
      BY <3>1, <3>2
  <2>6. k = Finished(e)
    BY <1>4, <1>8, <2>4
  <2>7. k.receiver = e.receiver
    BY <2>5, <2>6 DEF Finished, Connection
  <2> QED
    BY <2>3, <2>5, <2>7
<1>11. Becomes(conns, conns', c, n, k)
  <2>1. Sets(conns, conns', c, Connected(i, j), n, k)
    BY <1>5 DEF Sets
  <2> QED
    BY <1>1, <1>2, <1>10, <2>1, NumberSet
<1>12. Linked' /\ link' \in [Node -> [Node -> Nat]]
  <2>1. PICK x \in Nat : x = 0
    OBVIOUS
  <2>2. link' = [link EXCEPT ![i][j] = x] /\ Becomes(conns, conns', <<i, j>>, n, k)
    BY <1>2, <1>5, <1>11, <2>1
  <2> QED
    BY <1>1, <2>1, <2>2, LinkedSet
<1>13. Types'
  <2>1. conns' \in Connections
    BY <1>11 DEF Becomes
  <2>2. OnNodes(batch)'
    BY <1>5, <1>6, BatchGone
  <2> QED
    BY <1>1, <1>5, <1>6, <1>12, <2>1, <2>2 DEF Types, OnNodes, mainVars
<1>14. Served'
  <2>1. \A x \in Node : batch'[x] # <<>> => batch[x] # <<>>
    BY <1>5, <1>6, BatchGone
  <2>2. \A x \in Node : decoded'[x] # <<>> => serving[x] # <<>>
    BY <1>1, <1>5 DEF Served
  <2> QED
    BY <1>1, <1>5, <1>6, <1>7, <1>10, <1>11, <2>1, <2>2, ServedKept
<1>15. Flow'
  <2>1. UNCHANGED <<mainVars, outbound, inbound, decoded>>
    BY <1>5
  <2>2. \A q \in Seq(Addressed) : Holds(View(conns, c, n), q) => Holds(k, q)
    BY <1>7, <1>9
  <2> QED
    BY <1>5, <1>6, <1>7, <1>11, <2>1, <2>2, FlowGivenUp
<1> QED
  BY <1>12, <1>13, <1>14, <1>15 DEF TInv

\* Some queues and some connections are emptied, and no message moves.
LEMMA FlowEmptied ==
  ASSUME Flow, sent' = sent, Lone' \subseteq Lone,
         \A e \in Queue, j \in Node : QueueOf(e)'[j] = QueueOf(e)[j] \/ QueueOf(e)'[j] = <<>>,
         \A c \in Channel, n \in Nat \ {0} : \A q :
           Holds(View(conns, c, n), q) => Holds(View(conns', c, n), q) \/ Holds(View(conns', c, n), <<>>)
  PROVE  Flow'
<1>1. PICK H : Once(H, SentSoFar) /\ Queued(H) /\ Carried(H) /\ Ordered(H, Lone)
  BY DEF Flow
<1>2. PICK S : S = SentSoFar /\ S = SentSoFar'
  BY DEF SentSoFar
<1>3. PICK X : X = {b \in Box :
                      \/ \E e \in Queue, j \in Node : b = QueueBox(e, j) /\ QueueOf(e)'[j] = <<>>
                      \/ \E c \in Channel, n \in Nat : /\ b = ConnBox(c, n)
                                                       /\ Holds(View(conns', c, n), <<>>)}
  OBVIOUS
<1>4. PICK G : Once(G, S) /\ \A z \in Box : G[z] = IF z \in X THEN <<>> ELSE H[z]
  BY <1>1, <1>2, EmptiedTo
<1>5. ASSUME NEW e \in Queue, NEW j \in Node PROVE G[QueueBox(e, j)] = QueueOf(e)'[j]
  <2>1. PICK b \in Box : b = QueueBox(e, j)
    BY Boxes
  <2>2. H[b] = QueueOf(e)[j]
    BY <1>1, <2>1, QueuesHeld
  <2>3. b \in X <=> QueueOf(e)'[j] = <<>>
    BY <1>3, <2>1, Boxes
  <2> QED
    BY <1>4, <2>1, <2>2, <2>3
<1>6. Queued(G)'
  BY <1>5, QueuesHeld
<1>7. ASSUME NEW c \in Channel, NEW n \in Nat \ {0}
      PROVE  Holds(View(conns', c, n), G[ConnBox(c, n)])
  <2>1. PICK b \in Box : b = ConnBox(c, n)
    BY Boxes
  <2>2. Holds(View(conns, c, n), H[b])
    BY <1>1, <2>1 DEF Carried
  <2>3. b \in X <=> Holds(View(conns', c, n), <<>>)
    BY <1>3, <2>1, Boxes
  <2> QED
    BY <1>4, <2>1, <2>2, <2>3
<1>8. Carried(G)'
  BY <1>7 DEF Carried
<1>9. Ordered(G, Lone)'
  <2>1. Once(H, S) /\ \A z \in Box : G[z] = H[z] \/ G[z] = <<>>
    BY <1>1, <1>2, <1>4
  <2>2. Ordered(G, Lone)
    BY <1>1, <2>1, OrderedEmptied
  <2> QED
    BY <2>2, OrderedLess
<1> QED
  BY <1>2, <1>4, <1>6, <1>8, <1>9 DEF Flow

\* If the one connection that changes holds what it held or nothing, all do.
LEMMA BecomesHolds ==
  ASSUME NEW c \in Channel, NEW n, NEW k, Becomes(conns, conns', c, n, k),
         \A q : Holds(View(conns, c, n), q) => Holds(k, q) \/ Holds(k, <<>>)
  PROVE  \A d \in Channel, x \in Nat \ {0} : \A q :
           Holds(View(conns, d, x), q) => Holds(View(conns', d, x), q) \/ Holds(View(conns', d, x), <<>>)
<1> SUFFICES ASSUME NEW d \in Channel, NEW x \in Nat \ {0}, NEW q, Holds(View(conns, d, x), q)
             PROVE  Holds(View(conns', d, x), q) \/ Holds(View(conns', d, x), <<>>)
  OBVIOUS
<1>1. CASE d = c /\ x = n
  BY <1>1 DEF Becomes
<1>2. CASE d # c \/ x # n
  BY <1>2 DEF Becomes
<1> QED
  BY <1>1, <1>2

\* The connection from j that the io thread of i turns to, or is at.
LEMMA PeerView ==
  ASSUME Types, NEW i \in Node, NEW j \in Node, NEW n \in DOMAIN conns[<<j, i>>]
  PROVE  /\ <<j, i>> \in Channel /\ n \in Nat \ {0} /\ conns \in Connections
         /\ conns[<<j, i>>][n] = View(conns, <<j, i>>, n) /\ View(conns, <<j, i>>, n) \in Connection
<1>1. PICK c \in Channel : c = <<j, i>>
  BY DEF Channel
<1>2. conns \in Connections /\ conns[c] \in Seq(Connection)
  BY DEF Types, Connections
<1>3. n \in Nat \ {0} /\ conns[c][n] = View(conns, c, n)
  BY <1>1, <1>2 DEF View
<1>4. View(conns, c, n) \in Connection
  BY <1>2, ViewTypes
<1> QED
  BY <1>1, <1>2, <1>3, <1>4

\* What is in the stream goes to the buffer.
LEMMA ReadInv ==
  ASSUME TInv, NEW i \in Node, NEW j \in Node, NEW n \in DOMAIN conns[<<j, i>>], ReadPeer(i, j, n)
  PROVE  TInv'
<1>1. Types /\ Served /\ Linked /\ Flow
  BY DEF TInv
<1>2. PICK c, k0 : c = <<j, i>> /\ k0 = conns[c][n]
  OBVIOUS
<1>3. /\ c \in Channel /\ n \in Nat \ {0} /\ conns \in Connections
      /\ k0 = View(conns, c, n) /\ k0 \in Connection
  BY <1>1, <1>2, PeerView
<1>4. PICK r \in k0.cuts :
        conns' = [conns EXCEPT ![c][n] =
             [k0 EXCEPT !.stream = SubSeq(@, r + 1, Len(@)),
                        !.cuts = {x - r : x \in {y \in @ : y > r}},
                        !.buffer = @ \o SubSeq(k0.stream, 1, r)]]
  BY <1>2 DEF ReadPeer
<1>5. /\ at[i] = "serving" /\ serving[i] = <<>> /\ <<j, n>> \in ready[i]
      /\ ready' = [ready EXCEPT ![i] = @ \ {<<j, n>>}]
      /\ serving' = [serving EXCEPT ![i] = <<j, n>>]
      /\ UNCHANGED <<mainVars, outbound, inbound, crashed, running,
                     at, batch, decoded, link, failed>>
  BY DEF ReadPeer
<1>6. PICK k : k = [k0 EXCEPT !.stream = SubSeq(@, r + 1, Len(@)),
                              !.cuts = {x - r : x \in {y \in @ : y > r}},
                              !.buffer = @ \o SubSeq(k0.stream, 1, r)]
  OBVIOUS
<1>7. \A q : Holds(k0, q) => Holds(k, q)
  BY <1>6, HoldsRead
<1>8. k \in Connection /\ k.open = k0.open /\ k.receiver = k0.receiver
  <2>1. PICK H : Once(H, SentSoFar) /\ Queued(H) /\ Carried(H) /\ Ordered(H, Lone)
    BY <1>1 DEF Flow
  <2>2. PICK q \in Seq(Addressed) : Holds(k0, q)
    BY <1>1, <1>3, <2>1, ConnTypes
  <2>3. k \in Connection
    BY <1>7, <2>2 DEF Holds
  <2>4. k.open = k0.open
    BY <1>3, <1>6 DEF Connection
  <2>5. k.receiver = k0.receiver
    BY <1>3, <1>6 DEF Connection
  <2> QED
    BY <2>3, <2>4, <2>5
<1>9. Becomes(conns, conns', c, n, k)
  <2>1. conns' = [conns EXCEPT ![c][n] = k]
    BY <1>4, <1>6
  <2>2. Sets(conns, conns', c, conns[c], n, k)
    BY <2>1 DEF Sets
  <2>3. n \in DOMAIN conns[c]
    BY <1>2
  <2> QED
    BY <1>3, <1>8, <2>2, <2>3, ViewSet
<1>10. /\ ready' \in [Node -> SUBSET (Node \X Nat)] /\ ready'[i] = ready[i] \ {<<j, n>>}
       /\ \A x \in Node \ {i} : ready'[x] = ready[x]
       /\ OnNodes(serving)' /\ serving'[i] = <<j, n>>
       /\ \A x \in Node \ {i} : serving'[x] = serving[x]
  BY <1>1, <1>5 DEF Types, OnNodes
<1>11. Types'
  <2>1. conns' \in Connections
    BY <1>9 DEF Becomes
  <2> QED
    BY <1>1, <1>5, <1>10, <2>1 DEF Types, OnNodes, mainVars
<1>12. Linked'
  BY <1>1, <1>3, <1>5, <1>8, <1>9, LinkedKept
<1>13. Served'
  <2>1. \A d \in Channel, x \in Nat : View(conns', d, x).receiver = View(conns, d, x).receiver
    BY <1>3, <1>8, <1>9 DEF Becomes
  <2>2. ASSUME NEW x \in Node, NEW y \in ready'[x]
        PROVE  View(conns', <<y[1], x>>, y[2]).receiver = "open"
    <3>1. y \in ready[x]
      BY <1>10
    <3>2. y[1] \in Node /\ y[2] \in Nat
      <4>1. ready \in [Node -> SUBSET (Node \X Nat)]
        BY <1>1 DEF Types
      <4>2. y \in Node \X Nat
        BY <3>1, <4>1
      <4> QED
        BY <4>2
    <3>3. View(conns, <<y[1], x>>, y[2]).receiver = "open"
      BY <1>1, <3>1 DEF Served
    <3>4. <<y[1], x>> \in Channel
      BY <3>2 DEF Channel
    <3> QED
      BY <2>1, <3>2, <3>3, <3>4
  <2>3. ASSUME NEW x \in Node, serving'[x] # <<>>
        PROVE  /\ at'[x] = "serving" /\ serving'[x] \in (Node \X Nat) \ ready'[x]
               /\ View(conns', <<serving'[x][1], x>>, serving'[x][2]).receiver = "open"
    <3>1. CASE x = i
      <4>1. View(conns, <<j, i>>, n).receiver = "open"
        <5>1. PICK y \in ready[i] : y = <<j, n>>
          BY <1>5
        <5>2. y[1] = j /\ y[2] = n
          BY <5>1
        <5>3. View(conns, <<y[1], i>>, y[2]).receiver = "open"
          BY <1>1 DEF Served
        <5> QED
          BY <5>2, <5>3
      <4>2. View(conns', <<j, i>>, n).receiver = "open"
        BY <1>2, <1>3, <2>1, <4>1
      <4> QED
        BY <1>3, <1>5, <1>10, <3>1, <4>2
    <3>2. CASE x # i
      <4>1. serving'[x] = serving[x] /\ ready'[x] = ready[x] /\ at'[x] = at[x] /\ serving[x] # <<>>
        BY <1>5, <1>10, <2>3, <3>2
      <4>2. /\ at[x] = "serving" /\ serving[x] \in (Node \X Nat) \ ready[x]
            /\ View(conns, <<serving[x][1], x>>, serving[x][2]).receiver = "open"
        BY <1>1, <4>1 DEF Served
      <4>3. <<serving[x][1], x>> \in Channel /\ serving[x][2] \in Nat
        BY <4>2 DEF Channel
      <4> QED
        BY <2>1, <4>1, <4>2, <4>3
    <3> QED
      BY <3>1, <3>2
  <2>4. \A x \in Node : decoded'[x] # <<>> => serving'[x] # <<>>
    BY <1>1, <1>5, <1>10 DEF Served
  <2>5. \A x \in Node : batch'[x] # <<>> => at'[x] = "sending"
    BY <1>1, <1>5 DEF Served
  <2> QED
    BY <2>2, <2>3, <2>4, <2>5 DEF Served
<1>14. Flow'
  <2>1. \A e \in Queue, x \in Node : QueueOf(e)'[x] = QueueOf(e)[x] \/ QueueOf(e)'[x] = <<>>
    BY <1>5 DEF Queue, QueueOf, mainVars
  <2>2. \A d \in Channel, x \in Nat \ {0} : \A q :
           Holds(View(conns, d, x), q) => Holds(View(conns', d, x), q) \/ Holds(View(conns', d, x), <<>>)
    BY <1>3, <1>7, <1>9, BecomesHolds
  <2>3. Lone' \subseteq Lone
    BY <1>1, <1>9, LoneBecomes
  <2> QED
    BY <1>1, <1>5, <2>1, <2>2, <2>3, FlowEmptied DEF mainVars
<1> QED
  BY <1>11, <1>12, <1>13, <1>14 DEF TInv

\* The io thread of i has done with a connection that is changed or closed.
LEMMA ServedDone ==
  ASSUME Types, Served, NEW i \in Node, NEW j, NEW n, NEW k,
         <<j, i>> \in Channel, Becomes(conns, conns', <<j, i>>, n, k), batch' = batch, batch[i] = <<>>,
         \A x \in Node \ {i} : /\ at'[x] = at[x] /\ ready'[x] = ready[x]
                               /\ serving'[x] = serving[x] /\ decoded'[x] = decoded[x],
         ready'[i] \subseteq ready[i] \ {<<j, n>>}, serving'[i] = <<>>, decoded'[i] = <<>>
  PROVE  Served'
<1>1. ASSUME NEW x \in Node, NEW y \in Node \X Nat, x # i \/ y # <<j, n>>,
             View(conns, <<y[1], x>>, y[2]).receiver = "open"
      PROVE  View(conns', <<y[1], x>>, y[2]).receiver = "open"
  <2>1. <<y[1], x>> \in Channel /\ y[2] \in Nat /\ y = <<y[1], y[2]>>
    BY DEF Channel
  <2>2. <<y[1], x>> # <<j, i>> \/ y[2] # n
    BY <1>1, <2>1
  <2>3. View(conns', <<y[1], x>>, y[2]) = View(conns, <<y[1], x>>, y[2])
    BY <2>1, <2>2 DEF Becomes
  <2> QED
    BY <1>1, <2>3
<1>2. ASSUME NEW x \in Node, NEW y \in ready'[x]
      PROVE  View(conns', <<y[1], x>>, y[2]).receiver = "open"
  <2>1. y \in ready[x] /\ (x # i \/ y # <<j, n>>)
    BY <1>2
  <2>2. y \in Node \X Nat
    BY <2>1 DEF Types
  <2>3. View(conns, <<y[1], x>>, y[2]).receiver = "open"
    BY <2>1 DEF Served
  <2> QED
    BY <1>1, <2>1, <2>2, <2>3
<1>3. ASSUME NEW x \in Node, serving'[x] # <<>>
      PROVE  /\ at'[x] = "serving" /\ serving'[x] \in (Node \X Nat) \ ready'[x]
             /\ View(conns', <<serving'[x][1], x>>, serving'[x][2]).receiver = "open"
  <2>1. x # i
    BY <1>3
  <2>2. serving'[x] = serving[x] /\ ready'[x] = ready[x] /\ at'[x] = at[x] /\ serving[x] # <<>>
    BY <1>3, <2>1
  <2>3. /\ at[x] = "serving" /\ serving[x] \in (Node \X Nat) \ ready[x]
        /\ View(conns, <<serving[x][1], x>>, serving[x][2]).receiver = "open"
    BY <2>2 DEF Served
  <2>4. View(conns', <<serving[x][1], x>>, serving[x][2]).receiver = "open"
    BY <1>1, <2>1, <2>3
  <2> QED
    BY <2>2, <2>3, <2>4
<1>4. \A x \in Node : decoded'[x] # <<>> => serving'[x] # <<>>
  BY DEF Served
<1>5. \A x \in Node : batch'[x] # <<>> => at'[x] = "sending"
  BY DEF Served
<1> QED
  BY <1>2, <1>3, <1>4, <1>5 DEF Served

\* A dropped connection is one, and open if it was.
LEMMA DroppedFields ==
  ASSUME NEW k0 \in Connection
  PROVE  Dropped(k0) \in Connection /\ Dropped(k0).open = k0.open
<1>1. PICK k : k = Dropped(k0)
  OBVIOUS
<1>2. k \in Connection /\ k.open = k0.open
  <2>1. PICK e \in Seq(Nat) : e = <<>>
    <3>1. <<>> \in Seq(Nat)
      OBVIOUS
    <3> QED
      BY <3>1, Zenon
  <2>2. PICK a, b, d : /\ a = [k0 EXCEPT !.receiver = "closed"] /\ b = [a EXCEPT !.stream = e]
                       /\ d = [b EXCEPT !.cuts = {}]
    OBVIOUS
  <2>3. a \in Connection /\ a.open = k0.open
    BY <2>2 DEF Connection
  <2>4. b \in Connection /\ b.open = k0.open
    BY <2>1, <2>2, <2>3 DEF Connection
  <2>5. d \in Connection /\ d.open = k0.open
    BY <2>2, <2>4 DEF Connection
  <2>6. [d EXCEPT !.buffer = e] \in Connection /\ [d EXCEPT !.buffer = e].open = k0.open
    BY <2>1, <2>5 DEF Connection
  <2>7. k = [d EXCEPT !.buffer = e]
    BY <1>1, <2>1, <2>2 DEF Dropped
  <2> QED
    BY <2>6, <2>7
<1> QED
  BY <1>1, <1>2

\* A connection is closed by its receiver.
LEMMA BecomesDropped ==
  ASSUME Types, Linked, NEW i \in Node, NEW j \in Node, NEW n \in DOMAIN conns[<<j, i>>],
         conns' = [conns EXCEPT ![<<j, i>>][n] = Dropped(@)]
  PROVE  /\ <<j, i>> \in Channel
         /\ Becomes(conns, conns', <<j, i>>, n, Dropped(View(conns, <<j, i>>, n)))
         /\ \A q : Holds(View(conns, <<j, i>>, n), q) => Holds(Dropped(View(conns, <<j, i>>, n)), <<>>)
         /\ link' = link => Linked'
<1>1. PICK c, k0, k : c = <<j, i>> /\ k0 = conns[c][n] /\ k = Dropped(k0)
  OBVIOUS
<1>2. /\ c \in Channel /\ n \in Nat \ {0} /\ conns \in Connections
      /\ k0 = View(conns, c, n) /\ k0 \in Connection
  BY <1>1, PeerView
<1>3. \A q : Holds(k0, q) => Holds(k, <<>>)
  BY <1>1, HoldsDropped
<1>4. k \in Connection /\ k.open = k0.open
  BY <1>1, <1>2, DroppedFields
<1>5. Becomes(conns, conns', c, n, k)
  <2>1. conns' = [conns EXCEPT ![c][n] = k]
    BY <1>1
  <2>2. Sets(conns, conns', c, conns[c], n, k)
    BY <2>1 DEF Sets
  <2>3. n \in DOMAIN conns[c]
    BY <1>1
  <2> QED
    BY <1>2, <1>4, <2>2, <2>3, ViewSet
<1>6. link' = link => Linked'
  BY <1>2, <1>4, <1>5, LinkedKept
<1> QED
  BY <1>1, <1>2, <1>3, <1>5, <1>6

\* The end of a connection its sender has closed.
LEMMA PeerClosedInv ==
  ASSUME TInv, NEW i \in Node, NEW j \in Node, NEW n \in DOMAIN conns[<<j, i>>], PeerClosed(i, j, n)
  PROVE  TInv'
<1>1. Types /\ Served /\ Linked /\ Flow
  BY DEF TInv
<1>2. /\ at[i] = "serving" /\ serving[i] = <<>> /\ <<j, n>> \in ready[i]
      /\ conns' = [conns EXCEPT ![<<j, i>>][n] = Dropped(@)]
      /\ ready' = [ready EXCEPT ![i] = @ \ {<<j, n>>}]
      /\ at' = [at EXCEPT ![i] = AfterServing(i, ready'[i])]
      /\ UNCHANGED <<mainVars, outbound, inbound, crashed, running,
                     batch, serving, decoded, link, failed>>
  BY DEF PeerClosed
<1>3. PICK k0, k : k0 = View(conns, <<j, i>>, n) /\ k = Dropped(k0)
  OBVIOUS
<1>4. <<j, i>> \in Channel /\ Becomes(conns, conns', <<j, i>>, n, k)
      /\ (\A q : Holds(k0, q) => Holds(k, <<>>)) /\ Linked'
  BY <1>1, <1>2, <1>3, BecomesDropped
<1>5. /\ ready' \in [Node -> SUBSET (Node \X Nat)] /\ ready'[i] = ready[i] \ {<<j, n>>}
      /\ \A x \in Node \ {i} : ready'[x] = ready[x]
  BY <1>1, <1>2 DEF Types
<1>6. /\ at' \in [Node -> {"top", "sending", "serving", "ended"}]
      /\ \A x \in Node \ {i} : at'[x] = at[x]
  BY <1>1, <1>2 DEF Types, AfterServing
<1>7. Types'
  <2>1. conns' \in Connections
    BY <1>4 DEF Becomes
  <2> QED
    BY <1>1, <1>2, <1>5, <1>6, <2>1 DEF Types, OnNodes, mainVars
<1>8. Served'
  <2>1. batch[i] = <<>> /\ decoded[i] = <<>>
    BY <1>1, <1>2 DEF Served
  <2> QED
    BY <1>1, <1>2, <1>4, <1>5, <1>6, <2>1, ServedDone
<1>9. Flow'
  <2>1. \A e \in Queue, x \in Node : QueueOf(e)'[x] = QueueOf(e)[x] \/ QueueOf(e)'[x] = <<>>
    BY <1>2 DEF Queue, QueueOf, mainVars
  <2>2. \A d \in Channel, x \in Nat \ {0} : \A q :
           Holds(View(conns, d, x), q) => Holds(View(conns', d, x), q) \/ Holds(View(conns', d, x), <<>>)
    BY <1>3, <1>4, BecomesHolds
  <2>3. Lone' \subseteq Lone
    BY <1>1, <1>4, LoneBecomes
  <2> QED
    BY <1>1, <1>2, <2>1, <2>2, <2>3, FlowEmptied DEF mainVars
<1> QED
  BY <1>4, <1>7, <1>8, <1>9 DEF TInv

\* The connection an io thread serves.
LEMMA ServingPeer ==
  ASSUME Types, Served, NEW i \in Node, serving[i] # <<>>
  PROVE  /\ serving[i][1] \in Node /\ serving[i][2] \in DOMAIN conns[<<serving[i][1], i>>]
         /\ serving[i] = <<serving[i][1], serving[i][2]>> /\ serving[i] \notin ready[i]
         /\ at[i] = "serving" /\ batch[i] = <<>>
<1>1. /\ at[i] = "serving" /\ serving[i] \in (Node \X Nat) \ ready[i]
      /\ View(conns, <<serving[i][1], i>>, serving[i][2]).receiver = "open"
  BY DEF Served
<1>2. serving[i][2] \in DOMAIN conns[<<serving[i][1], i>>]
  BY <1>1, NewConnectionFields DEF View
<1>3. batch[i] = <<>>
  BY <1>1 DEF Served
<1> QED
  BY <1>1, <1>2, <1>3

\* A frame of a length out of range: the connection is closed.
LEMMA RefuseInv ==
  ASSUME TInv, NEW i \in Node, RefuseFrame(i)
  PROVE  TInv'
<1>1. Types /\ Served /\ Linked /\ Flow
  BY DEF TInv
<1>2. PICK j, n : j = serving[i][1] /\ n = serving[i][2]
  OBVIOUS
<1>3. /\ serving[i] # <<>>
      /\ conns' = [conns EXCEPT ![<<j, i>>][n] = Dropped(@)]
      /\ serving' = [serving EXCEPT ![i] = <<>>]
      /\ decoded' = [decoded EXCEPT ![i] = <<>>]
      /\ at' = [at EXCEPT ![i] = AfterServing(i, ready[i])]
      /\ failed' = failed \cup {<<j, i>>}
      /\ UNCHANGED <<mainVars, outbound, inbound, crashed, running, batch, ready, link>>
  BY <1>2 DEF RefuseFrame
<1>4. /\ j \in Node /\ n \in DOMAIN conns[<<j, i>>] /\ serving[i] = <<j, n>>
      /\ <<j, n>> \notin ready[i] /\ at[i] = "serving" /\ batch[i] = <<>>
  BY <1>1, <1>2, <1>3, ServingPeer
<1>5. PICK k0, k : k0 = View(conns, <<j, i>>, n) /\ k = Dropped(k0)
  OBVIOUS
<1>6. <<j, i>> \in Channel /\ Becomes(conns, conns', <<j, i>>, n, k)
      /\ (\A q : Holds(k0, q) => Holds(k, <<>>)) /\ Linked'
  BY <1>1, <1>3, <1>4, <1>5, BecomesDropped
<1>7. /\ OnNodes(serving)' /\ OnNodes(decoded)' /\ serving'[i] = <<>> /\ decoded'[i] = <<>>
      /\ \A x \in Node \ {i} : serving'[x] = serving[x] /\ decoded'[x] = decoded[x]
  BY <1>1, <1>3 DEF Types, OnNodes
<1>8. /\ at' \in [Node -> {"top", "sending", "serving", "ended"}]
      /\ \A x \in Node \ {i} : at'[x] = at[x]
  BY <1>1, <1>3 DEF Types, AfterServing
<1>9. Types'
  <2>1. conns' \in Connections
    BY <1>6 DEF Becomes
  <2> QED
    BY <1>1, <1>3, <1>6, <1>7, <1>8, <2>1 DEF Types, OnNodes, mainVars
<1>10. Served'
  <2>1. ready'[i] \subseteq ready[i] \ {<<j, n>>} /\ \A x \in Node \ {i} : ready'[x] = ready[x]
    BY <1>3, <1>4
  <2> QED
    BY <1>1, <1>3, <1>4, <1>6, <1>7, <1>8, <2>1, ServedDone
<1>11. Flow'
  <2>1. \A e \in Queue, x \in Node : QueueOf(e)'[x] = QueueOf(e)[x] \/ QueueOf(e)'[x] = <<>>
    BY <1>3, <1>7 DEF Queue, QueueOf, mainVars
  <2>2. \A d \in Channel, x \in Nat \ {0} : \A q :
           Holds(View(conns, d, x), q) => Holds(View(conns', d, x), q) \/ Holds(View(conns', d, x), <<>>)
    BY <1>5, <1>6, BecomesHolds
  <2>3. Lone' \subseteq Lone
    BY <1>1, <1>6, LoneBecomes
  <2> QED
    BY <1>1, <1>3, <2>1, <2>2, <2>3, FlowEmptied DEF mainVars
<1> QED
  BY <1>6, <1>9, <1>10, <1>11 DEF TInv

\* A message comes out of a connection, to the queue of decoded ones or away.
LEMMA FlowDecoded ==
  ASSUME Types, NEW H, Once(H, SentSoFar), Queued(H), Carried(H), Ordered(H, Lone),
         NEW i \in Node, NEW c \in Channel, c[2] = i,
         NEW n \in Nat \ {0}, NEW k, Becomes(conns, conns', c, n, k),
         NEW m, NEW r, H[ConnBox(c, n)] = <<m>> \o r, NEW y,
         <<m>> \in Seq(Proper(ConnBox(c, n), SentSoFar)), r \in Seq(Proper(ConnBox(c, n), SentSoFar)),
         Holds(k, r), decoded' = [decoded EXCEPT ![i] = y], y = decoded[i] \o <<m>> \/ y = decoded[i],
         UNCHANGED <<mainVars, outbound, inbound, batch>>
  PROVE  Flow'
<1>1. PICK S : S = SentSoFar /\ S = SentSoFar'
  BY DEF SentSoFar, mainVars
<1>2. "decoded" \in Queue
  BY DEF Queue
<1>3. PICK a \in Box, b \in Box : a = ConnBox(c, n) /\ b = QueueBox("decoded", i) /\ a # b
  <2>1. ConnBox(c, n) \in Box /\ QueueBox("decoded", i) \in Box /\ QueueBox("decoded", i) # ConnBox(c, n)
    BY <1>2, Boxes
  <2> QED
    BY <2>1, Zenon
<1>4. <<m>> \in Seq(Proper(a, S)) /\ r \in Seq(Proper(a, S)) /\ Once(H, S) /\ H[a] = <<m>> \o r
  BY <1>1, <1>3
<1>5. decoded'[i] = y /\ \A x \in Node \ {i} : decoded'[x] = decoded[x]
  BY DEF Types, OnNodes
<1>6. \A e \in Queue, x \in Node : e # "decoded" \/ x # i => QueueOf(e)'[x] = QueueOf(e)[x]
  BY <1>5 DEF Queue, QueueOf, mainVars
<1>7. QueueOf("decoded")'[i] = y /\ QueueOf("decoded")[i] = decoded[i]
  BY <1>5 DEF QueueOf
<1>8. H[b] = decoded[i]
  BY <1>2, <1>3, <1>7, QueuesHeld
<1>9. \E G : /\ Once(G, S) /\ G[a] = r /\ G[b] = y /\ \A z \in Box \ {a, b} : G[z] = H[z]
            /\ Ordered(G, Lone)
  <2>1. CASE y = decoded[i] \o <<m>>
    <3>1. <<m>> \in Seq(Proper(b, S))
      <4>1. m \in Proper(a, S)
        BY <1>4
      <4>2. m \in S /\ m.to = i
        BY <1>1, <1>3, <4>1, ConnTypes
      <4>3. m \in Proper(b, S)
        BY <1>3, <4>2 DEF Proper, QueueBox
      <4> QED
        BY <4>3
    <3>2. PICK G : Moves(G, H, S, a, b, <<m>>, r)
      BY <1>3, <1>4, <3>1, MovedTo, Zenon
    <3>3. /\ Once(G, S) /\ G[a] = r /\ G[b] = H[b] \o <<m>>
          /\ \A z \in Box \ {a, b} : G[z] = H[z]
      BY <3>2 DEF Moves
    <3>4. G[b] = y
      BY <1>8, <2>1, <3>3
    <3>5. Ordered(G, Lone)
      <4>1. Routed(a, m)
        <5>1. \A l \in 1..Len(<<m>>) : Routed(a, <<m>>[l])
          BY <1>4, FrontRouted
        <5>2. 1 \in 1..Len(<<m>>) /\ <<m>>[1] = m
          OBVIOUS
        <5> QED
          BY <5>1, <5>2
      <4>2. /\ \A l \in 1..Len(<<m>>) : Routed(b, <<m>>[l])
            /\ Onward(H, Lone, a, b, <<m>>) /\ Stage(b) < Stage(a)
        BY <1>3, <4>1, OnwardToDecoded
      <4> QED
        BY <1>3, <1>4, <3>1, <3>2, <4>2, OrderedMoves
    <3> QED
      BY <3>3, <3>4, <3>5, Zenon
  <2>2. CASE y = decoded[i]
    <3>1. <<m>> \in Seq(S)
      <4>1. m \in Proper(a, S)
        BY <1>4
      <4>2. m \in S
        BY <4>1 DEF Proper
      <4> QED
        BY <4>2
    <3>4. PICK G : Shortens(G, H, S, a, r)
      BY <1>3, <1>4, <3>1, ShortenedTo, Zenon
    <3>2. Once(G, S) /\ G[a] = r /\ \A z \in Box \ {a} : G[z] = H[z]
      BY <3>4 DEF Shortens
    <3>3. G[b] = y
      BY <1>3, <1>8, <2>2, <3>2
    <3>5. Ordered(G, Lone)
      BY <1>3, <1>4, <3>1, <3>4, OrderedShortens, Zenon
    <3> QED
      BY <3>2, <3>3, <3>5
  <2> QED
    BY <2>1, <2>2
<1>10. PICK G : /\ Once(G, S) /\ G[a] = r /\ G[b] = y /\ \A z \in Box \ {a, b} : G[z] = H[z]
                /\ Ordered(G, Lone)
  BY <1>9
<1>11. Queued(G)'
  <2>1. ASSUME NEW e \in Queue, NEW x \in Node, e # "decoded" \/ x # i
        PROVE  G[QueueBox(e, x)] = H[QueueBox(e, x)] /\ QueueOf(e)'[x] = QueueOf(e)[x]
    <3>1. QueueBox(e, x) \in Box \ {a, b}
      BY <1>2, <1>3, <2>1, Boxes
    <3> QED
      BY <1>6, <1>10, <2>1, <3>1
  <2>2. G[QueueBox("decoded", i)] = QueueOf("decoded")'[i]
    BY <1>3, <1>7, <1>10
  <2> QED
    BY <1>2, <2>1, <2>2, QueuedBut
<1>12. ASSUME NEW d \in Channel, NEW x \in Nat, d # c \/ x # n
       PROVE  G[ConnBox(d, x)] = H[ConnBox(d, x)]
  <2>1. ConnBox(d, x) \in Box \ {a, b}
    BY <1>2, <1>3, <1>12, Boxes
  <2> QED
    BY <1>10, <2>1
<1>13. Holds(k, G[ConnBox(c, n)])
  BY <1>3, <1>10
<1>14. Ordered(G, Lone)'
  BY <1>10, LoneBecomes, OrderedLess
<1> QED
  BY <1>1, <1>10, <1>11, <1>12, <1>13, <1>14, FlowSet

\* A frame is taken from the buffer: it is that of the first message.
LEMMA DecodeInv ==
  ASSUME TInv, NEW i \in Node, DecodeFrame(i)
  PROVE  TInv'
<1>1. Types /\ Served /\ Linked /\ Flow
  BY DEF TInv
<1>2. PICK j, n, c : j = serving[i][1] /\ n = serving[i][2] /\ c = <<j, i>>
  OBVIOUS
<1>3. serving[i] # <<>> /\ WholeFrame(i)
  BY DEF DecodeFrame
<1>4. j \in Node /\ n \in DOMAIN conns[c]
  BY <1>1, <1>2, <1>3, ServingPeer
<1>5. PICK k0 : k0 = conns[c][n]
  OBVIOUS
<1>6. /\ c \in Channel /\ n \in Nat \ {0} /\ conns \in Connections
      /\ k0 = View(conns, c, n) /\ k0 \in Connection
  BY <1>1, <1>2, <1>4, <1>5, PeerView
<1>7. PICK L : L = k0.buffer[1]
  OBVIOUS
<1>8. Buffer(i) = k0.buffer /\ FrameLength(i) = L
  BY <1>2, <1>5, <1>7 DEF Buffer, FrameLength
<1>9. k0.buffer # <<>> /\ L # 0 /\ Len(k0.buffer) - 1 >= L
  BY <1>3, <1>8 DEF WholeFrame, BadFrame
<1>10. PICK k : k = [k0 EXCEPT !.buffer = SubSeq(@, 2 + L, Len(@))]
  OBVIOUS
<1>11. PICK ms : ms = MessageIn(SubSeq(k0.buffer, 2, 1 + L))
  OBVIOUS
<1>12. /\ decoded' = [decoded EXCEPT ![i] =
            IF ms # <<>> /\ ms[1].to = i /\ ~crashed[i] THEN @ \o ms ELSE @]
       /\ conns' = [conns EXCEPT ![c][n].buffer = SubSeq(@, 2 + L, Len(@))]
       /\ UNCHANGED <<mainVars, outbound, inbound, crashed, running,
                      at, batch, ready, serving, link, failed>>
  BY <1>2, <1>8, <1>11 DEF DecodeFrame
<1>13. PICK H : Once(H, SentSoFar) /\ Queued(H) /\ Carried(H) /\ Ordered(H, Lone)
  BY <1>1 DEF Flow
<1>14. PICK X, q : X = Proper(ConnBox(c, n), SentSoFar) /\ q = H[ConnBox(c, n)]
  OBVIOUS
<1>15. Holds(k0, q) /\ q \in Seq(X) /\ q \in Seq(Addressed)
  BY <1>1, <1>6, <1>13, <1>14, ConnTypes
<1>16. /\ q # <<>> /\ SubSeq(k0.buffer, 2, 1 + L) = FrameOf[q[1]]
       /\ Holds(k, Tail(q))
  BY <1>7, <1>9, <1>10, <1>15, HoldsDecoded
<1>17. PICK m, r : m = q[1] /\ r = Tail(q)
  OBVIOUS
<1>18. m \in Addressed /\ r \in Seq(X) /\ <<m>> \in Seq(X) /\ q = <<m>> \o r
  BY <1>15, <1>16, <1>17, HeadTail
<1>19. ms = <<m>>
  BY <1>11, <1>16, <1>17, <1>18, FramesKnown
<1>20. k \in Connection /\ k.open = k0.open /\ k.receiver = k0.receiver
  <2>1. k \in Connection
    BY <1>16 DEF Holds
  <2>2. k.open = k0.open
    BY <1>6, <1>10 DEF Connection
  <2>3. k.receiver = k0.receiver
    BY <1>6, <1>10 DEF Connection
  <2> QED
    BY <2>1, <2>2, <2>3
<1>21. Becomes(conns, conns', c, n, k)
  <2>1. conns' = [conns EXCEPT ![c][n] = k]
    BY <1>5, <1>10, <1>12
  <2>2. Sets(conns, conns', c, conns[c], n, k)
    BY <2>1 DEF Sets
  <2> QED
    BY <1>4, <1>6, <1>20, <2>2, ViewSet
<1>22. PICK y : y = IF ms # <<>> /\ ms[1].to = i /\ ~crashed[i] THEN decoded[i] \o ms ELSE decoded[i]
  OBVIOUS
<1>23. decoded' = [decoded EXCEPT ![i] = y] /\ (y = decoded[i] \o <<m>> \/ y = decoded[i])
  BY <1>12, <1>19, <1>22
<1>24. OnNodes(decoded)' /\ \A x \in Node \ {i} : decoded'[x] = decoded[x]
  BY <1>1, <1>23 DEF Types, OnNodes
<1>25. Types'
  <2>1. conns' \in Connections
    BY <1>21 DEF Becomes
  <2> QED
    BY <1>1, <1>12, <1>24, <2>1 DEF Types, OnNodes, mainVars
<1>26. Linked'
  BY <1>1, <1>6, <1>12, <1>20, <1>21, LinkedKept
<1>27. Served'
  <2>1. \A x \in Node : decoded'[x] # <<>> => serving[x] # <<>>
    BY <1>1, <1>3, <1>24 DEF Served
  <2> QED
    BY <1>1, <1>6, <1>12, <1>20, <1>21, <2>1, ServedKept
<1>28. Flow'
  <2>1. c[2] = i
    BY <1>2
  <2>2. /\ H[ConnBox(c, n)] = <<m>> \o r /\ Holds(k, r)
        /\ <<m>> \in Seq(Proper(ConnBox(c, n), SentSoFar))
        /\ r \in Seq(Proper(ConnBox(c, n), SentSoFar))
    BY <1>14, <1>16, <1>17, <1>18
  <2>3. UNCHANGED <<mainVars, outbound, inbound, batch>>
    BY <1>12
  <2> QED
    BY <1>1, <1>6, <1>13, <1>21, <1>23, <2>1, <2>2, <2>3, FlowDecoded
<1> QED
  BY <1>25, <1>26, <1>27, <1>28 DEF TInv

\* Every connection may be changed, and there are no new ones.
LEMMA Mapped ==
  ASSUME Types, conns' = [c \in Channel |-> conns'[c]],
         \A c \in Channel : conns'[c] = [n \in DOMAIN conns[c] |-> conns'[c][n]],
         \A c \in Channel : \A n \in DOMAIN conns[c] : conns'[c][n] \in Connection
  PROVE  /\ conns' \in Connections
         /\ \A c \in Channel : DOMAIN conns'[c] = DOMAIN conns[c]
         /\ \A c \in Channel, n \in Nat : View(conns', c, n) =
              IF n \in DOMAIN conns[c] THEN conns'[c][n] ELSE View(conns, c, n)
<1>1. conns \in Connections
  BY DEF Types
<1>2. PICK g : g = conns'
  OBVIOUS
<1>3. /\ g = [c \in Channel |-> g[c]]
      /\ \A c \in Channel : g[c] = [n \in DOMAIN conns[c] |-> g[c][n]]
      /\ \A c \in Channel : \A n \in DOMAIN conns[c] : g[c][n] \in Connection
  BY <1>2
<1>4. g \in Connections /\ \A c \in Channel : DOMAIN g[c] = DOMAIN conns[c]
  BY <1>1, <1>3, ViewMapped
<1>5. ASSUME NEW c \in Channel, NEW n \in Nat
      PROVE  View(g, c, n) = IF n \in DOMAIN conns[c] THEN g[c][n] ELSE View(conns, c, n)
  BY <1>4 DEF View
<1> QED
  BY <1>2, <1>4, <1>5

\* A connection that exists is one, and is seen.
LEMMA ConnViews ==
  ASSUME Types, NEW c \in Channel
  PROVE  /\ DOMAIN conns[c] \subseteq Nat \ {0} /\ c = <<c[1], c[2]>> /\ c[1] \in Node /\ c[2] \in Node
         /\ \A n \in DOMAIN conns[c] : conns[c][n] = View(conns, c, n) /\ conns[c][n] \in Connection
<1>1. conns \in Connections
  BY DEF Types
<1>2. conns[c] \in Seq(Connection)
  BY <1>1 DEF Connections
<1>3. DOMAIN conns[c] \subseteq Nat \ {0} /\ \A n \in DOMAIN conns[c] : conns[c][n] \in Connection
  BY <1>2
<1>4. c = <<c[1], c[2]>> /\ c[1] \in Node /\ c[2] \in Node
  BY DEF Channel
<1>5. \A n \in DOMAIN conns[c] : conns[c][n] = View(conns, c, n)
  BY DEF View
<1> QED
  BY <1>3, <1>4, <1>5

\* select reports connections, and accepts those that wait.
LEMMA SelectInv ==
  ASSUME TInv, NEW i \in Node, Select(i)
  PROVE  TInv'
<1>1. Types /\ Served /\ Linked /\ Flow
  BY DEF TInv
<1>2. PICK R \in SUBSET {y \in Accepted(i) : Readable(i, y)} : \E accepting \in BOOLEAN :
        /\ conns' = [c \in Channel |-> [n \in DOMAIN conns[c] |->
             IF c[2] = i /\ (accepting /\ conns[<<c[1], i>>][n].receiver = "backlog")
               THEN [conns[c][n] EXCEPT !.receiver = "open"] ELSE conns[c][n]]]
        /\ ready' = [ready EXCEPT ![i] = R]
        /\ at' = [at EXCEPT ![i] = IF R = {} THEN "top" ELSE "serving"]
  BY DEF Select
<1>3. PICK accepting \in BOOLEAN :
        conns' = [c \in Channel |-> [n \in DOMAIN conns[c] |->
             IF c[2] = i /\ (accepting /\ conns[<<c[1], i>>][n].receiver = "backlog")
               THEN [conns[c][n] EXCEPT !.receiver = "open"] ELSE conns[c][n]]]
  BY <1>2
<1>4. /\ at[i] = "sending" /\ batch[i] = <<>>
      /\ UNCHANGED <<mainVars, outbound, inbound, crashed, running,
                     batch, serving, decoded, link, failed>>
  BY DEF Select
<1>5. ASSUME NEW c \in Channel, NEW n \in DOMAIN conns[c]
      PROVE  \/ conns'[c][n] = conns[c][n]
             \/ /\ conns[c][n].receiver = "backlog"
                /\ conns'[c][n] = [conns[c][n] EXCEPT !.receiver = "open"]
  <2>1. c = <<c[1], c[2]>>
    BY <1>1, ConnViews
  <2> QED
    BY <1>3, <2>1
<1>6. ASSUME NEW c \in Channel, NEW n \in DOMAIN conns[c]
      PROVE  /\ conns'[c][n] \in Connection
             /\ conns'[c][n].open = conns[c][n].open
             /\ conns[c][n].receiver = "open" => conns'[c][n].receiver = "open"
             /\ \A q : Holds(conns[c][n], q) => Holds(conns'[c][n], q)
  <2>1. conns[c][n] \in Connection
    BY <1>1, ConnViews
  <2>2. PICK k0, k : k0 = conns[c][n] /\ k = conns'[c][n]
    OBVIOUS
  <2>3. CASE k = k0
    BY <2>1, <2>2, <2>3
  <2>4. CASE k0.receiver = "backlog" /\ k = [k0 EXCEPT !.receiver = "open"]
    <3>1. k0 \in Connection /\ "open" \in {"backlog", "open", "closed"}
      BY <2>1, <2>2
    <3>2. k \in Connection
      BY <2>4, <3>1 DEF Connection
    <3>3. k.open = k0.open /\ k.receiver = "open"
      BY <2>4, <3>1 DEF Connection
    <3>4. \A q : Holds(k0, q) => Holds(k, q)
      BY <2>4, HoldsAccepted
    <3> QED
      BY <2>2, <3>2, <3>3, <3>4
  <2> QED
    BY <1>5, <2>2, <2>3, <2>4
<1>7. /\ conns' = [c \in Channel |-> conns'[c]]
      /\ \A c \in Channel : conns'[c] = [n \in DOMAIN conns[c] |-> conns'[c][n]]
  <2>1. PICK g : g = conns'
    OBVIOUS
  <2>2. g = [c \in Channel |-> [n \in DOMAIN conns[c] |->
             IF c[2] = i /\ (accepting /\ conns[<<c[1], i>>][n].receiver = "backlog")
               THEN [conns[c][n] EXCEPT !.receiver = "open"] ELSE conns[c][n]]]
    BY <1>3, <2>1
  <2>3. g = [c \in Channel |-> g[c]]
    BY <2>2
  <2>4. \A c \in Channel : g[c] = [n \in DOMAIN conns[c] |-> g[c][n]]
    BY <2>2
  <2> QED
    BY <2>1, <2>3, <2>4
<1>8. /\ conns' \in Connections
      /\ \A c \in Channel : DOMAIN conns'[c] = DOMAIN conns[c]
      /\ \A c \in Channel, n \in Nat : View(conns', c, n) =
           IF n \in DOMAIN conns[c] THEN conns'[c][n] ELSE View(conns, c, n)
  BY <1>1, <1>6, <1>7, Mapped
<1>9. ASSUME NEW c \in Channel, NEW n \in Nat
      PROVE  /\ View(conns', c, n).open = View(conns, c, n).open
             /\ View(conns, c, n).receiver = "open" => View(conns', c, n).receiver = "open"
             /\ \A q : Holds(View(conns, c, n), q) => Holds(View(conns', c, n), q)
  <2>1. CASE n \in DOMAIN conns[c]
    <3>1. View(conns', c, n) = conns'[c][n] /\ View(conns, c, n) = conns[c][n]
      BY <1>1, <1>8, <2>1, ConnViews
    <3> QED
      BY <1>6, <2>1, <3>1
  <2>2. CASE n \notin DOMAIN conns[c]
    BY <1>8, <2>2
  <2> QED
    BY <2>1, <2>2
<1>10. ASSUME NEW y \in R
       PROVE  y \in Node \X Nat /\ View(conns, <<y[1], i>>, y[2]).receiver = "open"
  <2>1. y \in Accepted(i)
    BY <1>2
  <2>2. PICK j \in Node : y \in {<<j, n>> : n \in {x \in DOMAIN conns[<<j, i>>] :
                                                     conns[<<j, i>>][x].receiver = "open"}}
    BY <2>1 DEF Accepted
  <2>3. PICK n \in DOMAIN conns[<<j, i>>] : y = <<j, n>> /\ conns[<<j, i>>][n].receiver = "open"
    BY <2>2
  <2>4. n \in Nat /\ View(conns, <<j, i>>, n).receiver = "open"
    BY <1>1, <2>3, PeerView
  <2> QED
    BY <2>3, <2>4
<1>11. /\ ready' \in [Node -> SUBSET (Node \X Nat)] /\ ready'[i] = R
       /\ \A x \in Node \ {i} : ready'[x] = ready[x]
  <2>1. R \in SUBSET (Node \X Nat)
    BY <1>10
  <2>2. ready' = [ready EXCEPT ![i] = R] /\ ready \in [Node -> SUBSET (Node \X Nat)]
    BY <1>1, <1>2 DEF Types
  <2> QED
    BY <2>1, <2>2
<1>12. /\ at' \in [Node -> {"top", "sending", "serving", "ended"}]
       /\ \A x \in Node \ {i} : at'[x] = at[x]
  <2>1. /\ at' = [at EXCEPT ![i] = IF R = {} THEN "top" ELSE "serving"]
        /\ at \in [Node -> {"top", "sending", "serving", "ended"}]
    BY <1>1, <1>2 DEF Types
  <2> QED
    BY <2>1
<1>13. Types'
  BY <1>1, <1>4, <1>8, <1>11, <1>12 DEF Types, OnNodes, mainVars
<1>14. Linked'
  <2> SUFFICES ASSUME NEW a \in Node, NEW b \in Node, link[a][b] # 0
               PROVE  link[a][b] \in DOMAIN conns'[<<a, b>>] /\ View(conns', <<a, b>>, link[a][b]).open
    BY <1>4 DEF Linked
  <2>1. <<a, b>> \in Channel /\ link[a][b] \in Nat
    BY <1>1 DEF Types, Channel
  <2>2. link[a][b] \in DOMAIN conns[<<a, b>>] /\ View(conns, <<a, b>>, link[a][b]).open
    BY <1>1 DEF Linked
  <2> QED
    BY <1>8, <1>9, <2>1, <2>2
<1>15. Served'
  <2>1. ASSUME NEW x \in Node, NEW y \in Node \X Nat, View(conns, <<y[1], x>>, y[2]).receiver = "open"
        PROVE  View(conns', <<y[1], x>>, y[2]).receiver = "open"
    <3>1. <<y[1], x>> \in Channel /\ y[2] \in Nat
      BY DEF Channel
    <3> QED
      BY <1>9, <2>1, <3>1
  <2>2. ASSUME NEW x \in Node, NEW y \in ready'[x]
        PROVE  View(conns', <<y[1], x>>, y[2]).receiver = "open"
    <3>1. CASE x = i
      BY <1>10, <1>11, <2>1, <3>1
    <3>2. CASE x # i
      <4>1. y \in ready[x]
        BY <1>11, <3>2
      <4>2. y \in Node \X Nat /\ View(conns, <<y[1], x>>, y[2]).receiver = "open"
        BY <1>1, <4>1 DEF Types, Served
      <4> QED
        BY <2>1, <4>2
    <3> QED
      BY <3>1, <3>2
  <2>3. ASSUME NEW x \in Node, serving'[x] # <<>>
        PROVE  /\ at'[x] = "serving" /\ serving'[x] \in (Node \X Nat) \ ready'[x]
               /\ View(conns', <<serving'[x][1], x>>, serving'[x][2]).receiver = "open"
    <3>1. serving'[x] = serving[x] /\ serving[x] # <<>>
      BY <1>4, <2>3
    <3>2. /\ at[x] = "serving" /\ serving[x] \in (Node \X Nat) \ ready[x]
          /\ View(conns, <<serving[x][1], x>>, serving[x][2]).receiver = "open"
      BY <1>1, <3>1 DEF Served
    <3>3. x # i
      BY <1>4, <3>2
    <3>4. at'[x] = at[x] /\ ready'[x] = ready[x]
      BY <1>11, <1>12, <3>3
    <3>5. View(conns', <<serving[x][1], x>>, serving[x][2]).receiver = "open"
      BY <2>1, <3>2
    <3> QED
      BY <3>1, <3>2, <3>4, <3>5
  <2>4. \A x \in Node : decoded'[x] # <<>> => serving'[x] # <<>>
    BY <1>1, <1>4 DEF Served
  <2>5. \A x \in Node : batch'[x] # <<>> => at'[x] = "sending"
    BY <1>1, <1>4, <1>12 DEF Served
  <2> QED
    BY <2>2, <2>3, <2>4, <2>5 DEF Served
<1>16. Flow'
  <2>1. \A e \in Queue, x \in Node : QueueOf(e)'[x] = QueueOf(e)[x] \/ QueueOf(e)'[x] = <<>>
    BY <1>4 DEF Queue, QueueOf, mainVars
  <2>2. \A d \in Channel, x \in Nat \ {0} : \A q :
           Holds(View(conns, d, x), q) => Holds(View(conns', d, x), q) \/ Holds(View(conns', d, x), <<>>)
    BY <1>9
  <2>3. Lone' \subseteq Lone
    BY <1>1, <1>8, LoneLess DEF Types
  <2> QED
    BY <1>1, <1>4, <2>1, <2>2, <2>3, FlowEmptied DEF mainVars
<1> QED
  BY <1>13, <1>14, <1>15, <1>16 DEF TInv

\* A process that ends is not serving a connection.
LEMMA GoneInv ==
  ASSUME TInv, NEW i \in Node, at[i] \in {"top", "sending"}, Gone(i)
  PROVE  TInv'
<1>1. Types /\ Served /\ Linked /\ Flow
  BY DEF TInv
<1>2. conns' = [c \in Channel |-> [n \in DOMAIN conns[c] |->
        IF c[1] = i THEN Finished(conns[c][n])
        ELSE IF c[2] = i THEN Dropped(conns[c][n]) ELSE conns[c][n]]]
  BY DEF Gone
<1>3. /\ at' = [at EXCEPT ![i] = "ended"] /\ running' = [running EXCEPT ![i] = FALSE]
      /\ outbound' = [outbound EXCEPT ![i] = <<>>] /\ inbound' = [inbound EXCEPT ![i] = <<>>]
      /\ batch' = [batch EXCEPT ![i] = <<>>] /\ ready' = [ready EXCEPT ![i] = {}]
      /\ link' = [link EXCEPT ![i] = [j \in Node |-> 0]]
      /\ failed' = failed \cup Touching(i)
      /\ UNCHANGED <<mainVars, crashed, serving, decoded>>
  BY DEF Gone
<1>4. ASSUME NEW c \in Channel, NEW n \in DOMAIN conns[c]
      PROVE  /\ conns'[c][n] \in Connection
             /\ c[1] # i => conns'[c][n].open = conns[c][n].open
             /\ c[2] # i => conns'[c][n].receiver = conns[c][n].receiver
             /\ \A q : Holds(conns[c][n], q) => Holds(conns'[c][n], q) \/ Holds(conns'[c][n], <<>>)
  <2>1. PICK k0, k : k0 = conns[c][n] /\ k = conns'[c][n]
    OBVIOUS
  <2>2. k0 \in Connection
    BY <1>1, <2>1, ConnViews
  <2>3. k = IF c[1] = i THEN Finished(k0) ELSE IF c[2] = i THEN Dropped(k0) ELSE k0
    BY <1>2, <2>1
  <2>4. CASE c[1] = i
    <3>1. k = Finished(k0)
      BY <2>3, <2>4
    <3>2. k \in Connection
      BY <2>2, <3>1 DEF Finished, Connection
    <3>3. k.receiver = k0.receiver
      BY <2>2, <3>1 DEF Finished, Connection
    <3>4. \A q : Holds(k0, q) => Holds(k, q)
      BY <3>1, HoldsFinished
    <3> QED
      BY <2>1, <2>4, <3>2, <3>3, <3>4
  <2>5. CASE c[1] # i /\ c[2] = i
    <3>1. k = Dropped(k0)
      BY <2>3, <2>5
    <3>2. k \in Connection /\ k.open = k0.open
      BY <2>2, <3>1, DroppedFields
    <3>3. \A q : Holds(k0, q) => Holds(k, <<>>)
      BY <3>1, HoldsDropped
    <3> QED
      BY <2>1, <2>5, <3>2, <3>3
  <2>6. CASE c[1] # i /\ c[2] # i
    BY <2>1, <2>2, <2>3, <2>6
  <2> QED
    BY <2>4, <2>5, <2>6
<1>5. /\ conns' = [c \in Channel |-> conns'[c]]
      /\ \A c \in Channel : conns'[c] = [n \in DOMAIN conns[c] |-> conns'[c][n]]
  <2>1. PICK g : g = conns'
    OBVIOUS
  <2>2. g = [c \in Channel |-> [n \in DOMAIN conns[c] |->
          IF c[1] = i THEN Finished(conns[c][n])
          ELSE IF c[2] = i THEN Dropped(conns[c][n]) ELSE conns[c][n]]]
    BY <1>2, <2>1
  <2>3. g = [c \in Channel |-> g[c]]
    BY <2>2
  <2>4. \A c \in Channel : g[c] = [n \in DOMAIN conns[c] |-> g[c][n]]
    BY <2>2
  <2> QED
    BY <2>1, <2>3, <2>4
<1>6. /\ conns' \in Connections
      /\ \A c \in Channel : DOMAIN conns'[c] = DOMAIN conns[c]
      /\ \A c \in Channel, n \in Nat : View(conns', c, n) =
           IF n \in DOMAIN conns[c] THEN conns'[c][n] ELSE View(conns, c, n)
  BY <1>1, <1>4, <1>5, Mapped
<1>7. ASSUME NEW c \in Channel, NEW n \in Nat
      PROVE  /\ c[1] # i => View(conns', c, n).open = View(conns, c, n).open
             /\ c[2] # i => View(conns', c, n).receiver = View(conns, c, n).receiver
             /\ \A q : Holds(View(conns, c, n), q) =>
                  Holds(View(conns', c, n), q) \/ Holds(View(conns', c, n), <<>>)
  <2>1. CASE n \in DOMAIN conns[c]
    <3>1. View(conns', c, n) = conns'[c][n] /\ View(conns, c, n) = conns[c][n]
      BY <1>1, <1>6, <2>1, ConnViews
    <3> QED
      BY <1>4, <2>1, <3>1
  <2>2. CASE n \notin DOMAIN conns[c]
    BY <1>6, <2>2
  <2> QED
    BY <2>1, <2>2
<1>8. serving[i] = <<>> /\ decoded[i] = <<>>
  BY <1>1 DEF Served
<1>9. /\ ready' \in [Node -> SUBSET (Node \X Nat)] /\ ready'[i] = {}
      /\ \A x \in Node \ {i} : ready'[x] = ready[x]
  BY <1>1, <1>3 DEF Types
<1>10. /\ at' \in [Node -> {"top", "sending", "serving", "ended"}]
       /\ \A x \in Node \ {i} : at'[x] = at[x]
  BY <1>1, <1>3 DEF Types
<1>11. /\ OnNodes(batch)' /\ OnNodes(inbound)' /\ OnNodes(outbound)'
       /\ batch'[i] = <<>> /\ inbound'[i] = <<>> /\ outbound'[i] = <<>>
       /\ \A x \in Node \ {i} : /\ batch'[x] = batch[x] /\ inbound'[x] = inbound[x]
                                /\ outbound'[x] = outbound[x]
  BY <1>1, <1>3 DEF Types, OnNodes
<1>12. /\ link' \in [Node -> [Node -> Nat]] /\ \A b \in Node : link'[i][b] = 0
       /\ \A x \in Node \ {i} : link'[x] = link[x]
  <2>1. link \in [Node -> [Node -> Nat]]
    BY <1>1 DEF Types
  <2>2. PICK none : none = [j \in Node |-> 0]
    OBVIOUS
  <2>3. none \in [Node -> Nat] /\ \A b \in Node : none[b] = 0
    BY <2>2
  <2>4. link' = [link EXCEPT ![i] = none]
    BY <1>3, <2>2
  <2> QED
    BY <2>1, <2>3, <2>4
<1>13. Types'
  <2>1. running' \in [Node -> BOOLEAN] /\ failed' \subseteq Channel
    BY <1>1, <1>3 DEF Types, Touching
  <2> QED
    BY <1>1, <1>3, <1>6, <1>9, <1>10, <1>11, <1>12, <2>1 DEF Types, OnNodes, mainVars
<1>14. Linked'
  <2> SUFFICES ASSUME NEW a \in Node, NEW b \in Node, link'[a][b] # 0
               PROVE  link'[a][b] \in DOMAIN conns'[<<a, b>>] /\ View(conns', <<a, b>>, link'[a][b]).open
    BY DEF Linked
  <2>1. a # i /\ link'[a][b] = link[a][b]
    BY <1>12
  <2>2. <<a, b>> \in Channel /\ link[a][b] \in Nat /\ <<a, b>>[1] # i
    BY <1>1, <2>1 DEF Types, Channel
  <2>3. link[a][b] \in DOMAIN conns[<<a, b>>] /\ View(conns, <<a, b>>, link[a][b]).open
    BY <1>1, <2>1 DEF Linked
  <2> QED
    BY <1>6, <1>7, <2>1, <2>2, <2>3
<1>15. Served'
  <2>1. ASSUME NEW x \in Node \ {i}, NEW y \in Node \X Nat, View(conns, <<y[1], x>>, y[2]).receiver = "open"
        PROVE  View(conns', <<y[1], x>>, y[2]).receiver = "open"
    <3>1. <<y[1], x>> \in Channel /\ y[2] \in Nat /\ <<y[1], x>>[2] # i
      BY DEF Channel
    <3> QED
      BY <1>7, <2>1, <3>1
  <2>2. ASSUME NEW x \in Node, NEW y \in ready'[x]
        PROVE  View(conns', <<y[1], x>>, y[2]).receiver = "open"
    <3>1. x # i /\ y \in ready[x]
      BY <1>9
    <3>2. y \in Node \X Nat /\ View(conns, <<y[1], x>>, y[2]).receiver = "open"
      BY <1>1, <3>1 DEF Types, Served
    <3> QED
      BY <2>1, <3>1, <3>2
  <2>3. ASSUME NEW x \in Node, serving'[x] # <<>>
        PROVE  /\ at'[x] = "serving" /\ serving'[x] \in (Node \X Nat) \ ready'[x]
               /\ View(conns', <<serving'[x][1], x>>, serving'[x][2]).receiver = "open"
    <3>1. serving'[x] = serving[x] /\ serving[x] # <<>> /\ x # i
      BY <1>3, <1>8, <2>3
    <3>2. /\ at[x] = "serving" /\ serving[x] \in (Node \X Nat) \ ready[x]
          /\ View(conns, <<serving[x][1], x>>, serving[x][2]).receiver = "open"
      BY <1>1, <3>1 DEF Served
    <3>3. at'[x] = at[x] /\ ready'[x] = ready[x]
      BY <1>9, <1>10, <3>1
    <3>4. View(conns', <<serving[x][1], x>>, serving[x][2]).receiver = "open"
      BY <2>1, <3>1, <3>2
    <3> QED
      BY <3>1, <3>2, <3>3, <3>4
  <2>4. \A x \in Node : decoded'[x] # <<>> => serving'[x] # <<>>
    BY <1>1, <1>3 DEF Served
  <2>5. \A x \in Node : batch'[x] # <<>> => at'[x] = "sending"
    BY <1>1, <1>10, <1>11 DEF Served
  <2> QED
    BY <2>2, <2>3, <2>4, <2>5 DEF Served
<1>16. Flow'
  <2>1. \A e \in Queue, x \in Node : QueueOf(e)'[x] = QueueOf(e)[x] \/ QueueOf(e)'[x] = <<>>
    BY <1>3, <1>11 DEF Queue, QueueOf, mainVars
  <2>2. \A d \in Channel, x \in Nat \ {0} : \A q :
           Holds(View(conns, d, x), q) => Holds(View(conns', d, x), q) \/ Holds(View(conns', d, x), <<>>)
    BY <1>7
  <2>3. Lone' \subseteq Lone
    BY <1>1, <1>6, LoneLess DEF Types
  <2> QED
    BY <1>1, <1>3, <2>1, <2>2, <2>3, FlowEmptied DEF mainVars
<1> QED
  BY <1>13, <1>14, <1>15, <1>16 DEF TInv

\* Every step keeps the invariant.
LEMMA NextInv ==
  TInv /\ [Next]_vars => TInv'
<1>1. ASSUME TInv, NEW i \in Node, IoSends(i) PROVE TInv'
  <2>1. CASE Leave(i) \/ \E j \in Node : Killed(i, j)
    <3>1. at[i] \in {"top", "sending"} /\ Gone(i)
      BY <2>1 DEF Leave, Killed, Sending
    <3> QED
      BY <1>1, <3>1, GoneInv
  <2>2. CASE TakeOutbound(i)
    BY <1>1, <2>2, TakeInv
  <2>3. CASE Discard(i) \/ \E j \in Node : ConnectFails(i, j)
    BY <1>1, <2>3, DropInv
  <2>4. CASE Loopback(i)
    BY <1>1, <2>4, LoopbackInv
  <2>5. CASE \E j \in Node : Transmit(i, j)
    BY <1>1, <2>5, TransmitInv
  <2>6. CASE \E j \in Node : SendFails(i, j)
    BY <1>1, <2>6, SendFailsInv
  <2> QED
    BY <1>1, <2>1, <2>2, <2>3, <2>4, <2>5, <2>6 DEF IoSends
<1>2. ASSUME TInv, NEW i \in Node, IoReceives(i) PROVE TInv'
  <2>1. CASE Select(i)
    BY <1>2, <2>1, SelectInv
  <2>2. CASE SelectTimesOut(i)
    BY <1>2, <2>2, MainInv
  <2>3. CASE \E j \in Node : \E n \in DOMAIN conns[<<j, i>>] : ReadPeer(i, j, n) \/ PeerClosed(i, j, n)
    BY <1>2, <2>3, ReadInv, PeerClosedInv
  <2>4. CASE DecodeFrame(i)
    BY <1>2, <2>4, DecodeInv
  <2>5. CASE RefuseFrame(i)
    BY <1>2, <2>5, RefuseInv
  <2>6. CASE PushDecoded(i)
    BY <1>2, <2>6, PushInv
  <2> QED
    BY <1>2, <2>1, <2>2, <2>3, <2>4, <2>5, <2>6 DEF IoReceives
<1>3. ASSUME TInv, UNCHANGED vars PROVE TInv'
  <2>1. Types /\ Served /\ Linked /\ Flow
    BY <1>3 DEF TInv
  <2>2. /\ sent' = sent /\ handed' = handed /\ outbound' = outbound /\ inbound' = inbound
        /\ crashed' = crashed /\ running' = running /\ at' = at /\ batch' = batch
        /\ ready' = ready /\ serving' = serving /\ decoded' = decoded
        /\ link' = link /\ conns' = conns /\ failed' = failed
    BY <1>3 DEF vars, mainVars, ioVars, tcpVars
  <2>3. Types'
    BY <2>1, <2>2 DEF Types, OnNodes
  <2>4. Served'
    BY <2>1, <2>2 DEF Served
  <2>5. Linked'
    BY <2>1, <2>2 DEF Linked
  <2>6. Flow'
    <3>1. \A e \in Queue, j \in Node : QueueOf(e)'[j] = QueueOf(e)[j]
      BY <2>2 DEF Queue, QueueOf
    <3> QED
      BY <2>1, <2>2, <3>1, FlowKept
  <2> QED
    BY <2>3, <2>4, <2>5, <2>6 DEF TInv
<1>4. ASSUME TInv, NEW i \in Node, Crash(i) \/ Restore(i) \/ Stop(i) PROVE TInv'
  BY <1>4, MainInv
<1>5. ASSUME TInv, Next PROVE TInv'
  <2>1. PICK i \in Node :
          Send(i) \/ PumpInbound(i) \/ Crash(i) \/ Restore(i) \/ Stop(i) \/ IoSends(i) \/ IoReceives(i)
    BY <1>5 DEF Next
  <2> QED
    BY <1>1, <1>2, <1>4, <1>5, <2>1, SendInv, PumpInv
<1> QED
  BY <1>3, <1>5

\* The invariant holds in every reachable state.
LEMMA Invariant ==
  Spec => []TInv
<1>1. Init => TInv
  BY InitInv
<1>2. TInv /\ [Next]_vars => TInv'
  BY NextInv
<1> QED
  BY <1>1, <1>2, PTL DEF Spec

-----------------------------------------------------------------------------
(* What follows.                                                           *)

\* A connection seen to be open is among the accepted.
LEMMA AcceptedViews ==
  ASSUME Types, NEW i \in Node, NEW y \in Node \X Nat, View(conns, <<y[1], i>>, y[2]).receiver = "open"
  PROVE  y \in Accepted(i)
<1>1. PICK j \in Node, n \in Nat : y = <<j, n>>
  OBVIOUS
<1>2. View(conns, <<j, i>>, n).receiver = "open"
  BY <1>1
<1>3. n \in DOMAIN conns[<<j, i>>] /\ conns[<<j, i>>][n].receiver = "open"
  BY <1>2, NewConnectionFields DEF View
<1>4. y \in {<<j, x>> : x \in {z \in DOMAIN conns[<<j, i>>] : conns[<<j, i>>][z].receiver = "open"}}
  BY <1>1, <1>3
<1> QED
  BY <1>4 DEF Accepted

\* The io thread serves only connections it has accepted and writes only to
\* open ones, whatever is closed, crashed or stopped meanwhile.
THEOREM TransportTypes ==
  Spec => []TypeOK
<1>1. ASSUME TInv PROVE TypeOK
  <2>1. Types /\ Served /\ Linked
    BY <1>1 DEF TInv
  <2>2. \A i \in Node : sent[i] \in 0..Len(Script[i])
    BY <2>1, ScriptTypes DEF Types
  <2>3. ASSUME NEW i \in Node, NEW y \in ready[i] PROVE y \in Accepted(i)
    <3>1. y \in Node \X Nat /\ View(conns, <<y[1], i>>, y[2]).receiver = "open"
      BY <2>1 DEF Types, Served
    <3> QED
      BY <2>1, <3>1, AcceptedViews
  <2>4. ASSUME NEW i \in Node, serving[i] # <<>> PROVE at[i] = "serving" /\ serving[i] \in Accepted(i)
    <3>1. /\ at[i] = "serving" /\ serving[i] \in Node \X Nat
          /\ View(conns, <<serving[i][1], i>>, serving[i][2]).receiver = "open"
      BY <2>1, <2>4 DEF Served
    <3> QED
      BY <2>1, <3>1, AcceptedViews
  <2>5. ASSUME NEW i \in Node, NEW j \in Node, link[i][j] # 0
        PROVE  conns[<<i, j>>][link[i][j]].open
    BY <2>1, <2>5 DEF Linked, View
  <2>6. /\ crashed \in [Node -> BOOLEAN] /\ running \in [Node -> BOOLEAN]
        /\ at \in [Node -> {"top", "sending", "serving", "ended"}]
        /\ failed \subseteq Channel
    BY <2>1 DEF Types
  <2>7. /\ \A i \in Node : batch[i] # <<>> => at[i] = "sending"
        /\ \A i \in Node : decoded[i] # <<>> => serving[i] # <<>>
    BY <2>1 DEF Served
  <2> QED
    BY <2>2, <2>3, <2>4, <2>5, <2>6, <2>7 DEF TypeOK
<1> QED
  BY <1>1, Invariant, PTL

\* A message of a node is one of its script, of which it knows the place.
LEMMA Placed ==
  ASSUME NEW i \in Node, NEW k \in DOMAIN Script[i]
  PROVE  Place(i, Script[i][k]) = k
<1>1. \A l \in DOMAIN Script[i] : Script[i][l] = Script[i][k] <=> l = k
  BY ScriptAssumption
<1> QED
  BY <1>1 DEF Place

\* Messages that went over one connection are handed over in the order they
\* were sent in: no step of the io thread, no failure to send and no crash lets
\* one overtake another.
THEOREM InOrder ==
  Spec => []OrderedOnOneConnection
<1>1. ASSUME TInv PROVE OrderedOnOneConnection
  <2> SUFFICES ASSUME NEW i \in Node, NEW j \in Node, Len(conns[<<i, j>>]) <= 1,
                      NEW p \in DOMAIN handed[j], NEW q \in DOMAIN handed[j],
                      p < q, handed[j][p].from = i, handed[j][q].from = i
               PROVE  Place(i, handed[j][p]) < Place(i, handed[j][q])
    BY DEF OrderedOnOneConnection
  <2>1. Types /\ Flow
    BY <1>1 DEF TInv
  <2>2. PICK H : Once(H, SentSoFar) /\ Queued(H) /\ Carried(H) /\ Ordered(H, Lone)
    BY <2>1 DEF Flow
  <2>3. PICK b \in Box : b = QueueBox("handed", j)
    BY Boxes DEF Queue
  <2>4. H[b] = handed[j] /\ H[b] \in Seq(Proper(b, SentSoFar))
    BY <2>2, <2>3 DEF Queued, Once
  <2>5. p \in 1..Len(H[b]) /\ q \in 1..Len(H[b]) /\ p \in Nat /\ q \in Nat
    BY <2>4
  <2>6. PICK x, y : x = H[b][p] /\ y = H[b][q]
    OBVIOUS
  <2>7. x.from = i /\ y.from = i
    BY <2>4, <2>6
  <2>8. \A m \in Proper(b, SentSoFar) : m \in SentSoFar /\ m.to = j
    BY <2>3 DEF Proper, QueueBox
  <2>9. x \in SentSoFar /\ y \in SentSoFar /\ x.to = j /\ y.to = j
    BY <2>4, <2>5, <2>6, <2>8
  <2>10. \A m \in SentSoFar : m.from = i => \E k \in DOMAIN Script[i] : m = Script[i][k]
    <3> SUFFICES ASSUME NEW m \in SentSoFar, m.from = i
                 PROVE  \E k \in DOMAIN Script[i] : m = Script[i][k]
      OBVIOUS
    <3>1. sent \in [Node -> Nat] /\ \A z \in Node : sent[z] <= Len(Script[z])
      BY <2>1 DEF Types
    <3>2. PICK z \in Node : \E k \in 1..sent[z] : m = Script[z][k]
      BY <3>1, SentPlaces DEF SentSoFar
    <3>3. PICK k \in 1..sent[z] : m = Script[z][k]
      BY <3>2
    <3>4. k \in DOMAIN Script[z]
      BY <3>1, ScriptTypes
    <3>5. z = i
      BY <3>3, <3>4, SenderAssumption
    <3> QED
      BY <3>3, <3>4, <3>5
  <2>11. PICK k \in DOMAIN Script[i] : x = Script[i][k]
    BY <2>7, <2>9, <2>10
  <2>12. PICK l \in DOMAIN Script[i] : y = Script[i][l]
    BY <2>7, <2>9, <2>10
  <2>13. Place(i, x) = k /\ Place(i, y) = l /\ k \in Nat /\ l \in Nat
    BY <2>11, <2>12, Placed, ScriptTypes
  <2>14. <<i, j>> \in Lone
    BY DEF Lone, Channel
  <2>15. ~(l < k)
    <3> SUFFICES ASSUME l < k PROVE FALSE
      OBVIOUS
    <3>1. Precedes(y, x, Lone)
      BY <2>7, <2>9, <2>11, <2>12, <2>14 DEF Precedes
    <3>2. Stage(b) < Stage(b) \/ q < p
      BY <2>2, <2>5, <2>6, <3>1 DEF Ordered
    <3>3. Stage(b) \in 0..5
      BY Stages
    <3> QED
      BY <2>5, <3>2, <3>3
  <2>16. k # l
    <3> SUFFICES ASSUME k = l PROVE FALSE
      OBVIOUS
    <3>1. H[b][p] = H[b][q]
      BY <2>6, <2>11, <2>12
    <3>2. p = q
      BY <2>2, <2>5, <3>1 DEF Once
    <3> QED
      BY <2>5, <3>2
  <2> QED
    BY <2>4, <2>6, <2>13, <2>15, <2>16
<1> QED
  BY <1>1, Invariant, PTL

\* The operators of the abstract specification are those of the libraries.
LEMMA ChannelOperators ==
  /\ \A f : Promised!Range(f) = Range(f)
  /\ \A f : Promised!IsInjective(f) <=> IsInjective(f)
  /\ \A s, t : Promised!IsStrictPrefix(s, t) <=> IsStrictPrefix(s, t)
<1>1. ASSUME NEW f PROVE Promised!Range(f) = Range(f)
  BY DEF Promised!Range, Range
<1>2. ASSUME NEW f PROVE Promised!IsInjective(f) <=> IsInjective(f)
  BY DEF Promised!IsInjective, IsInjective
<1>3. ASSUME NEW s, NEW t PROVE Promised!IsStrictPrefix(s, t) <=> IsStrictPrefix(s, t)
  BY DEF Promised!IsStrictPrefix, Promised!IsPrefix, IsStrictPrefix, IsPrefix
<1> QED
  BY <1>1, <1>2, <1>3

\* pump_inbound hands over messages that were on their way, none of them twice.
LEMMA PumpHands ==
  ASSUME TInv, NEW i \in Node, PumpInbound(i)
  PROVE  Promised!Hand(i)
<1>1. Types /\ Flow
  BY DEF TInv
<1>2. PICK H : Once(H, SentSoFar) /\ Queued(H) /\ Carried(H) /\ Ordered(H, Lone)
  BY <1>1 DEF Flow
<1>3. PICK a \in Box, b \in Box : a = QueueBox("handed", i) /\ b = QueueBox("inbound", i) /\ a # b
  <2>1. "handed" \in Queue /\ "inbound" \in Queue /\ "handed" # "inbound"
    BY DEF Queue
  <2>2. /\ QueueBox("handed", i) \in Box /\ QueueBox("inbound", i) \in Box
        /\ QueueBox("handed", i) # QueueBox("inbound", i)
    BY <2>1, Boxes
  <2> QED
    BY <2>2, Zenon
<1>4. PICK old, new : old = handed[i] /\ new = inbound[i]
  OBVIOUS
<1>5. H[a] = old /\ H[b] = new
  BY <1>2, <1>3, <1>4 DEF Queued
<1>6. /\ \A k, l \in 1..Len(new) : new[k] = new[l] => k = l
      /\ \A k \in 1..Len(old), l \in 1..Len(new) : old[k] # new[l]
  BY <1>2, <1>3, <1>5 DEF Once
<1>7. old \in Seq(Message) /\ new \in Seq(Proper(b, SentSoFar)) /\ new \in Seq(Message)
  <2>1. "handed" \in Queue /\ "inbound" \in Queue
    BY DEF Queue
  <2>2. QueueOf("handed")[i] \in Seq(Message)
    BY <1>1, <2>1, QueueTypes
  <2>3. /\ QueueOf("inbound")[i] \in Seq(Proper(QueueBox("inbound", i), SentSoFar))
        /\ QueueOf("inbound")[i] \in Seq(Message)
    BY <1>1, <2>1, QueueTypes
  <2> QED
    BY <1>3, <1>4, <2>2, <2>3 DEF QueueOf
<1>8. /\ sent' = sent /\ new # <<>> /\ handed' = [handed EXCEPT ![i] = old \o new]
      /\ OnNodes(handed)
  BY <1>1, <1>4 DEF PumpInbound, Types
<1>9. handed'[i] = old \o new /\ \A j \in Node \ {i} : handed'[j] = handed[j]
  BY <1>8 DEF OnNodes
<1>10. PICK w : w = old \o new
  OBVIOUS
<1>11. SubSeq(w, 1, Len(old)) = old /\ SubSeq(w, Len(old) + 1, Len(w)) = new
  BY <1>7, <1>10, Parted
<1>12. Len(w) = Len(old) + Len(new) /\ Len(old) \in Nat /\ Len(new) \in Nat /\ Len(new) # 0
  <2>1. Len(old \o new) = Len(old) + Len(new) /\ Len(old) \in Nat /\ Len(new) \in Nat
    BY <1>7, Joined
  <2>2. Len(new) # 0
    BY <1>7, <1>8
  <2> QED
    BY <1>10, <2>1, <2>2
<1>13. IsStrictPrefix(old, w)
  <2>1. SubSeq(old, 1, Len(old)) = old
    BY <1>7
  <2>2. Len(old) <= Len(w) /\ old # w
    BY <1>12
  <2> QED
    BY <1>11, <2>1, <2>2 DEF IsStrictPrefix, IsPrefix
<1>14. DOMAIN new = 1..Len(new) /\ DOMAIN old = 1..Len(old)
  BY <1>7
<1>15. IsInjective(new)
  BY <1>6, <1>14 DEF IsInjective
<1>16. ASSUME NEW m \in Range(new) PROVE m \in Promised!OnTheWay(i)
  <2>1. PICK l \in 1..Len(new) : m = new[l]
    BY <1>14 DEF Range
  <2>2. m \in Proper(b, SentSoFar)
    BY <1>7, <2>1
  <2>3. m \in SentSoFar /\ m.to = i
    BY <1>3, <2>2 DEF Proper, QueueBox
  <2>4. m \notin Range(old)
    BY <1>6, <1>14, <2>1 DEF Range
  <2>5. m \in UNION {Range(SubSeq(Script[j], 1, sent[j])) : j \in Node}
    BY <2>3 DEF SentSoFar, SentUpTo
  <2>6. m \in UNION {Promised!Range(SubSeq(Script[j], 1, sent[j])) : j \in Node}
    BY <2>5, ChannelOperators
  <2>7. m \notin Promised!Range(handed[i])
    BY <1>4, <2>4, ChannelOperators
  <2> QED
    BY <2>3, <2>6, <2>7 DEF Promised!OnTheWay
<1>17. Promised!Range(new) \subseteq Promised!OnTheWay(i)
  BY <1>16, ChannelOperators
<1>18. SubSeq(handed'[i], Len(handed[i]) + 1, Len(handed'[i])) = new
  BY <1>4, <1>9, <1>10, <1>11
<1>19. Promised!IsStrictPrefix(handed[i], handed'[i])
  BY <1>4, <1>9, <1>10, <1>13, ChannelOperators
<1>20. Promised!IsInjective(new)
  BY <1>15, ChannelOperators
<1> QED
  BY <1>8, <1>9, <1>17, <1>18, <1>19, <1>20 DEF Promised!Hand

\* Every step is one of the channels, or none of theirs.
LEMMA ChannelStep ==
  ASSUME TInv, [Next]_vars
  PROVE  [Promised!Next]_(Promised!vars)
<1>1. ASSUME NEW i \in Node, Send(i) PROVE Promised!Send(i)
  BY <1>1 DEF Send, Promised!Send
<1>2. ASSUME UNCHANGED vars PROVE UNCHANGED Promised!vars
  BY <1>2 DEF vars, mainVars, Promised!vars
<1>3. ASSUME NEW i \in Node, Crash(i) \/ Restore(i) \/ Stop(i) PROVE UNCHANGED Promised!vars
  BY <1>3 DEF Crash, Restore, Stop, mainVars, Promised!vars
<1>4. ASSUME NEW i \in Node, IoSends(i) PROVE UNCHANGED Promised!vars
  <2>1. CASE Leave(i) \/ TakeOutbound(i) \/ Discard(i) \/ Loopback(i)
    BY <2>1 DEF Leave, Gone, TakeOutbound, Discard, Loopback, mainVars, Promised!vars
  <2>2. CASE \E j \in Node : ConnectFails(i, j) \/ Transmit(i, j) \/ SendFails(i, j) \/ Killed(i, j)
    BY <2>2 DEF ConnectFails, Transmit, SendFails, Killed, Gone, mainVars, Promised!vars
  <2> QED
    BY <1>4, <2>1, <2>2 DEF IoSends
<1>5. ASSUME NEW i \in Node, IoReceives(i) PROVE UNCHANGED Promised!vars
  <2>1. CASE Select(i) \/ SelectTimesOut(i) \/ DecodeFrame(i) \/ RefuseFrame(i) \/ PushDecoded(i)
    BY <2>1 DEF Select, SelectTimesOut, DecodeFrame, RefuseFrame, PushDecoded, mainVars, Promised!vars
  <2>2. CASE \E j \in Node : \E n \in DOMAIN conns[<<j, i>>] : ReadPeer(i, j, n) \/ PeerClosed(i, j, n)
    BY <2>2 DEF ReadPeer, PeerClosed, mainVars, Promised!vars
  <2> QED
    BY <1>5, <2>1, <2>2 DEF IoReceives
<1>6. ASSUME NEW i \in Node, Promised!Send(i) \/ Promised!Hand(i) PROVE Promised!Next
  BY <1>6 DEF Promised!Next
<1>7. CASE Next
  <2>1. PICK i \in Node :
          Send(i) \/ PumpInbound(i) \/ Crash(i) \/ Restore(i) \/ Stop(i) \/ IoSends(i) \/ IoReceives(i)
    BY <1>7 DEF Next
  <2> QED
    BY <1>1, <1>3, <1>4, <1>5, <1>6, <2>1, PumpHands
<1> QED
  BY <1>2, <1>7

\* The transport gives the nodes only messages that were sent to them, each at
\* most once and as it was sent, through every interleaving of the two threads
\* with partial writes, closed connections, thrown away buffers and crashes.
THEOREM DeliversAsPromised ==
  Spec => ImplementsChannels
<1>1. Init => Promised!Init
  BY DEF Init, Promised!Init
<1>2. TInv /\ [Next]_vars => [Promised!Next]_(Promised!vars)
  BY ChannelStep
<1> QED
  BY <1>1, <1>2, Invariant, PTL DEF Spec, ImplementsChannels, Promised!Spec

-----------------------------------------------------------------------------
(* Blobs: the entries that are packed into a text are unpacked from it.    *)

EncodedFold == INSTANCE Folding WITH Op <- LAMBDA c, ws, e :
                 ws \o AllWords(EntryFields, <<e.slot, e.ballot, e.command>>)
DecodedFold == INSTANCE Folding WITH Op <- LAMBDA c, r, k : DecodeEntry(r)

\* encode_entries_blob and the loop of decode_entries_blob are folds.
LEMMA BlobFolds ==
  /\ \A es : EncodeEntries(es) = EncodedFold!Fold(0, <<Len(es)>>, es)
  /\ \A start, ks : FoldLeft(LAMBDA s, k : DecodeEntry(s), start, ks) = DecodedFold!Fold(0, start, ks)
<1>1. \A es : EncodeEntries(es) = EncodedFold!Fold(0, <<Len(es)>>, es)
  BY DEF EncodeEntries, EncodedFold!Fold, EncodedFold!FoldLeft, FoldLeft,
         EncodedFold!MapThenFoldSet, MapThenFoldSet, EncodedFold!Max, Max
<1>2. \A start, ks : FoldLeft(LAMBDA s, k : DecodeEntry(s), start, ks) = DecodedFold!Fold(0, start, ks)
  BY DEF DecodedFold!Fold, DecodedFold!FoldLeft, FoldLeft,
         DecodedFold!MapThenFoldSet, MapThenFoldSet, DecodedFold!Max, Max
<1> QED
  BY <1>1, <1>2

\* Entries as the C++ code has them: neither slots nor ballots are negative, and
\* there are fewer than 2^31 of them.
IsEntry(e) ==
  /\ e = [slot |-> e.slot, ballot |-> e.ballot, command |-> e.command]
  /\ {e.slot, e.ballot} \subseteq 0..WordSize \div 2 - 1
  /\ IsText(e.command)

AreEntries(es) ==
  /\ es = [k \in 1..Len(es) |-> es[k]] /\ Len(es) \in 0..WordSize \div 2 - 1
  /\ \A k \in 1..Len(es) : IsEntry(es[k])

EntryValues(e) == <<e.slot, e.ballot, e.command>>
EntryWords(e)  == AllWords(EntryFields, EntryValues(e))

\* A number below half the size of a word is read as itself.
LEMMA SmallIsItself ==
  ASSUME NEW v \in 0..WordSize \div 2 - 1
  PROVE  v \in 0..WordSize - 1 /\ AsInt(v) = v /\ ~(AsInt(v) < 0)
<1>1. PICK h \in Nat : h = WordSize \div 2
  BY WordSizeAssumption
<1>2. h <= WordSize
  BY <1>1, WordSizeAssumption
<1>3. v \in Nat /\ v < h
  BY <1>1
<1>4. AsInt(v) = v
  BY <1>1, <1>3 DEF AsInt
<1>5. v \in 0..WordSize - 1
  BY <1>2, <1>3, WordSizeAssumption
<1> QED
  BY <1>3, <1>4, <1>5

\* One entry is read from its words, and leaves what follows.
LEMMA EntryBack ==
  ASSUME NEW e, IsEntry(e), NEW rest \in Seq(Nat), NEW es
  PROVE  /\ EntryWords(e) \in Seq(Nat)
         /\ DecodeEntry([ok |-> TRUE, left |-> EntryWords(e) \o rest, entries |-> es])
              = [ok |-> TRUE, left |-> rest, entries |-> Append(es, e)]
<1>1. PICK a, b, c : a = e.slot /\ b = e.ballot /\ c = e.command
  OBVIOUS
<1>2. /\ e = [slot |-> a, ballot |-> b, command |-> c] /\ IsText(c)
      /\ a \in 0..WordSize \div 2 - 1 /\ b \in 0..WordSize \div 2 - 1
  BY <1>1 DEF IsEntry
<1>3. /\ a \in 0..WordSize - 1 /\ b \in 0..WordSize - 1 /\ AsInt(a) = a /\ AsInt(b) = b
  BY <1>2, SmallIsItself
<1>4. FitsField("u32", a) /\ FitsField("u32", b) /\ FitsField("text", c)
  BY <1>2, <1>3 DEF FitsField
<1>5. DOMAIN EntryFields = 1..3 /\ \A x \in 1..3 : EntryFields[x] \in Kind
  BY DEF EntryFields, Kind
<1>6. PICK vs : vs = <<a, b, c>>
  OBVIOUS
<1>7. FitsFields(EntryFields, vs)
  <2>1. vs = [x \in 1..3 |-> vs[x]]
    BY <1>6
  <2>2. \A x \in 1..3 : FitsField(EntryFields[x], vs[x])
    BY <1>4, <1>6 DEF EntryFields
  <2> QED
    BY <1>5, <2>1, <2>2 DEF FitsFields
<1>8. PICK w : w = EntryWords(e)
  OBVIOUS
<1>9. /\ w \in Seq(Nat)
      /\ ReadFields(w \o rest, EntryFields) = [ok |-> TRUE, left |-> rest, values |-> vs]
  <2>1. w = AllWords(EntryFields, vs)
    BY <1>1, <1>6, <1>8 DEF EntryWords, EntryValues
  <2> QED
    BY <1>5, <1>7, <2>1, FieldsBack
<1>10. PICK f : f = ReadFields(w \o rest, EntryFields)
  OBVIOUS
<1>11. f.ok = TRUE /\ f.left = rest /\ f.values = vs
  BY <1>9, <1>10
<1>12. f.values[1] = a /\ f.values[2] = b /\ f.values[3] = c
  BY <1>6, <1>11
<1>13. PICK r : r = [ok |-> TRUE, left |-> w \o rest, entries |-> es]
  OBVIOUS
<1>14. r.ok = TRUE /\ r.left = w \o rest /\ r.entries = es
  BY <1>13
<1>15. DecodeEntry(r)
         = [ok |-> TRUE, left |-> rest,
            entries |-> Append(es, [slot |-> AsInt(a), ballot |-> AsInt(b), command |-> c])]
  BY <1>10, <1>11, <1>12, <1>14, Zenon DEF DecodeEntry
<1>16. DecodeEntry(r) = [ok |-> TRUE, left |-> rest, entries |-> Append(es, e)]
  BY <1>2, <1>3, <1>15, Zenon
<1> QED
  BY <1>8, <1>9, <1>13, <1>16, Zenon

\* g[k] are the words after k of n entries, t[k] those of the entries behind them.
Growing(es, n, g) ==
  g[0] = <<n>> /\ \A k \in 1..n : g[k] = g[k - 1] \o EntryWords(es[k])
Behind(es, n, t) ==
  t \in [0..n -> Seq(Nat)] /\ \A k \in 1..n : t[k - 1] = EntryWords(es[k]) \o t[k]

\* Each entry adds its own words, so all that is written begins the same, and the
\* whole has the entries from the next one on behind it.
LEMMA BlobParts ==
  ASSUME NEW es, AreEntries(es), NEW n \in Nat, n = Len(es), NEW g, Growing(es, n, g)
  PROVE  \E t : Behind(es, n, t) /\ g[n] = <<n>> \o t[0]
<1>0a. g[0] = <<n>> /\ \A k \in 1..n : g[k] = g[k - 1] \o EntryWords(es[k])
  BY DEF Growing
<1>1. ASSUME NEW k \in 1..n PROVE EntryWords(es[k]) \in Seq(Nat)
  <2>1. IsEntry(es[k]) /\ <<>> \in Seq(Nat)
    BY DEF AreEntries
  <2> QED
    BY <2>1, EntryBack
<1> DEFINE Begins(j) == \A k \in 0..j : g[k] \in Seq(Nat) /\ \E t \in Seq(Nat) : g[j] = g[k] \o t
           S == {j \in Nat : j <= n => Begins(j)}
<1>0. \A a, b, c \in Seq(Nat) : (a \o b) \o c = a \o (b \o c) /\ b \o c \in Seq(Nat)
  OBVIOUS
<1> HIDE DEF Begins
<1>2. 0 \in S
  <2>1. g[0] \in Seq(Nat) /\ <<>> \in Seq(Nat) /\ g[0] \o <<>> = g[0]
    BY <1>0a
  <2>2. \A k \in 0..0 : k = 0
    OBVIOUS
  <2>3. Begins(0)
    BY <2>1, <2>2 DEF Begins
  <2> QED
    BY <2>3
<1>3. ASSUME NEW j \in S PROVE j + 1 \in S
  <2>1. SUFFICES ASSUME j + 1 <= n PROVE Begins(j + 1)
    OBVIOUS
  <2>2. j \in Nat /\ j <= n /\ j + 1 \in 1..n /\ (j + 1) - 1 = j /\ j \in 0..j
    BY <2>1
  <2>3. Begins(j)
    BY <2>2
  <2>4. PICK w : w = EntryWords(es[j + 1])
    OBVIOUS
  <2>5. w \in Seq(Nat) /\ g[j + 1] = g[j] \o w /\ g[j] \in Seq(Nat)
    BY <1>1, <1>0a, <2>2, <2>3, <2>4 DEF Begins
  <2>6. g[j + 1] \in Seq(Nat)
    BY <2>5
  <2>7. ASSUME NEW k \in 0..j + 1
        PROVE  g[k] \in Seq(Nat) /\ \E t \in Seq(Nat) : g[j + 1] = g[k] \o t
    <3>1. CASE k = j + 1
      <4>1. <<>> \in Seq(Nat) /\ g[j + 1] \o <<>> = g[j + 1]
        BY <2>6
      <4> QED
        BY <2>6, <3>1, <4>1
    <3>2. CASE k # j + 1
      <4>1. k \in 0..j
        BY <2>2, <3>2
      <4>2. PICK t \in Seq(Nat) : g[j] = g[k] \o t /\ g[k] \in Seq(Nat)
        BY <2>3, <4>1 DEF Begins
      <4>3. PICK x \in Seq(Nat) : x = g[k]
        BY <4>2
      <4>4. (x \o t) \o w = x \o (t \o w) /\ t \o w \in Seq(Nat)
        BY <1>0, <2>5
      <4> QED
        BY <2>5, <4>2, <4>3, <4>4
    <3> QED
      BY <3>1, <3>2
  <2> QED
    BY <2>7 DEF Begins
<1>4. S = Nat
  <2> HIDE DEF S
  <2>1. S \in SUBSET Nat
    BY DEF S
  <2> QED
    BY <1>2, <1>3, <2>1, EncodedFold!AllNumbers
<1>5. Begins(n)
  BY <1>4
<1>6. PICK u \in Seq(Nat) : u = g[n]
  <2>1. n \in 0..n
    OBVIOUS
  <2> QED
    BY <1>5, <2>1 DEF Begins
<1> DEFINE t == [k \in 0..n |-> SubSeq(u, Len(g[k]) + 1, Len(u))]
<1>7. ASSUME NEW k \in 0..n PROVE g[k] \in Seq(Nat) /\ t[k] \in Seq(Nat) /\ u = g[k] \o t[k]
  <2>1. PICK a \in Seq(Nat), b \in Seq(Nat) : a = g[k] /\ u = a \o b
    BY <1>5, <1>6 DEF Begins
  <2>2. SubSeq(a \o b, Len(a) + 1, Len(a \o b)) = b
    BY Parted
  <2>3. t[k] = b
    BY <2>1, <2>2
  <2> QED
    BY <2>1, <2>3
<1>8. ASSUME NEW k \in 1..n PROVE t[k - 1] = EntryWords(es[k]) \o t[k]
  <2>1. k \in 0..n /\ k - 1 \in 0..n
    OBVIOUS
  <2>2. t[k - 1] = SubSeq(u, Len(g[k - 1]) + 1, Len(u))
    BY <2>1
  <2>3. /\ g[k] \in Seq(Nat) /\ t[k] \in Seq(Nat) /\ u = g[k] \o t[k]
        /\ g[k - 1] \in Seq(Nat)
    BY <1>7, <2>1
  <2> HIDE DEF t
  <2>4. PICK a \in Seq(Nat), w \in Seq(Nat), c \in Seq(Nat) :
          a = g[k - 1] /\ w = EntryWords(es[k]) /\ c = t[k]
    BY <1>1, <2>3
  <2>5. u = (a \o w) \o c
    BY <1>0a, <2>3, <2>4
  <2>6. PICK b \in Seq(Nat) : b = w \o c
    BY <1>0
  <2>7. (a \o w) \o c = a \o (w \o c)
    <3>1. \A x, y, z \in Seq(Nat) : Cat(Cat(x, y), z) = Cat(x, Cat(y, z))
      BY CatRegrouped
    <3>2. Cat(Cat(a, w), c) = Cat(a, Cat(w, c))
      BY <3>1
    <3> QED
      BY <3>2 DEF Cat
  <2>8. u = a \o b
    BY <2>5, <2>6, <2>7
  <2>9. SubSeq(a \o b, Len(a) + 1, Len(a \o b)) = b
    BY Parted
  <2> QED
    BY <2>2, <2>4, <2>6, <2>8, <2>9
<1>9. t \in [0..n -> Seq(Nat)]
  BY <1>7
<1> HIDE DEF t
<1>10. 0 \in 0..n
  OBVIOUS
<1>11. g[n] = <<n>> \o t[0]
  BY <1>0a, <1>6, <1>7, <1>10
<1> QED
  BY <1>8, <1>9, <1>11 DEF Behind

\* Entries that are packed come out again, all of them, in order and unaltered:
\* encode_entries_blob and decode_entries_blob agree, whatever the entries.
THEOREM EntriesBack ==
  ASSUME NEW es, AreEntries(es)
  PROVE  DecodeEntries(EncodeEntries(es)) = [ok |-> TRUE, entries |-> es]
<1>1. PICK n \in Nat : n = Len(es) /\ n \in 0..WordSize \div 2 - 1
  BY WordSizeAssumption DEF AreEntries
<1>2. DOMAIN es = 1..n
  BY <1>1 DEF AreEntries
<1>3. PICK g : EncodedFold!Runs(0, <<n>>, es, n, g) /\ EncodedFold!Fold(0, <<n>>, es) = g[n]
  BY <1>2, EncodedFold!FoldRuns
<1>4. EncodeEntries(es) = g[n]
  BY <1>1, <1>3, BlobFolds
<1>5. Growing(es, n, g)
  BY <1>3 DEF Growing, EncodedFold!Runs, EntryWords, EntryValues
<1>6. PICK t : Behind(es, n, t) /\ g[n] = <<n>> \o t[0]
  BY <1>1, <1>5, BlobParts
<1>6a. t \in [0..n -> Seq(Nat)] /\ \A k \in 1..n : t[k - 1] = EntryWords(es[k]) \o t[k]
  BY <1>6 DEF Behind
<1>7. PICK ws \in Seq(Nat) : ws = g[n] /\ ws # <<>> /\ ws[1] = n /\ Tail(ws) = t[0]
  <2>1. t[0] \in Seq(Nat)
    BY <1>6a
  <2>2. PICK a \in Seq(Nat) : a = t[0]
    BY <2>1
  <2>3. <<n>> \o a \in Seq(Nat) /\ <<n>> \o a # <<>> /\ (<<n>> \o a)[1] = n
    BY Headed
  <2>4. Tail(<<n>> \o a) = a
    OBVIOUS
  <2> QED
    BY <1>6, <2>2, <2>3, <2>4
<1> DEFINE V(k) == [x \in 1..k |-> es[x]]
           State(k) == [ok |-> TRUE, left |-> t[k], entries |-> V(k)]
           r == [k \in 0..n |-> State(k)]
           ks == [k \in 1..n |-> k]
<1>8. ASSUME NEW k \in 1..n PROVE r[k] = DecodeEntry(r[k - 1])
  <2>1. k \in 0..n /\ k - 1 \in 0..n /\ k - 1 \in Nat /\ (k - 1) + 1 = k
    OBVIOUS
  <2>2. IsEntry(es[k]) /\ t[k] \in Seq(Nat)
    BY <1>1, <1>6a, <2>1 DEF AreEntries
  <2>3. Append(V(k - 1), es[k]) = V(k)
    <3>1. \A j \in Nat : Append([x \in 1..j |-> es[x]], es[j + 1]) = [x \in 1..j + 1 |-> es[x]]
      BY Extended
    <3> QED
      BY <2>1, <3>1, Zenon
  <2> HIDE DEF V
  <2>4. r[k] = State(k) /\ r[k - 1] = State(k - 1)
    BY <2>1
  <2> HIDE DEF r
  <2>5. DecodeEntry([ok |-> TRUE, left |-> EntryWords(es[k]) \o t[k], entries |-> V(k - 1)])
          = [ok |-> TRUE, left |-> t[k], entries |-> Append(V(k - 1), es[k])]
    BY <2>2, EntryBack
  <2>6. t[k - 1] = EntryWords(es[k]) \o t[k]
    BY <1>6a
  <2> QED
    BY <2>3, <2>4, <2>5, <2>6, Zenon
<1>9. r[0] = State(0) /\ r[n] = State(n)
  BY <1>1
<1>10. V(0) = <<>> /\ V(n) = es
  BY <1>1 DEF AreEntries
<1>11. DOMAIN ks = 1..n
  OBVIOUS
<1> HIDE DEF r, ks, V
<1>12. DecodedFold!Runs(0, State(0), ks, n, r)
  BY <1>8, <1>9 DEF DecodedFold!Runs
<1>13. DecodedFold!Fold(0, State(0), ks) = State(n)
  BY <1>9, <1>11, <1>12, DecodedFold!FoldOf
<1>14. PICK z : z = FoldLeft(LAMBDA s, k : DecodeEntry(s), [ok |-> TRUE, left |-> Tail(ws), entries |-> <<>>],
                             [k \in 1..ws[1] |-> k])
  OBVIOUS
<1>15. z = [ok |-> TRUE, left |-> t[n], entries |-> es]
  <2>1. State(0) = [ok |-> TRUE, left |-> Tail(ws), entries |-> <<>>]
    BY <1>7, <1>10
  <2>2. ks = [k \in 1..ws[1] |-> k]
    BY <1>7 DEF ks
  <2>3. DecodedFold!Fold(0, State(0), ks) = z
    BY <1>14, <2>1, <2>2, BlobFolds
  <2> QED
    BY <1>10, <1>13, <2>3
<1>16. z.ok = TRUE /\ z.entries = es
  BY <1>15
<1>17. ~(ws = <<>> \/ AsInt(ws[1]) < 0)
  BY <1>1, <1>7, SmallIsItself
<1>18. DecodeEntries(ws) = [ok |-> z.ok, entries |-> z.entries]
  BY <1>14, <1>17, Zenon DEF DecodeEntries
<1> QED
  BY <1>4, <1>7, <1>16, <1>18

\* PaxosNode packs the entries it recovered, and nothing else, into the blobs of
\* promises and sync data.
PacksEntries ==
  \A i \in Node : \A k \in DOMAIN Script[i] : Script[i][k].to \in Node =>
    \A blob \in Blobs(Script[i][k]) : \E es : AreEntries(es) /\ blob = EncodeEntries(es)

\* The entries a node packs into a promise or sync data are those that
\* decode_entries_blob makes of it at the other end: no cut of a stream and no lost
\* connection changes them.
THEOREM EntriesArrive ==
  PacksEntries => (Spec => []EntriesSurvive)
<1> SUFFICES ASSUME PacksEntries PROVE Spec => []EntriesSurvive
  OBVIOUS
<1>1. ASSUME TInv PROVE EntriesSurvive
  <2> SUFFICES ASSUME NEW i \in Node, NEW m \in Range(handed[i]), NEW blob \in Blobs(m)
               PROVE  /\ DecodeEntries(blob).ok
                      /\ EncodeEntries(DecodeEntries(blob).entries) = blob
    BY DEF EntriesSurvive
  <2>1. Types /\ Flow
    BY <1>1 DEF TInv
  <2>2. PICK H : Once(H, SentSoFar) /\ Queued(H)
    BY <2>1 DEF Flow
  <2>3. PICK b \in Box : b = QueueBox("handed", i)
    BY Boxes DEF Queue
  <2>4. handed[i] \in Seq(Proper(b, SentSoFar))
    BY <2>2, <2>3 DEF Queued, Once
  <2>5. m \in Proper(b, SentSoFar)
    BY <2>4 DEF Range
  <2>6. m \in SentSoFar /\ m.to = i
    <3>1. \A x \in Proper(b, SentSoFar) : x \in SentSoFar /\ x.to = i
      BY <2>3 DEF Proper, QueueBox
    <3> QED
      BY <2>5, <3>1
  <2>7. PICK j \in Node : \E k \in DOMAIN Script[j] : m = Script[j][k]
    <3>1. sent \in [Node -> Nat] /\ \A z \in Node : sent[z] <= Len(Script[z])
      BY <2>1 DEF Types
    <3>2. PICK z \in Node : \E k \in 1..sent[z] : m = Script[z][k]
      BY <2>6, <3>1, SentPlaces DEF SentSoFar
    <3>3. PICK k \in 1..sent[z] : m = Script[z][k]
      BY <3>2
    <3>4. k \in DOMAIN Script[z]
      BY <3>1, ScriptTypes
    <3> QED
      BY <3>3, <3>4
  <2>8. PICK es : AreEntries(es) /\ blob = EncodeEntries(es)
    BY <2>6, <2>7 DEF PacksEntries
  <2>9. DecodeEntries(blob) = [ok |-> TRUE, entries |-> es]
    BY <2>8, EntriesBack
  <2> QED
    BY <2>8, <2>9
<1> QED
  BY <1>1, Invariant, PTL

====
