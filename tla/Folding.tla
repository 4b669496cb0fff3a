------------------------------ MODULE Folding ------------------------------
(***************************************************************************)
(* What a fold over a sequence is, for an arbitrary step Op: the laws of   *)
(* FoldLeft that the proofs about the folds of the model use, by INSTANCE. *)
(* The first parameter of Op is the same in all steps.                     *)
(*                                                                         *)
(* Numbers are gone through with the least number that has not some        *)
(* property, as a set of numbers (module WellFoundedInduction).            *)
(***************************************************************************)
EXTENDS Integers, SequencesExt, SequenceTheorems, WellFoundedInduction, TLAPS

CONSTANT Op(_, _, _)

Fold(c, base, seq) == FoldLeft(LAMBDA p, m : Op(c, p, m), base, seq)

-----------------------------------------------------------------------------
(* Numbers.                                                                *)

\* What holds of 0, and of n + 1 when it holds of n, holds of every number.
LEMMA AllNumbers ==
  ASSUME NEW S \in SUBSET Nat, 0 \in S, \A n \in S : n + 1 \in S
  PROVE  S = Nat
<1>1. ASSUME Nat \ S # {} PROVE FALSE
  <2>1. \E x \in Nat \ S : \A y \in Nat \ S : ~(<<y, x>> \in OpToRel(<, Nat))
    BY <1>1, WFMin, NatLessThanWellFounded
  <2>2. \E x \in Nat \ S : \A y \in Nat \ S : ~(y < x)
    BY <2>1 DEF OpToRel
  <2>3. PICK x \in Nat \ S : \A y \in Nat \ S : ~(y < x)
    BY <2>2
  <2>4. x \in Nat /\ x # 0
    BY <2>3
  <2>5. x - 1 \in Nat /\ x - 1 < x /\ (x - 1) + 1 = x
    BY <2>4
  <2>6. x - 1 \in Nat \ S
    BY <2>3, <2>5
  <2> QED
    BY <2>3, <2>5, <2>6
<1> QED
  BY <1>1

\* Numbers up to n have a greatest one.
LEMMA MaxIs ==
  ASSUME NEW n \in Nat
  PROVE  \A s \in SUBSET (1..n) : s # {} => Max(s) \in s /\ \A y \in s : y <= Max(s)
<1> DEFINE Tops(s) == \E x \in s : \A y \in s : x >= y
           S == {k \in Nat : \A s \in SUBSET (1..k) : s # {} => Tops(s)}
<1>1. 0 \in S
  <2>1. \A s \in SUBSET (1..0) : s = {}
    OBVIOUS
  <2> QED
    BY <2>1
<1>2. ASSUME NEW k \in S PROVE k + 1 \in S
  <2>1. SUFFICES ASSUME NEW s \in SUBSET (1..k + 1), s # {} PROVE Tops(s)
    OBVIOUS
  <2>2. CASE k + 1 \in s
    BY <2>2
  <2>3. CASE k + 1 \notin s
    <3>1. s \in SUBSET (1..k)
      BY <2>3
    <3> QED
      BY <2>1, <3>1
  <2> QED
    BY <2>2, <2>3
<1>3. S = Nat
  <2> HIDE DEF S
  <2>1. S \in SUBSET Nat
    BY DEF S
  <2> QED
    BY <1>1, <1>2, <2>1, AllNumbers
<1>4. ASSUME NEW s \in SUBSET (1..n), s # {} PROVE Max(s) \in s /\ \A y \in s : Max(s) >= y
  <2>1. Tops(s)
    BY <1>3, <1>4
  <2> QED
    BY <2>1 DEF Max
<1> QED
  BY <1>4

-----------------------------------------------------------------------------
(* The fold as FoldLeft defines it, over sets of indices.                  *)

Step(c, base, seq, f, s) ==
  IF s = {} THEN base ELSE Op(c, f[s \ {Max(s)}], seq[Max(s)])

IsFold(c, base, seq, n, f) == f = [s \in SUBSET (1..n) |-> Step(c, base, seq, f, s)]

LEMMA FoldExists ==
  ASSUME NEW c, NEW base, NEW seq
  PROVE  \A n \in Nat : \E f : IsFold(c, base, seq, n, f)
<1> DEFINE S == {n \in Nat : \E f : IsFold(c, base, seq, n, f)}
<1>1. 0 \in S
  <2> DEFINE f == [s \in SUBSET (1..0) |-> base]
  <2>1. IsFold(c, base, seq, 0, f)
    BY DEF IsFold, Step
  <2> QED
    BY <2>1
<1>2. ASSUME NEW n \in S PROVE n + 1 \in S
  <2>1. PICK f : IsFold(c, base, seq, n, f)
    OBVIOUS
  <2> DEFINE g == [s \in SUBSET (1..n + 1) |->
               IF n + 1 \in s THEN Op(c, f[s \ {n + 1}], seq[n + 1]) ELSE f[s]]
  <2>2. ASSUME NEW s \in SUBSET (1..n + 1) PROVE g[s] = Step(c, base, seq, g, s)
    <3>1. CASE s = {}
      <4>1. f[s] = base
        BY <2>1, <3>1 DEF IsFold, Step
      <4> QED
        BY <3>1, <4>1 DEF Step
    <3>2. CASE n + 1 \in s
      <4>1. Max(s) = n + 1
        <5>1. n + 1 \in Nat /\ s # {}
          BY <3>2
        <5>2. Max(s) \in s /\ \A y \in s : y <= Max(s)
          BY <5>1, MaxIs
        <5>3. Max(s) \in 1..n + 1 /\ n + 1 <= Max(s)
          BY <3>2, <5>2
        <5> QED
          BY <5>3
      <4>2. s \ {n + 1} \in SUBSET (1..n + 1) /\ n + 1 \notin s \ {n + 1}
        OBVIOUS
      <4>3. g[s \ {n + 1}] = f[s \ {n + 1}]
        BY <4>2
      <4> QED
        BY <3>2, <4>1, <4>3 DEF Step
    <3>3. CASE s # {} /\ n + 1 \notin s
      <4>1. s \in SUBSET (1..n)
        BY <3>3
      <4>2. f[s] = Op(c, f[s \ {Max(s)}], seq[Max(s)])
        BY <2>1, <3>3, <4>1 DEF IsFold, Step
      <4>3. s \ {Max(s)} \in SUBSET (1..n + 1) /\ n + 1 \notin s \ {Max(s)}
        BY <3>3
      <4>4. g[s \ {Max(s)}] = f[s \ {Max(s)}]
        BY <4>3
      <4>5. g[s] = f[s]
        BY <3>3
      <4> QED
        BY <3>3, <4>2, <4>4, <4>5 DEF Step
    <3> QED
      BY <3>1, <3>2, <3>3
  <2>3. IsFold(c, base, seq, n + 1, g)
    <3>1. g = [s \in SUBSET (1..n + 1) |-> g[s]]
      OBVIOUS
    <3> HIDE DEF g
    <3> QED
      BY <2>2, <3>1 DEF IsFold
  <2> QED
    BY <2>3
<1>3. S = Nat
  <2> HIDE DEF S
  <2>1. S \in SUBSET Nat
    BY DEF S
  <2> QED
    BY <1>1, <1>2, <2>1, AllNumbers
<1> QED
  BY <1>3

LEMMA FoldIs ==
  ASSUME NEW c, NEW base, NEW seq, NEW n \in Nat, DOMAIN seq = 1..n
  PROVE  \E f : IsFold(c, base, seq, n, f) /\ Fold(c, base, seq) = f[1..n]
<1> DEFINE f == CHOOSE f : IsFold(c, base, seq, n, f)
<1>1. IsFold(c, base, seq, n, f)
  BY FoldExists
<1>2. Fold(c, base, seq) = f[1..n]
  BY DEF Fold, FoldLeft, MapThenFoldSet, IsFold, Step
<1> QED
  BY <1>1, <1>2

-----------------------------------------------------------------------------
(* The fold, element after element.                                        *)

\* g[k] is the fold over the first k of n elements.
Runs(c, base, seq, n, g) == g[0] = base /\ \A k \in 1..n : g[k] = Op(c, g[k - 1], seq[k])

\* A fold takes the elements one by one: that is what Settled makes of the lines on
\* their way to a page, and EncodeEntries of the entries of a log.
LEMMA FoldRuns ==
  ASSUME NEW c, NEW base, NEW seq, NEW n \in Nat, DOMAIN seq = 1..n
  PROVE  \E g : Runs(c, base, seq, n, g) /\ Fold(c, base, seq) = g[n]
<1>1. PICK f : IsFold(c, base, seq, n, f) /\ Fold(c, base, seq) = f[1..n]
  BY FoldIs
<1> DEFINE g == [k \in 0..n |-> f[1..k]]
<1>2. g[0] = base
  <2>1. 1..0 = {} /\ {} \in SUBSET (1..n)
    OBVIOUS
  <2>2. f[{}] = base
    BY <1>1, <2>1 DEF IsFold, Step
  <2> QED
    BY <2>1, <2>2
<1>3. ASSUME NEW k \in 1..n PROVE g[k] = Op(c, g[k - 1], seq[k])
  <2>1. k \in Nat /\ 1..k \in SUBSET (1..n) /\ k \in 1..k /\ 1..k # {}
    <3>1. k \in Nat /\ k >= 1 /\ k <= n
      OBVIOUS
    <3>2. \A x \in 1..k : x \in 1..n
      BY <3>1
    <3>3. k \in 1..k
      BY <3>1
    <3>4. 1..k \in SUBSET (1..n)
      BY <3>2
    <3> QED
      BY <3>1, <3>3, <3>4
  <2>2. Max(1..k) = k
    <3>1. Max(1..k) \in 1..k /\ \A y \in 1..k : y <= Max(1..k)
      BY <2>1, MaxIs
    <3> QED
      BY <2>1, <3>1
  <2>3. (1..k) \ {k} = 1..(k - 1)
    OBVIOUS
  <2>4. f[1..k] = Op(c, f[(1..k) \ {Max(1..k)}], seq[Max(1..k)])
    BY <1>1, <2>1 DEF IsFold, Step
  <2>5. k \in 0..n /\ k - 1 \in 0..n
    OBVIOUS
  <2> QED
    BY <2>2, <2>3, <2>4, <2>5
<1>4. g[n] = f[1..n]
  OBVIOUS
<1> HIDE DEF g
<1> QED
  BY <1>1, <1>2, <1>3, <1>4 DEF Runs

LEMMA RunsAgree ==
  ASSUME NEW c, NEW base, NEW p, NEW q, NEW n \in Nat, NEW g, NEW h,
         \A k \in 1..n : p[k] = q[k],
         Runs(c, base, p, n, g), Runs(c, base, q, n, h)
  PROVE  \A k \in 0..n : g[k] = h[k]
<1> DEFINE S == {k \in Nat : k <= n => g[k] = h[k]}
<1>1. 0 \in S
  BY DEF Runs
<1>2. ASSUME NEW k \in S PROVE k + 1 \in S
  <2>1. SUFFICES ASSUME k + 1 <= n PROVE g[k + 1] = h[k + 1]
    OBVIOUS
  <2>2. k + 1 \in 1..n /\ (k + 1) - 1 = k /\ k <= n
    BY <2>1
  <2>3. g[k] = h[k]
    BY <2>2
  <2>4. p[k + 1] = q[k + 1]
    BY <2>2
  <2>5. g[k + 1] = Op(c, g[k], p[k + 1]) /\ h[k + 1] = Op(c, h[k], q[k + 1])
    BY <2>2 DEF Runs
  <2> QED
    BY <2>3, <2>4, <2>5
<1>3. S = Nat
  <2> HIDE DEF S
  <2>1. S \in SUBSET Nat
    BY DEF S
  <2> QED
    BY <1>1, <1>2, <2>1, AllNumbers
<1> QED
  BY <1>3

\* Whatever goes through the elements in this way, as the loops of the code do, ends
\* with the fold.
LEMMA FoldOf ==
  ASSUME NEW c, NEW base, NEW seq, NEW n \in Nat, DOMAIN seq = 1..n,
         NEW g, Runs(c, base, seq, n, g)
  PROVE  Fold(c, base, seq) = g[n]
<1>1. PICK h : Runs(c, base, seq, n, h) /\ Fold(c, base, seq) = h[n]
  BY FoldRuns
<1>2. n \in 0..n
  OBVIOUS
<1>3. \A k \in 0..n : g[k] = h[k]
  BY <1>1, RunsAgree
<1> QED
  BY <1>1, <1>2, <1>3

\* Without elements, the loop leaves what it started with.
LEMMA FoldEmpty == \A c, base : Fold(c, base, <<>>) = base
<1> SUFFICES ASSUME NEW c, NEW base PROVE Fold(c, base, <<>>) = base
  OBVIOUS
<1>1. DOMAIN <<>> = 1..0
  OBVIOUS
<1>2. PICK g : Runs(c, base, <<>>, 0, g) /\ Fold(c, base, <<>>) = g[0]
  BY <1>1, FoldRuns
<1> QED
  BY <1>2 DEF Runs

\* One element more, at the end.
LEMMA FoldAppend ==
  ASSUME NEW c, NEW base, NEW S, NEW q \in Seq(S), NEW e \in S
  PROVE  Fold(c, base, Append(q, e)) = Op(c, Fold(c, base, q), e)
<1> DEFINE n == Len(q)  r == Append(q, e)
<1>1. n \in Nat /\ DOMAIN q = 1..n /\ DOMAIN r = 1..n + 1
  OBVIOUS
<1>2. r[n + 1] = e /\ \A k \in 1..n : r[k] = q[k]
  OBVIOUS
<1> HIDE DEF n, r
<1>3. PICK g : Runs(c, base, r, n + 1, g) /\ Fold(c, base, r) = g[n + 1]
  BY <1>1, FoldRuns
<1>4. \A k \in 1..n : k \in 1..n + 1
  BY <1>1
<1>5. Runs(c, base, q, n, g)
  BY <1>2, <1>3, <1>4 DEF Runs
<1>6. Fold(c, base, q) = g[n]
  BY <1>1, <1>5, FoldOf
<1>7. n + 1 \in 1..n + 1 /\ (n + 1) - 1 = n
  BY <1>1
<1>8. g[n + 1] = Op(c, g[n], r[n + 1])
  BY <1>3, <1>7 DEF Runs
<1> QED
  BY <1>2, <1>3, <1>6, <1>8 DEF r

\* One element more, in front.
LEMMA FoldHead ==
  ASSUME NEW c, NEW base, NEW S, NEW q \in Seq(S), q # <<>>
  PROVE  Fold(c, base, q) = Fold(c, Op(c, base, Head(q)), Tail(q))
<1> DEFINE n == Len(q)  r == Tail(q)
<1>1. n \in Nat /\ n - 1 \in Nat /\ DOMAIN q = 1..n /\ DOMAIN r = 1..n - 1
  OBVIOUS
<1>2. Head(q) = q[1] /\ \A k \in 1..n - 1 : r[k] = q[k + 1]
  OBVIOUS
<1> HIDE DEF n, r
<1>3. PICK g : Runs(c, base, q, n, g) /\ Fold(c, base, q) = g[n]
  BY <1>1, FoldRuns
<1> DEFINE h == [k \in 0..n - 1 |-> g[k + 1]]
<1>4. h[0] = Op(c, base, Head(q))
  <2>1. 1 \in 1..n /\ 0 \in 0..n - 1 /\ 1 - 1 = 0 /\ 0 + 1 = 1
    BY <1>1
  <2>2. g[1] = Op(c, g[0], q[1]) /\ g[0] = base
    BY <1>3, <2>1 DEF Runs
  <2> QED
    BY <1>2, <2>1, <2>2
<1>5. ASSUME NEW k \in 1..n - 1 PROVE h[k] = Op(c, h[k - 1], r[k])
  <2>1. k + 1 \in 1..n /\ (k + 1) - 1 = k /\ k \in 0..n - 1 /\ k - 1 \in 0..n - 1 /\ (k - 1) + 1 = k
    BY <1>1
  <2>2. g[k + 1] = Op(c, g[k], q[k + 1])
    BY <1>3, <2>1 DEF Runs
  <2> QED
    BY <1>2, <2>1, <2>2
<1>6. h[n - 1] = g[n]
  <2>1. n - 1 \in 0..n - 1 /\ (n - 1) + 1 = n
    BY <1>1
  <2> QED
    BY <2>1
<1> HIDE DEF h
<1>7. Runs(c, Op(c, base, Head(q)), r, n - 1, h)
  BY <1>4, <1>5 DEF Runs
<1>8. Fold(c, Op(c, base, Head(q)), r) = h[n - 1]
  BY <1>1, <1>7, FoldOf
<1> QED
  BY <1>3, <1>6, <1>8 DEF r

\* If the fold over k elements is in T[k] and the next step leads from there to
\* T[k + 1], the fold over n elements is in T[n].
LEMMA FoldStaysIn ==
  ASSUME NEW c, NEW base, NEW seq, NEW n \in Nat, DOMAIN seq = 1..n, NEW T,
         base \in T[0],
         \A k \in 1..n : \A p \in T[k - 1] : Op(c, p, seq[k]) \in T[k]
  PROVE  Fold(c, base, seq) \in T[n]
<1>1. PICK g : Runs(c, base, seq, n, g) /\ Fold(c, base, seq) = g[n]
  BY FoldRuns
<1> DEFINE S == {k \in Nat : k <= n => g[k] \in T[k]}
<1>2. 0 \in S
  BY <1>1 DEF Runs
<1>3. ASSUME NEW k \in S PROVE k + 1 \in S
  <2>1. SUFFICES ASSUME k + 1 <= n PROVE g[k + 1] \in T[k + 1]
    OBVIOUS
  <2>2. k + 1 \in 1..n /\ (k + 1) - 1 = k /\ k <= n
    BY <2>1
  <2>3. g[k] \in T[k]
    BY <2>2
  <2>4. g[k + 1] = Op(c, g[k], seq[k + 1])
    BY <1>1, <2>2 DEF Runs
  <2> QED
    BY <2>2, <2>3, <2>4
<1>4. S = Nat
  <2> HIDE DEF S
  <2>1. S \in SUBSET Nat
    BY DEF S
  <2> QED
    BY <1>2, <1>3, <2>1, AllNumbers
<1> QED
  BY <1>1, <1>4
============================================================================
