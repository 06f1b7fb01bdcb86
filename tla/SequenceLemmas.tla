-------------------------- MODULE SequenceLemmas ---------------------------
(***************************************************************************)
(* What the proofs need of sequences, and of quotients, in forms the       *)
(* provers can use: no operator parameters.                                *)
(***************************************************************************)
EXTENDS SequencesExt, SequenceTheorems, WellFoundedInduction, TLAPS

\* A nonempty set of naturals has a least element: the induction principle of
\* the proofs, in a form without an operator parameter.
LEMMA LeastElement ==
  ASSUME NEW I, I \subseteq Nat, I # {}
  PROVE  \E i \in I : \A j \in I : i <= j
<1> DEFINE R == OpToRel(<, Nat)
<1>1. R = {ss \in Nat \X Nat : ss[1] < ss[2]}
  BY Zenon DEF OpToRel
<1>2. \A i, j \in Nat : i < j => <<i, j>> \in R
  BY <1>1
<1>3. IsWellFoundedOn(R, Nat)
  BY NatLessThanWellFounded
<1> HIDE DEF R
<1>4. PICK i \in I : \A j \in I : ~(<<j, i>> \in R)
  BY <1>3, WFMin
<1>5. ASSUME NEW j \in I PROVE i <= j
  <2>1. i \in Nat /\ j \in Nat
    OBVIOUS
  <2>2. ~(j < i)
    BY <1>2, <1>4, <2>1
  <2> QED BY <2>1, <2>2
<1> QED
  BY <1>5

\* Where the elements of a concatenation and of a subsequence come from.
LEMMA ConcatAt ==
  ASSUME NEW S, NEW a \in Seq(S), NEW b \in Seq(S)
  PROVE  /\ a \o b \in Seq(S)
         /\ Len(a \o b) = Len(a) + Len(b)
         /\ \A i \in 1 .. Len(a) : (a \o b)[i] = a[i]
         /\ \A i \in 1 .. Len(b) : (a \o b)[Len(a) + i] = b[i]
<1>1. /\ a \o b \in Seq(S) /\ Len(a \o b) = Len(a) + Len(b)
      /\ \A i \in 1 .. Len(a) + Len(b) :
           (a \o b)[i] = IF i <= Len(a) THEN a[i] ELSE b[i - Len(a)]
  BY ConcatProperties
<1>2. ASSUME NEW i \in 1 .. Len(a) PROVE (a \o b)[i] = a[i]
  BY <1>1
<1>3. ASSUME NEW i \in 1 .. Len(b) PROVE (a \o b)[Len(a) + i] = b[i]
  <2>1. /\ Len(a) + i \in 1 .. Len(a) + Len(b)
        /\ ~(Len(a) + i <= Len(a))
        /\ Len(a) + i - Len(a) = i
    OBVIOUS
  <2> QED BY <1>1, <2>1
<1> QED BY <1>1, <1>2, <1>3

\* What RemoveAt leaves of a sequence.
LEMMA RemoveAtRemoves ==
  ASSUME NEW S, NEW s \in Seq(S), NEW p \in 1 .. Len(s)
  PROVE  /\ RemoveAt(s, p) \in Seq(S)
         /\ Len(RemoveAt(s, p)) = Len(s) - 1
         /\ \A i \in 1 .. p - 1 : RemoveAt(s, p)[i] = s[i]
         /\ \A i \in 1 .. Len(s) - p : RemoveAt(s, p)[p - 1 + i] = s[p + i]
<1> DEFINE n == Len(s)
           a == SubSeq(s, 1, p - 1)
           b == SubSeq(s, p + 1, n)
           u == a \o b
<1>1. n \in Nat /\ n = Len(s) /\ p \in 1 .. n
  OBVIOUS
<1>2. /\ a \in Seq(S) /\ Len(a) = p - 1
      /\ \A i \in 1 .. p - 1 : a[i] = s[i]
  BY <1>1, SubSeqProperties
<1>3. /\ b \in Seq(S) /\ Len(b) = n - p
      /\ \A i \in 1 .. n - p : b[i] = s[p + i]
  BY <1>1, SubSeqProperties
<1>4. RemoveAt(s, p) = u
  BY DEF RemoveAt
<1> HIDE DEF n, a, b
<1>5. p - 1 \in Nat /\ n - p \in Nat /\ (p - 1) + (n - p) = n - 1
  BY <1>1
<1>6. /\ u \in Seq(S) /\ Len(u) = Len(a) + Len(b)
      /\ \A i \in 1 .. Len(a) : u[i] = a[i]
      /\ \A i \in 1 .. Len(b) : u[Len(a) + i] = b[i]
  <2>1. a \in Seq(S) /\ b \in Seq(S)
    BY <1>2, <1>3
  <2> QED BY <2>1, ConcatAt
<1> HIDE DEF u
<1>7. /\ u \in Seq(S) /\ Len(u) = n - 1
      /\ \A i \in 1 .. p - 1 : u[i] = a[i]
      /\ \A i \in 1 .. n - p : u[p - 1 + i] = b[i]
  BY <1>2, <1>3, <1>5, <1>6
<1> QED BY <1>1, <1>2, <1>3, <1>4, <1>7

\* Removing an element leaves others of the sequence, in their order.
LEMMA RemoveAtKeepsOrder ==
  ASSUME NEW S, NEW s \in Seq(S), NEW p \in 1 .. Len(s)
  PROVE  \E g \in [DOMAIN RemoveAt(s, p) -> DOMAIN s] :
           /\ \A i \in DOMAIN RemoveAt(s, p) : RemoveAt(s, p)[i] = s[g[i]] /\ g[i] # p
           /\ \A i, j \in DOMAIN RemoveAt(s, p) : i < j => g[i] < g[j]
<1> DEFINE n == Len(s)
           u == RemoveAt(s, p)
           g == [i \in DOMAIN u |-> IF i < p THEN i ELSE i + 1]
<1>1. n \in Nat /\ p \in 1 .. n /\ DOMAIN s = 1 .. n
  OBVIOUS
<1>2. /\ u \in Seq(S) /\ Len(u) = n - 1
      /\ \A i \in 1 .. p - 1 : u[i] = s[i]
      /\ \A i \in 1 .. n - p : u[p - 1 + i] = s[p + i]
  BY RemoveAtRemoves
<1> HIDE DEF n, u
<1>3. DOMAIN u = 1 .. n - 1
  BY <1>2
<1>4. ASSUME NEW i \in DOMAIN u PROVE g[i] \in DOMAIN s /\ u[i] = s[g[i]]
  <2>1. CASE i < p
    BY <1>1, <1>2, <1>3, <2>1
  <2>2. CASE ~(i < p)
    <3>1. i - (p - 1) \in 1 .. n - p
      BY <1>1, <1>3, <2>2
    <3>2. u[p - 1 + (i - (p - 1))] = s[p + (i - (p - 1))]
      BY <1>2, <3>1
    <3> QED BY <1>1, <1>3, <2>2, <3>2
  <2> QED BY <2>1, <2>2
<1>5. \A i, j \in DOMAIN u : i < j => g[i] < g[j]
  BY <1>1, <1>3
<1>6. g \in [DOMAIN u -> DOMAIN s] /\ \A i \in DOMAIN u : g[i] # p
  BY <1>1, <1>3, <1>4
<1>7. \E f \in [DOMAIN u -> DOMAIN s] :
        /\ \A i \in DOMAIN u : u[i] = s[f[i]] /\ f[i] # p
        /\ \A i, j \in DOMAIN u : i < j => f[i] < f[j]
  <2> HIDE DEF g
  <2> QED BY <1>4, <1>5, <1>6
<1> QED BY <1>7 DEF u

\* v is u without its element at p.
Omits(u, p, v) ==
  /\ p \in DOMAIN u
  /\ Len(u) = Len(v) + 1
  /\ \E g \in [DOMAIN v -> DOMAIN u] :
       /\ \A i \in DOMAIN v : v[i] = u[g[i]] /\ g[i] # p
       /\ \A i, j \in DOMAIN v : i < j => g[i] < g[j]
       /\ \A k \in DOMAIN u : k # p => \E i \in DOMAIN v : g[i] = k

\* It is enough that the elements before p are where they were, and those behind
\* it one position further.
LEMMA OmitsByPosition ==
  ASSUME NEW S, NEW v \in Seq(S), NEW u \in Seq(S), Len(u) = Len(v) + 1,
         NEW p \in 1 .. Len(u),
         \A i \in 1 .. p - 1 : v[i] = u[i],
         \A i \in p .. Len(v) : v[i] = u[i + 1]
  PROVE  Omits(u, p, v)
<1> DEFINE n == Len(v)
           g == [i \in 1 .. n |-> IF i < p THEN i ELSE i + 1]
<1>1. n \in Nat /\ DOMAIN v = 1 .. n /\ DOMAIN u = 1 .. n + 1 /\ p \in 1 .. n + 1
  OBVIOUS
<1> HIDE DEF n
<1>2. g \in [1 .. n -> 1 .. n + 1]
  BY <1>1
<1>3. ASSUME NEW i \in 1 .. n PROVE v[i] = u[g[i]] /\ g[i] # p
  <2>1. CASE i < p
    BY <1>1, <2>1
  <2>2. CASE ~(i < p)
    <3>1. i \in p .. Len(v)
      BY <1>1, <2>2 DEF n
    <3>2. g[i] = i + 1 /\ i + 1 # p
      BY <1>1, <2>2
    <3> QED BY <3>1, <3>2
  <2> QED BY <2>1, <2>2
<1>4. \A i, j \in 1 .. n : i < j => g[i] < g[j]
  BY <1>1
<1>5. ASSUME NEW k \in 1 .. n + 1, k # p PROVE \E i \in 1 .. n : g[i] = k
  <2>1. CASE k < p
    <3>1. k \in 1 .. n /\ g[k] = k
      BY <1>1, <2>1
    <3> QED BY <3>1
  <2>2. CASE ~(k < p)
    <3>1. k - 1 \in 1 .. n /\ g[k - 1] = k
      BY <1>1, <1>5, <2>2
    <3> QED BY <3>1
  <2> QED BY <2>1, <2>2
<1> HIDE DEF g
<1>6. \E f \in [1 .. n -> 1 .. n + 1] :
        /\ \A i \in 1 .. n : v[i] = u[f[i]] /\ f[i] # p
        /\ \A i, j \in 1 .. n : i < j => f[i] < f[j]
        /\ \A k \in 1 .. n + 1 : k # p => \E i \in 1 .. n : f[i] = k
  BY <1>2, <1>3, <1>4, <1>5
<1>7. Len(u) = Len(v) + 1 /\ p \in DOMAIN u
  OBVIOUS
<1> HIDE DEF n
<1>8. \E f \in [DOMAIN v -> DOMAIN u] :
        /\ \A i \in DOMAIN v : v[i] = u[f[i]] /\ f[i] # p
        /\ \A i, j \in DOMAIN v : i < j => f[i] < f[j]
        /\ \A k \in DOMAIN u : k # p => \E i \in DOMAIN v : f[i] = k
  <2>1. DOMAIN v = 1 .. n /\ DOMAIN u = 1 .. n + 1
    BY <1>1
  <2>2. PICK f \in [1 .. n -> 1 .. n + 1] :
          /\ \A i \in 1 .. n : v[i] = u[f[i]] /\ f[i] # p
          /\ \A i, j \in 1 .. n : i < j => f[i] < f[j]
          /\ \A k \in 1 .. n + 1 : k # p => \E i \in 1 .. n : f[i] = k
    BY <1>6
  <2>3. f \in [DOMAIN v -> DOMAIN u]
    BY <2>1
  <2>4. /\ \A i \in DOMAIN v : v[i] = u[f[i]] /\ f[i] # p
        /\ \A i, j \in DOMAIN v : i < j => f[i] < f[j]
        /\ \A k \in DOMAIN u : k # p => \E i \in DOMAIN v : f[i] = k
    BY <2>1, <2>2
  <2> QED BY <2>3, <2>4
<1> QED BY <1>7, <1>8, Zenon DEF Omits

LEMMA RemoveAtOmits ==
  ASSUME NEW S, NEW s \in Seq(S), NEW p \in 1 .. Len(s)
  PROVE  RemoveAt(s, p) \in Seq(S) /\ Omits(s, p, RemoveAt(s, p))
<1> DEFINE n == Len(s)
           u == RemoveAt(s, p)
<1>1. n \in Nat /\ p \in 1 .. n
  OBVIOUS
<1>2. /\ u \in Seq(S) /\ Len(u) = n - 1
      /\ \A i \in 1 .. p - 1 : u[i] = s[i]
      /\ \A i \in 1 .. n - p : u[p - 1 + i] = s[p + i]
  BY RemoveAtRemoves
<1> HIDE DEF u
<1>3. Len(s) = Len(u) + 1 /\ Len(u) \in Nat
  BY <1>1, <1>2
<1>4. ASSUME NEW i \in p .. Len(u) PROVE u[i] = s[i + 1]
  <2>1. i - (p - 1) \in 1 .. n - p
    BY <1>1, <1>2
  <2>2. u[p - 1 + (i - (p - 1))] = s[p + (i - (p - 1))]
    BY <1>2, <2>1
  <2> QED BY <1>1, <1>2, <2>2
<1>5. \A i \in 1 .. p - 1 : u[i] = s[i]
  BY <1>2
<1>6. Omits(s, p, u)
  BY <1>2, <1>3, <1>4, <1>5, OmitsByPosition
<1> QED BY <1>2, <1>6 DEF u

LEMMA AppendOmits ==
  ASSUME NEW S, NEW s \in Seq(S), NEW e \in S
  PROVE  /\ Append(s, e) \in Seq(S)
         /\ Append(s, e)[Len(s) + 1] = e
         /\ \A i \in 1 .. Len(s) : Append(s, e)[i] = s[i]
         /\ Omits(Append(s, e), Len(s) + 1, s)
<1> DEFINE u == Append(s, e)
<1>1. /\ u \in Seq(S) /\ Len(u) = Len(s) + 1 /\ u[Len(s) + 1] = e
      /\ \A i \in 1 .. Len(s) : u[i] = s[i]
      /\ Len(s) \in Nat
  BY AppendProperties
<1> HIDE DEF u
<1>2. Len(s) + 1 \in 1 .. Len(u)
  BY <1>1
<1>3. \A i \in 1 .. (Len(s) + 1) - 1 : s[i] = u[i]
  BY <1>1
<1>4. \A i \in Len(s) + 1 .. Len(s) : s[i] = u[i + 1]
  BY <1>1
<1>5. Omits(u, Len(s) + 1, s)
  BY <1>1, <1>2, <1>3, <1>4, OmitsByPosition
<1> QED BY <1>1, <1>5 DEF u

LEMMA InsertAtOmits ==
  ASSUME NEW S, NEW s \in Seq(S), NEW p \in 1 .. Len(s), NEW e \in S
  PROVE  /\ InsertAt(s, p, e) \in Seq(S)
         /\ InsertAt(s, p, e)[p] = e
         /\ Omits(InsertAt(s, p, e), p, s)
         /\ \A i \in 1 .. p - 1 : InsertAt(s, p, e)[i] = s[i]
         /\ \A i \in p .. Len(s) : InsertAt(s, p, e)[i + 1] = s[i]
<1> DEFINE n == Len(s)
           a == SubSeq(s, 1, p - 1)
           b == SubSeq(s, p, n)
           c == <<e>>
           ac == a \o c
           u == ac \o b
<1>1. n \in Nat /\ p \in 1 .. n /\ n = Len(s)
  OBVIOUS
<1>2. a \in Seq(S) /\ Len(a) = p - 1 /\ \A i \in 1 .. p - 1 : a[i] = s[i]
  BY <1>1, SubSeqProperties
<1>3. b \in Seq(S) /\ Len(b) = n - p + 1 /\ \A i \in 1 .. n - p + 1 : b[i] = s[p + i - 1]
  BY <1>1, SubSeqProperties
<1>4. c \in Seq(S) /\ Len(c) = 1 /\ c[1] = e
  OBVIOUS
<1>5. InsertAt(s, p, e) = u
  BY DEF InsertAt
<1> HIDE DEF n, a, b, c
<1>6. /\ ac \in Seq(S) /\ Len(ac) = Len(a) + Len(c)
      /\ \A i \in 1 .. Len(a) : ac[i] = a[i]
      /\ \A i \in 1 .. Len(c) : ac[Len(a) + i] = c[i]
  <2>1. a \in Seq(S) /\ c \in Seq(S)
    BY <1>2, <1>4
  <2> QED BY <2>1, ConcatAt
<1>7. ac \in Seq(S) /\ Len(ac) = p /\ ac[p] = e /\ \A i \in 1 .. p - 1 : ac[i] = s[i]
  BY <1>1, <1>2, <1>4, <1>6
<1> HIDE DEF ac
<1>8. /\ u \in Seq(S) /\ Len(u) = Len(ac) + Len(b)
      /\ \A i \in 1 .. Len(ac) : u[i] = ac[i]
      /\ \A i \in 1 .. Len(b) : u[Len(ac) + i] = b[i]
  <2>1. ac \in Seq(S) /\ b \in Seq(S)
    BY <1>3, <1>7
  <2> QED BY <2>1, ConcatAt
<1> HIDE DEF u
<1>9. /\ u \in Seq(S) /\ Len(u) = Len(s) + 1 /\ u[p] = e /\ p \in 1 .. Len(u)
      /\ \A i \in 1 .. p - 1 : s[i] = u[i]
  <2>1. Len(u) = p + (n - p + 1)
    BY <1>3, <1>7, <1>8
  <2>2. Len(u) = Len(s) + 1 /\ p \in 1 .. Len(u)
    BY <1>1, <2>1
  <2>3. \A i \in 1 .. p : u[i] = ac[i]
    BY <1>7, <1>8
  <2>4. u[p] = e
    BY <1>1, <1>7, <2>3
  <2>5. ASSUME NEW i \in 1 .. p - 1 PROVE s[i] = u[i]
    <3>1. i \in 1 .. p
      BY <1>1
    <3> QED BY <1>7, <2>3, <3>1
  <2> QED BY <1>8, <2>2, <2>4, <2>5
<1>10. ASSUME NEW i \in p .. Len(s) PROVE s[i] = u[i + 1]
  <2>1. i - p + 1 \in 1 .. n - p + 1
    BY <1>1
  <2>2. u[p + (i - p + 1)] = b[i - p + 1]
    BY <1>3, <1>7, <1>8, <2>1
  <2>3. b[i - p + 1] = s[p + (i - p + 1) - 1]
    BY <1>3, <2>1
  <2> QED BY <1>1, <2>2, <2>3
<1>11. Omits(u, p, s)
  BY <1>9, <1>10, OmitsByPosition
<1> QED BY <1>5, <1>9, <1>10, <1>11

\* The recursion of FlattenSeq has a solution, and FlattenSeq follows it.
LEMMA FlattenSeqSteps ==
  ASSUME NEW ss, Len(ss) \in Nat, Len(ss) # 0
  PROVE  \E f : /\ FlattenSeq(ss) = f[Len(ss)]
                /\ \A i \in 1 .. Len(ss) : f[i] = IF i = 1 THEN ss[i] ELSE f[i - 1] \o ss[i]
<1> DEFINE Solved(m) == \E f : f = [i \in 1 .. m |-> IF i = 1 THEN ss[i] ELSE f[i - 1] \o ss[i]]
           I == {m \in Nat : ~Solved(m)}
<1> HIDE DEF Solved
<1>0. I \subseteq Nat /\ \A m \in Nat : m \in I <=> ~Solved(m)
  OBVIOUS
<1> HIDE DEF I
<1>1. \A m \in Nat : Solved(m)
  <2> SUFFICES ASSUME I # {} PROVE FALSE
    BY <1>0
  <2>1. PICK m \in I : \A j \in I : m <= j
    BY <1>0, LeastElement
  <2>2. m \in Nat /\ ~Solved(m)
    BY <1>0
  <2>3. CASE m = 0
    <3> DEFINE f == [i \in 1 .. 0 |-> ss[i]]
    <3>1. f = [i \in 1 .. 0 |-> IF i = 1 THEN ss[i] ELSE f[i - 1] \o ss[i]]
      OBVIOUS
    <3> QED BY <2>2, <2>3, <3>1 DEF Solved
  <2>4. CASE m # 0
    <3>1. m - 1 \in Nat /\ ~(m <= m - 1)
      BY <2>2, <2>4
    <3>2. Solved(m - 1)
      BY <1>0, <2>1, <3>1
    <3>3. PICK g : g = [i \in 1 .. m - 1 |-> IF i = 1 THEN ss[i] ELSE g[i - 1] \o ss[i]]
      BY <3>2 DEF Solved
    <3>4. \A i \in 1 .. m - 1 : g[i] = IF i = 1 THEN ss[i] ELSE g[i - 1] \o ss[i]
      BY <3>3
    <3> DEFINE e == IF m = 1 THEN ss[m] ELSE g[m - 1] \o ss[m]
               f == [i \in 1 .. m |-> IF i = m THEN e ELSE g[i]]
               h == [i \in 1 .. m |-> IF i = 1 THEN ss[i] ELSE f[i - 1] \o ss[i]]
    <3>5. ASSUME NEW i \in 1 .. m PROVE f[i] = IF i = 1 THEN ss[i] ELSE f[i - 1] \o ss[i]
      <4>1. CASE i = 1
        <5>1. CASE m = 1
          BY <4>1, <5>1
        <5>2. CASE m # 1
          <6>1. f[1] = g[1] /\ 1 \in 1 .. m - 1
            BY <2>2, <2>4, <5>2
          <6> QED BY <3>4, <4>1, <6>1
        <5> QED BY <5>1, <5>2
      <4>2. CASE i # 1
        <5>1. i - 1 \in 1 .. m /\ i - 1 # m /\ f[i - 1] = g[i - 1]
          BY <2>2, <4>2
        <5>2. CASE i = m
          BY <4>2, <5>1, <5>2
        <5>3. CASE i # m
          <6>1. i \in 1 .. m - 1 /\ f[i] = g[i]
            BY <2>2, <5>3
          <6> QED BY <3>4, <4>2, <5>1, <6>1
        <5> QED BY <5>2, <5>3
      <4> QED BY <4>1, <4>2
    <3>6. f = h
      BY <3>5
    <3> HIDE DEF f
    <3>7. Solved(m)
      BY <3>6 DEF Solved
    <3> QED BY <2>2, <3>7
  <2> QED BY <2>3, <2>4
<1> DEFINE n == Len(ss)
           F == CHOOSE f : f = [i \in 1 .. n |-> IF i = 1 THEN ss[i] ELSE f[i - 1] \o ss[i]]
<1>2. FlattenSeq(ss) = F[n]
  BY DEF FlattenSeq
<1>3. n \in Nat /\ n = Len(ss)
  OBVIOUS
<1> HIDE DEF n
<1>4. Solved(n)
  BY <1>1, <1>3
<1>5. F = [i \in 1 .. n |-> IF i = 1 THEN ss[i] ELSE F[i - 1] \o ss[i]]
  BY <1>4, Zenon DEF Solved
<1> HIDE DEF F
<1>6. \A i \in 1 .. n : F[i] = IF i = 1 THEN ss[i] ELSE F[i - 1] \o ss[i]
  BY <1>5
<1> QED BY <1>2, <1>3, <1>6

\* FlattenSeq of a sequence is its first element before the others.
LEMMA FlattenSeqCons ==
  ASSUME NEW S, NEW x \in Seq(S), NEW s \in Seq(Seq(S))
  PROVE  /\ FlattenSeq(<<x>> \o s) = x \o FlattenSeq(s)
         /\ FlattenSeq(s) \in Seq(S)
<1> DEFINE ss == <<x>> \o s
           n == Len(s)
<1>1. /\ n \in Nat /\ ss \in Seq(Seq(S)) /\ Len(ss) = n + 1 /\ ss[1] = x
      /\ \A i \in 1 .. n : ss[i + 1] = s[i] /\ s[i] \in Seq(S)
  <2>1. <<x>> \in Seq(Seq(S)) /\ Len(<<x>>) = 1 /\ <<x>>[1] = x
    OBVIOUS
  <2>2. \A i \in 1 .. n : (<<x>> \o s)[1 + i] = s[i]
    BY <2>1, ConcatAt
  <2>3. \A i \in 1 .. n : 1 + i = i + 1
    OBVIOUS
  <2>4. ss \in Seq(Seq(S)) /\ Len(ss) = n + 1 /\ ss[1] = x
    OBVIOUS
  <2>5. n \in Nat /\ \A i \in 1 .. n : s[i] \in Seq(S)
    OBVIOUS
  <2> HIDE DEF n
  <2> QED BY <2>2, <2>3, <2>4, <2>5
<1> HIDE DEF ss
<1>2. PICK g : /\ FlattenSeq(ss) = g[Len(ss)]
               /\ \A i \in 1 .. Len(ss) : g[i] = IF i = 1 THEN ss[i] ELSE g[i - 1] \o ss[i]
  <2>1. Len(ss) \in Nat /\ Len(ss) # 0
    BY <1>1
  <2> QED BY <2>1, FlattenSeqSteps
<1>a. /\ g[1] = x
      /\ \A i \in 1 .. n : g[i + 1] = g[i] \o s[i]
  <2>1. 1 \in 1 .. Len(ss)
    BY <1>1
  <2>2. g[1] = x
    BY <1>1, <1>2, <2>1
  <2>3. ASSUME NEW i \in 1 .. n PROVE g[i + 1] = g[i] \o s[i]
    <3>1. i + 1 \in 1 .. Len(ss) /\ i + 1 # 1 /\ i + 1 - 1 = i
      BY <1>1
    <3>2. \A j \in 1 .. Len(ss) : j # 1 => g[j] = g[j - 1] \o ss[j]
      BY <1>2
    <3>3. PICK j \in 1 .. Len(ss) : j = i + 1
      BY <3>1
    <3>4. j # 1 /\ j - 1 = i
      BY <3>3
    <3>5. g[j] = g[j - 1] \o ss[j]
      BY <3>2, <3>4
    <3>6. ss[j] = s[i]
      BY <1>1, <3>3
    <3> QED BY <3>3, <3>4, <3>5, <3>6, Zenon
  <2> QED BY <2>2, <2>3
<1>b. \A u, v, w \in Seq(S) : (u \o v) \o w = u \o (v \o w)
  BY ConcatAssociative, SMTT(30)
<1>3. CASE n = 0
  <2>1. s = <<>> /\ FlattenSeq(s) = <<>>
    BY <1>3 DEF FlattenSeq
  <2>2. FlattenSeq(ss) = x
    BY <1>1, <1>2, <1>3
  <2>3. x \o <<>> = x /\ <<>> \in Seq(S)
    OBVIOUS
  <2> QED BY <2>1, <2>2, <2>3, Zenon DEF ss
<1>4. CASE n # 0
  <2>1. PICK f : /\ FlattenSeq(s) = f[n]
                 /\ \A i \in 1 .. n : f[i] = IF i = 1 THEN s[i] ELSE f[i - 1] \o s[i]
    BY <1>1, <1>4, FlattenSeqSteps
  <2> DEFINE Bad == {i \in 1 .. n : ~(f[i] \in Seq(S) /\ g[i + 1] = x \o f[i])}
  <2> HIDE DEF n
  <2>2. Bad = {}
    <3> SUFFICES ASSUME Bad # {} PROVE FALSE
      OBVIOUS
    <3>1. Bad \subseteq 1 .. n
      OBVIOUS
    <3>0. \A i \in 1 .. n : i \notin Bad => f[i] \in Seq(S) /\ g[i + 1] = x \o f[i]
      OBVIOUS
    <3>9. \A i \in Bad : ~(f[i] \in Seq(S) /\ g[i + 1] = x \o f[i])
      OBVIOUS
    <3> HIDE DEF Bad
    <3>2. PICK i \in Bad : \A j \in Bad : i <= j
      <4>1. Bad \subseteq Nat
        BY <1>1, <3>1
      <4> QED BY <4>1, LeastElement
    <3>3. i \in 1 .. n /\ i + 1 \in 1 .. Len(ss) /\ i + 1 # 1
      BY <1>1, <3>1, <3>2
    <3>4. g[i + 1] = g[i] \o s[i] /\ s[i] \in Seq(S)
      BY <1>1, <1>a, <3>3
    <3>5. CASE i = 1
      <4>1. g[1] = x
        BY <1>a
      <4>2. f[1] = s[1]
        BY <2>1, <3>3, <3>5
      <4> QED BY <3>2, <3>4, <3>5, <3>9, <4>1, <4>2
    <3>6. CASE i # 1
      <4>1. i - 1 \in 1 .. n /\ i - 1 + 1 = i /\ ~(i <= i - 1)
        BY <1>1, <3>3, <3>6
      <4>2. i - 1 \notin Bad
        BY <3>2, <4>1
      <4>3. f[i - 1] \in Seq(S) /\ g[i] = x \o f[i - 1]
        BY <3>0, <4>1, <4>2
      <4>4. f[i] = f[i - 1] \o s[i]
        BY <2>1, <3>3, <3>6
      <4>5. f[i] \in Seq(S)
        BY <3>4, <4>3, <4>4
      <4>6. (x \o f[i - 1]) \o s[i] = x \o (f[i - 1] \o s[i])
        BY <1>b, <3>4, <4>3
      <4>7. g[i + 1] = x \o f[i]
        BY <3>4, <4>3, <4>4, <4>6
      <4> QED BY <3>2, <3>9, <4>5, <4>7
    <3> QED BY <3>5, <3>6
  <2>3. n \in 1 .. n
    BY <1>1, <1>4
  <2>4. f[n] \in Seq(S) /\ g[n + 1] = x \o f[n]
    BY <2>2, <2>3
  <2> QED BY <1>1, <1>2, <2>1, <2>4 DEF ss
<1> QED BY <1>3, <1>4

-----------------------------------------------------------------------------
(* Quotients.                                                              *)

\* Multiples keep their order.
LEMMA ProductOrder ==
  ASSUME NEW S \in Nat, NEW p \in Nat, NEW q \in Nat, p <= q
  PROVE  p * S \in Nat /\ p * S <= q * S
OBVIOUS

\* Where a multiple of S begins.
LEMMA QuotientIs ==
  ASSUME NEW S \in Nat \ {0}, NEW q \in Nat, NEW r \in 0 .. S - 1
  PROVE  (q * S + r) \div S = q /\ (q * S + r) % S = r
OBVIOUS

\* A number is its quotient and its rest.
LEMMA QuotientAndRest ==
  ASSUME NEW S \in Nat \ {0}, NEW a \in Nat
  PROVE  /\ a \div S \in Nat /\ a % S \in 0 .. S - 1
         /\ a = (a \div S) * S + (a % S)
OBVIOUS
=============================================================================
