-------------------------- MODULE Scheduler_proofs --------------------------
(***************************************************************************)
(* Scheduler keeps its inductive invariant SchedulerInv, for any number of *)
(* tasks, drivers, interrupt lines and times, and any bounds; so it is     *)
(* type correct and has the safety properties of SchedulerProperties.      *)
(*                                                                         *)
(* The argument follows the code: what a handler does to the calls and the *)
(* wake queue keeps CallsInv (one lemma per handler), and switching to a   *)
(* task that does not wait keeps it too (AssignKeepsCalls), because the    *)
(* call that task was in completes.                                        *)
(***************************************************************************)
EXTENDS SchedulerProperties, SequenceLemmas

-----------------------------------------------------------------------------
(* What the functions of TaskList return, for lists of any length.         *)

\* A member of a list stands at its Position.
LEMMA PositionIsFound ==
  ASSUME NEW S, NEW list \in Seq(S), NEW t \in ToSet(list)
  PROVE  /\ Position(list, t) \in 1 .. Len(list)
         /\ list[Position(list, t)] = t
  BY DEF Position, ToSet

\* Putting a task in front of a list that lacks it.
LEMMA PrependAdds ==
  ASSUME NEW S, NEW list \in Seq(S), NEW t \in S, t \notin ToSet(list), IsInjective(list)
  PROVE  /\ <<t>> \o list \in Seq(S)
         /\ IsInjective(<<t>> \o list)
         /\ ToSet(<<t>> \o list) = ToSet(list) \cup {t}
<1> DEFINE a == <<t>>
           u == a \o list
           n == Len(list)
<1>1. /\ n \in Nat /\ a \in Seq(S) /\ Len(a) = 1 /\ a[1] = t
      /\ DOMAIN list = 1 .. n
  OBVIOUS
<1> HIDE DEF a
<1>2. /\ u \in Seq(S) /\ Len(u) = 1 + n
      /\ \A i \in 1 .. 1 : u[i] = a[i]
      /\ \A i \in 1 .. n : u[1 + i] = list[i]
  <2>1. /\ u \in Seq(S) /\ Len(u) = Len(a) + Len(list)
        /\ \A i \in 1 .. Len(a) : u[i] = a[i]
        /\ \A i \in 1 .. Len(list) : u[Len(a) + i] = list[i]
    <3>1. a \in Seq(S)
      BY <1>1
    <3> QED BY <3>1, ConcatAt
  <2> QED BY <1>1, <2>1
<1>3. DOMAIN u = 1 .. 1 + n
  BY <1>2, <1>1, LenProperties
<1> HIDE DEF u, n
<1>4. u[1] = t /\ \A i \in DOMAIN u : i = 1 \/ (i - 1 \in DOMAIN list /\ u[i] = list[i - 1])
  <2>1. ASSUME NEW i \in DOMAIN u, i # 1
        PROVE  i - 1 \in DOMAIN list /\ u[i] = list[i - 1]
    <3>1. i - 1 \in 1 .. n /\ 1 + (i - 1) = i
      BY <1>1, <1>3, <2>1
    <3> QED BY <1>1, <1>2, <3>1
  <2> QED BY <1>1, <1>2, <2>1
<1>5. \A i \in DOMAIN list : list[i] # t /\ 1 + i \in DOMAIN u /\ u[1 + i] = list[i]
  BY <1>1, <1>2, <1>3 DEF ToSet
<1>6. ToSet(u) = {u[i] : i \in DOMAIN u} /\ ToSet(list) = {list[i] : i \in DOMAIN list}
  BY DEF ToSet
<1>7. 1 \in DOMAIN u
  BY <1>1, <1>3
<1>8. ToSet(u) = ToSet(list) \cup {t}
  BY <1>4, <1>5, <1>6, <1>7
<1>9. IsInjective(u)
  <2> SUFFICES ASSUME NEW i \in DOMAIN u, NEW j \in DOMAIN u, u[i] = u[j]
               PROVE  i = j
    BY DEF IsInjective
  <2>1. CASE i = 1 \/ j = 1
    BY <1>4, <1>5, <2>1
  <2>2. CASE i # 1 /\ j # 1
    <3>1. i - 1 = j - 1
      BY <1>4, <2>2 DEF IsInjective
    <3> QED BY <1>1, <1>3, <3>1
  <2> QED BY <2>1, <2>2
<1> QED BY <1>2, <1>8, <1>9 DEF u, a

\* Unlink removes the one task it is given, and repeats nothing.
LEMMA UnlinkRemoves ==
  ASSUME NEW S, NEW list \in Seq(S), NEW t \in ToSet(list), IsInjective(list)
  PROVE  /\ Unlink(list, t) \in Seq(S)
         /\ IsInjective(Unlink(list, t))
         /\ ToSet(Unlink(list, t)) = ToSet(list) \ {t}
<1> DEFINE p == Position(list, t)
           n == Len(list)
           u == Unlink(list, t)
<1>1. n \in Nat /\ n = Len(list) /\ p \in 1 .. n /\ list[p] = t
  BY PositionIsFound
<1>4. /\ u \in Seq(S) /\ Len(u) = n - 1
      /\ \A i \in 1 .. p - 1 : u[i] = list[i]
      /\ \A i \in 1 .. n - p : u[p - 1 + i] = list[p + i]
  <2>1. u = RemoveAt(list, p)
    BY DEF Unlink
  <2> QED BY <1>1, <2>1, RemoveAtRemoves
<1> HIDE DEF p, n, u
<1>6. ASSUME NEW i \in 1 .. n - 1
      PROVE  \/ i \in 1 .. p - 1 /\ u[i] = list[i]
             \/ i \in p .. n - 1 /\ u[i] = list[i + 1]
  <2>1. CASE i <= p - 1
    BY <1>1, <1>4, <2>1
  <2>2. CASE i > p - 1
    <3>1. i - (p - 1) \in 1 .. n - p
      BY <1>1, <2>2
    <3>2. u[p - 1 + (i - (p - 1))] = list[p + (i - (p - 1))]
      BY <1>4, <3>1
    <3> QED BY <1>1, <2>2, <3>2
  <2> QED BY <1>1, <2>1, <2>2
<1>7. \A i, j \in 1 .. n : list[i] = list[j] => i = j
  BY <1>1 DEF IsInjective
<1>8. \A i, j \in 1 .. n - 1 : u[i] = u[j] => i = j
  BY <1>1, <1>6, <1>7
<1>9. \A i \in 1 .. n - 1 : \E j \in 1 .. n : u[i] = list[j] /\ j # p
  BY <1>1, <1>6
<1>10. \A j \in 1 .. n : j # p => \E i \in 1 .. n - 1 : u[i] = list[j]
  <2> TAKE j \in 1 .. n
  <2>1. CASE j < p
    BY <1>1, <1>4, <2>1
  <2>2. CASE j > p
    <3>1. j - p \in 1 .. n - p /\ p - 1 + (j - p) \in 1 .. n - 1 /\ p + (j - p) = j
      BY <1>1, <2>2
    <3> QED BY <1>4, <3>1
  <2> QED BY <1>1, <2>1, <2>2
<1>11. IsInjective(u)
  BY <1>4, <1>8 DEF IsInjective
<1>12. ToSet(u) = {u[i] : i \in 1 .. n - 1} /\ ToSet(list) = {list[i] : i \in 1 .. n}
  <2>1. DOMAIN u = 1 .. n - 1 /\ DOMAIN list = 1 .. n
    BY <1>1, <1>4
  <2> QED BY <2>1 DEF ToSet
<1>13. ToSet(u) = ToSet(list) \ {t}
  <2>1. ASSUME NEW x \in ToSet(u) PROVE x \in ToSet(list) \ {t}
    <3>1. PICK i \in 1 .. n - 1 : x = u[i]
      BY <1>12
    <3> QED BY <1>1, <1>7, <1>9, <1>12, <3>1
  <2>2. ASSUME NEW x \in ToSet(list) \ {t} PROVE x \in ToSet(u)
    <3>1. PICK j \in 1 .. n : x = list[j] /\ j # p
      BY <1>1, <1>12
    <3> QED BY <1>10, <1>12, <3>1
  <2> QED BY <2>1, <2>2
<1> QED BY <1>4, <1>11, <1>13 DEF u

\* The visiting order holds the tasks of the list, and t comes last.
LEMMA VisitOrderRotates ==
  ASSUME NEW S, NEW list \in Seq(S), NEW t \in ToSet(list)
  PROVE  /\ VisitOrder(list, t) \in Seq(S)
         /\ Len(VisitOrder(list, t)) = Len(list)
         /\ ToSet(VisitOrder(list, t)) = ToSet(list)
         /\ IsInjective(list) =>
              \A i \in 1 .. Len(list) - 1 : VisitOrder(list, t)[i] # t
<1> DEFINE p == Position(list, t)
           n == Len(list)
           a == SubSeq(list, p + 1, n)
           b == SubSeq(list, 1, p)
           o == a \o b
<1>1. n \in Nat /\ n = Len(list) /\ p \in 1 .. n /\ list[p] = t
  BY PositionIsFound
<1>2. /\ a \in Seq(S) /\ Len(a) = n - p
      /\ \A i \in 1 .. n - p : a[i] = list[p + i]
  BY <1>1, SubSeqProperties
<1>3. /\ b \in Seq(S) /\ Len(b) = p
      /\ \A i \in 1 .. p : b[i] = list[i]
  BY <1>1, SubSeqProperties
<1>5. VisitOrder(list, t) = o
  BY DEF VisitOrder
<1> HIDE DEF p, n, a, b
<1>4. /\ o \in Seq(S) /\ Len(o) = n
      /\ \A i \in 1 .. n - p : o[i] = list[p + i]
      /\ \A i \in 1 .. p : o[n - p + i] = list[i]
  <2>1. n - p \in Nat /\ p \in Nat /\ (n - p) + p = n
    BY <1>1
  <2>2. a \in Seq(S) /\ b \in Seq(S)
    BY <1>2, <1>3
  <2>3. /\ o \in Seq(S) /\ Len(o) = Len(a) + Len(b)
        /\ \A i \in 1 .. Len(a) : o[i] = a[i]
        /\ \A i \in 1 .. Len(b) : o[Len(a) + i] = b[i]
    BY <2>2, ConcatAt
  <2> HIDE DEF o
  <2>4. /\ o \in Seq(S) /\ Len(o) = (n - p) + p
        /\ \A i \in 1 .. n - p : o[i] = a[i]
        /\ \A i \in 1 .. p : o[n - p + i] = b[i]
    BY <1>2, <1>3, <2>3
  <2> QED BY <1>2, <1>3, <2>1, <2>4
<1> HIDE DEF o
<1>6. ASSUME NEW i \in 1 .. n
      PROVE  \/ i \in 1 .. n - p /\ o[i] = list[p + i]
             \/ i \in n - p + 1 .. n /\ o[i] = list[i - (n - p)]
  <2>1. CASE i <= n - p
    BY <1>1, <1>4, <2>1
  <2>2. CASE i > n - p
    <3>1. i - (n - p) \in 1 .. p
      BY <1>1, <2>2
    <3>2. o[n - p + (i - (n - p))] = list[i - (n - p)]
      BY <1>4, <3>1
    <3> QED BY <1>1, <2>2, <3>2, SMTT(30)
  <2> QED BY <1>1, <2>1, <2>2
<1>7. \A i \in 1 .. n : \E j \in 1 .. n : o[i] = list[j] /\ (i < n => j # p)
  BY <1>1, <1>6
<1>8. \A j \in 1 .. n : \E i \in 1 .. n : o[i] = list[j]
  <2> TAKE j \in 1 .. n
  <2>1. CASE j > p
    <3>1. j - p \in 1 .. n - p /\ p + (j - p) = j
      BY <1>1, <2>1
    <3>2. o[j - p] = list[j] /\ j - p \in 1 .. n
      BY <1>1, <1>4, <3>1
    <3> QED BY <3>2
  <2>2. CASE j <= p
    <3>1. j \in 1 .. p /\ n - p + j \in 1 .. n
      BY <1>1, <2>2
    <3> QED BY <1>4, <3>1
  <2> QED BY <1>1, <2>1, <2>2
<1>9. ToSet(o) = {o[i] : i \in 1 .. n} /\ ToSet(list) = {list[i] : i \in 1 .. n}
  <2>1. DOMAIN o = 1 .. n /\ DOMAIN list = 1 .. n
    BY <1>1, <1>4
  <2> QED BY <2>1 DEF ToSet
<1>10. ToSet(o) = ToSet(list)
  <2>1. ASSUME NEW x \in ToSet(o) PROVE x \in ToSet(list)
    BY <1>7, <1>9
  <2>2. ASSUME NEW x \in ToSet(list) PROVE x \in ToSet(o)
    BY <1>8, <1>9
  <2> QED BY <2>1, <2>2
<1>11. ASSUME IsInjective(list), NEW i \in 1 .. n - 1 PROVE o[i] # t
  <2>1. \A j, k \in 1 .. n : list[j] = list[k] => j = k
    BY <1>1, <1>11 DEF IsInjective
  <2>2. i \in 1 .. n /\ i < n
    BY <1>1
  <2>3. PICK j \in 1 .. n : o[i] = list[j] /\ (i < n => j # p)
    BY <1>7, <2>2
  <2>4. list[p] = t /\ p \in 1 .. n /\ j # p
    BY <1>1, <2>2, <2>3
  <2>5. list[j] # list[p]
    BY <2>1, <2>4
  <2> QED BY <2>3, <2>4, <2>5
<1> QED BY <1>1, <1>4, <1>5, <1>10, <1>11

\* Round robin finds a task that does not wait, if there is one, and comes back
\* to the task it started from only when no other does.
LEMMA NextRunnableRuns ==
  ASSUME NEW S, NEW list \in Seq(S), NEW t \in ToSet(list),
         NEW blocked \in [S -> BOOLEAN], SomeRunnable(list, blocked)
  PROVE  /\ NextRunnable(list, t, blocked) \in ToSet(list)
         /\ ~blocked[NextRunnable(list, t, blocked)]
         /\ \A x \in ToSet(list) :
              IsInjective(list) /\ x # t /\ ~blocked[x] =>
                NextRunnable(list, t, blocked) # t
<1> DEFINE o == VisitOrder(list, t)
           n == Len(list)
           I == {i \in 1 .. n : ~blocked[o[i]]}
           k == CHOOSE i \in DOMAIN o : /\ ~blocked[o[i]]
                                        /\ \A j \in 1 .. i - 1 : blocked[o[j]]
<1>1. /\ n \in Nat /\ n = Len(list)
      /\ o \in Seq(S) /\ Len(o) = n /\ ToSet(o) = ToSet(list)
      /\ IsInjective(list) => \A i \in 1 .. n - 1 : o[i] # t
  BY VisitOrderRotates
<1>2. NextRunnable(list, t, blocked) = o[k]
  BY DEF NextRunnable, FirstRunnable
<1> HIDE DEF o, n
<1>3. ToSet(o) = {o[i] : i \in 1 .. n}
  BY <1>1 DEF ToSet
<1>4. I # {}
  <2>1. PICK x \in ToSet(list) : ~blocked[x]
    BY DEF SomeRunnable, ToSet
  <2> QED BY <1>1, <1>3, <2>1
<1>5. PICK m \in I : \A j \in I : m <= j
  <2> HIDE DEF I
  <2>1. I \subseteq Nat
    BY <1>1 DEF I
  <2> QED BY <1>4, <2>1, LeastElement
<1>6. /\ m \in DOMAIN o /\ ~blocked[o[m]]
      /\ \A j \in 1 .. m - 1 : blocked[o[j]]
  BY <1>1, <1>5
<1>7. /\ k \in 1 .. n /\ ~blocked[o[k]]
      /\ \A j \in 1 .. k - 1 : blocked[o[j]]
  BY <1>1, <1>6, SMTT(30)
<1> HIDE DEF I, k
<1>8. o[k] \in ToSet(list)
  BY <1>1, <1>3, <1>7
<1>9. ASSUME NEW x \in ToSet(list), IsInjective(list), x # t, ~blocked[x]
      PROVE  o[k] # t
  <2>1. PICK i \in 1 .. n : o[i] = x
    BY <1>1, <1>3
  <2>2. k <= i
    BY <1>1, <1>7, <1>9, <2>1
  <2>3. CASE k < n
    BY <1>1, <1>7, <1>9, <2>3
  <2>4. CASE k = n
    BY <1>1, <1>9, <2>1, <2>2, <2>4
  <2> QED BY <1>1, <1>7, <2>3, <2>4
<1> QED BY <1>2, <1>7, <1>8, <1>9

\* Appending to the priority list adds at most the one task, and no repeats.
LEMMA AppendPriorityAdds ==
  ASSUME NEW S, NEW queue \in Seq(S), NEW t \in S, IsInjective(queue)
  PROVE  /\ AppendPriority(queue, t) \in Seq(S)
         /\ IsInjective(AppendPriority(queue, t))
         /\ ToSet(AppendPriority(queue, t)) \subseteq ToSet(queue) \cup {t}
<1>1. CASE t \in ToSet(queue)
  <2> DEFINE p == Position(queue, t)
             q == SubSeq(queue, 1, p)
  <2>1. p \in 1 .. Len(queue)
    BY <1>1, PositionIsFound
  <2>2. /\ q \in Seq(S) /\ Len(q) = p
        /\ \A i \in 1 .. p : q[i] = queue[i]
    BY <2>1, SubSeqProperties
  <2>3. AppendPriority(queue, t) = q
    BY <1>1 DEF AppendPriority
  <2> HIDE DEF p, q
  <2> QED BY <2>1, <2>2, <2>3 DEF IsInjective, ToSet
<1>2. CASE t \notin ToSet(queue)
  <2> DEFINE q == Append(queue, t)
  <2>1. /\ q \in Seq(S) /\ Len(q) = Len(queue) + 1
        /\ \A i \in 1 .. Len(queue) : q[i] = queue[i]
        /\ q[Len(queue) + 1] = t
    BY AppendProperties
  <2>2. AppendPriority(queue, t) = q
    BY <1>2 DEF AppendPriority
  <2> HIDE DEF q
  <2> QED BY <1>2, <2>1, <2>2 DEF IsInjective, ToSet
<1> QED BY <1>1, <1>2

\* The recursive definition of PriorityWalk has a solution, by induction on how
\* much of the list has been walked.
LEMMA PriorityWalkIsDefined ==
  ASSUME NEW list, NEW queue, NEW ready, Len(list) \in Nat
  PROVE  \A i \in 0 .. Len(list) :
           PriorityWalk(list, queue, ready)[i] =
             IF i = 0 THEN queue
             ELSE IF list[i] \in ready
                  THEN AppendPriority(PriorityWalk(list, queue, ready)[i - 1], list[i])
             ELSE PriorityWalk(list, queue, ready)[i - 1]
<1> DEFINE Step(f, i) == IF i = 0 THEN queue
                         ELSE IF list[i] \in ready
                              THEN AppendPriority(f[i - 1], list[i])
                         ELSE f[i - 1]
           Solves(f, n) == f = [i \in 0 .. n |-> Step(f, i)]
           Unsolved == {n \in 0 .. Len(list) : ~ \E f : Solves(f, n)}
<1>1. Unsolved = {}
  <2> SUFFICES ASSUME Unsolved # {} PROVE FALSE
    OBVIOUS
  <2>1. Unsolved \subseteq Nat
    OBVIOUS
  <2>2. PICK n \in Unsolved : \A m \in Unsolved : n <= m
    <3> HIDE DEF Unsolved
    <3> QED BY <2>1, LeastElement
  <2>3. CASE n = 0
    <3> DEFINE f == [i \in 0 .. 0 |-> queue]
    <3>1. \A i \in 0 .. 0 : queue = Step(f, i)
      OBVIOUS
    <3>2. Solves(f, 0)
      BY <3>1
    <3> QED BY <2>2, <2>3, <3>2
  <2>4. CASE n > 0
    <3>1. n - 1 \in 0 .. Len(list) /\ n - 1 \notin Unsolved
      BY <2>2, <2>4, SMTT(30)
    <3>2. PICK g : Solves(g, n - 1)
      BY <3>1
    <3> DEFINE f == [i \in 0 .. n |-> IF i = n THEN Step(g, n) ELSE g[i]]
    <3>3. ASSUME NEW i \in 0 .. n PROVE f[i] = Step(f, i)
      <4>1. n \in Nat /\ n - 1 \in 0 .. n /\ n # n - 1
        BY <2>2, <2>4
      <4>2. CASE i = n
        <5>1. f[n - 1] = g[n - 1] /\ f[n] = Step(g, n)
          BY <4>1
        <5> HIDE DEF f
        <5> QED BY <4>2, <5>1
      <4>3. CASE i # n
        <5>1. f[i] = g[i] /\ i \in 0 .. n - 1
          BY <4>1, <4>3
        <5>2. g[i] = Step(g, i)
          <6> HIDE DEF Step
          <6> QED BY <3>2, <5>1
        <5>3. i # 0 => f[i - 1] = g[i - 1]
          BY <4>1, <4>3
        <5> HIDE DEF f
        <5> QED BY <5>1, <5>2, <5>3
      <4> QED BY <4>2, <4>3
    <3>4. Solves(f, n)
      <4> HIDE DEF Step
      <4>1. f = [i \in 0 .. n |-> f[i]]
        OBVIOUS
      <4> HIDE DEF f
      <4> QED BY <3>3, <4>1
    <3> QED BY <2>2, <3>4
  <2> QED BY <2>2, <2>3, <2>4
<1>2. \E f : Solves(f, Len(list))
  BY <1>1
<1>3. PriorityWalk(list, queue, ready) = CHOOSE f : Solves(f, Len(list))
  BY DEF PriorityWalk
<1>4. Solves(PriorityWalk(list, queue, ready), Len(list))
  <2> HIDE DEF Solves
  <2> QED BY <1>2, <1>3
<1> QED
  <2> DEFINE w == PriorityWalk(list, queue, ready)
  <2>1. w = [i \in 0 .. Len(list) |-> Step(w, i)]
    BY <1>4
  <2>2. \A i \in 0 .. Len(list) : w[i] = Step(w, i)
    <3> HIDE DEF w, Step
    <3> QED BY <2>1
  <2> QED BY <2>2

\* After the walk the priority list still repeats nothing, and holds only tasks
\* it held before and ready tasks of the task list.
LEMMA PriorityAfterWalkAdds ==
  ASSUME NEW S, NEW list \in Seq(S), NEW queue \in Seq(S), NEW ready,
         IsInjective(queue)
  PROVE  /\ PriorityAfterWalk(list, queue, ready) \in Seq(S)
         /\ IsInjective(PriorityAfterWalk(list, queue, ready))
         /\ ToSet(PriorityAfterWalk(list, queue, ready))
              \subseteq ToSet(queue) \cup (ready \cap ToSet(list))
<1> DEFINE w == PriorityWalk(list, queue, ready)
           Good(q) == /\ q \in Seq(S)
                      /\ IsInjective(q)
                      /\ ToSet(q) \subseteq ToSet(queue) \cup (ready \cap ToSet(list))
           Bad == {i \in 0 .. Len(list) : ~Good(w[i])}
<1>1. \A i \in 0 .. Len(list) :
        w[i] = IF i = 0 THEN queue
               ELSE IF list[i] \in ready THEN AppendPriority(w[i - 1], list[i])
               ELSE w[i - 1]
  BY PriorityWalkIsDefined
<1> HIDE DEF w
<1>2. Bad = {}
  <2> SUFFICES ASSUME Bad # {} PROVE FALSE
    OBVIOUS
  <2>1. PICK n \in Bad : \A m \in Bad : n <= m
    <3>1. Bad \subseteq Nat
      OBVIOUS
    <3> HIDE DEF Bad
    <3> QED BY <3>1, LeastElement
  <2>2. CASE n = 0
    BY <1>1, <2>1, <2>2
  <2>3. CASE n > 0
    <3>1. n \in 1 .. Len(list) /\ n - 1 \in 0 .. Len(list) /\ n - 1 \notin Bad
      BY <2>1, <2>3
    <3>2. Good(w[n - 1])
      BY <3>1
    <3>3. list[n] \in S /\ list[n] \in ToSet(list)
      BY <3>1 DEF ToSet
    <3>4. CASE list[n] \in ready
      <4>1. w[n] = AppendPriority(w[n - 1], list[n])
        BY <1>1, <3>1, <3>4
      <4> DEFINE p == w[n - 1]
                 x == list[n]
                 q == AppendPriority(p, x)
      <4>2. p \in Seq(S) /\ IsInjective(p) /\ x \in S
        BY <3>2, <3>3
      <4>3. ToSet(p) \subseteq ToSet(queue) \cup (ready \cap ToSet(list))
        BY <3>2
      <4> HIDE DEF p, x
      <4>4. /\ q \in Seq(S) /\ IsInjective(q)
            /\ ToSet(q) \subseteq ToSet(p) \cup {x}
        BY <4>2, AppendPriorityAdds
      <4> HIDE DEF q
      <4>5. x \in ready \cap ToSet(list)
        BY <3>3, <3>4 DEF x
      <4>6. Good(q)
        BY <4>3, <4>4, <4>5
      <4> QED BY <2>1, <4>1, <4>6 DEF p, q, x
    <3>5. CASE list[n] \notin ready
      <4>1. w[n] = w[n - 1]
        BY <1>1, <3>1, <3>5
      <4> QED BY <2>1, <3>2, <4>1
    <3> QED BY <3>4, <3>5
  <2> QED BY <2>1, <2>2, <2>3
<1>3. Good(w[Len(list)])
  BY <1>2
<1> QED BY <1>3 DEF PriorityAfterWalk, w

-----------------------------------------------------------------------------
(* What the functions of WakeQueue keep, for queues of any length: the     *)
(* events other than the one added or removed stay, with their task and    *)
(* uid, and no time is ever negative.                                      *)

SameEvent(e, f) == e.toWake = f.toWake /\ e.uid = f.uid

\* r holds the events of q whose uid is not the given one, and no others.
IsWithout(r, q, uid) ==
  /\ UidsDiffer(r)
  /\ \A j \in DOMAIN r : r[j].uid # uid /\ \E k \in DOMAIN q : SameEvent(r[j], q[k])
  /\ \A k \in DOMAIN q : q[k].uid # uid => \E j \in DOMAIN r : SameEvent(r[j], q[k])

\* r is q and an event for t with the uid at the back.
IsWithEvent(r, q, T, t, uid) ==
  \E e \in EventsFor(T) : e.toWake = t /\ e.uid = uid /\ r = Append(q, e)

\* The running total of wakeIn never exceeds the time asked for, so what is
\* left of it is a natural number.
LEMMA RunningTotalFits ==
  ASSUME NEW q, NEW us \in Nat
  PROVE  RunningTotal(q, us) \in 0 .. us
<1> DEFINE fits == {r \in 0 .. us : r = 0 \/ \E k \in DOMAIN q : r = UsThrough(q, k)}
           above == {us - r : r \in fits}
<1>1. 0 \in fits /\ fits \subseteq 0 .. us
  OBVIOUS
<1>2. PICK a \in above : \A b \in above : a <= b
  <2>1. above \subseteq Nat /\ above # {}
    BY <1>1
  <2> HIDE DEF above
  <2> QED BY <2>1, LeastElement
<1> HIDE DEF fits
<1>3. PICK m \in fits : a = us - m
  OBVIOUS
<1>4. \A s \in fits : s <= m
  <2> TAKE s \in fits
  <2>1. us - s \in above
    OBVIOUS
  <2>2. s \in Nat /\ m \in Nat
    BY <1>1
  <2> QED BY <1>2, <1>3, <2>1, <2>2
<1>5. (CHOOSE r \in fits : \A s \in fits : s <= r) \in fits
  BY <1>4
<1>6. RunningTotal(q, us) \in fits
  BY <1>5 DEF RunningTotal, fits
<1> QED BY <1>1, <1>6

\* wakeIn adds one event at the end.
LEMMA WakeInAppends ==
  ASSUME NEW T, NEW q \in Seq(EventsFor(T)), NEW us \in Nat, NEW t \in T,
         NEW uid \in Nat
  PROVE  IsWithEvent(WithWakeEvent(q, us, t, uid), q, T, t, uid)
<1> DEFINE e == [toWake |-> t, uid |-> uid, usLeft |-> us - RunningTotal(q, us)]
<1>1. e \in EventsFor(T) /\ e.toWake = t /\ e.uid = uid
  BY RunningTotalFits DEF EventsFor
<1>2. WithWakeEvent(q, us, t, uid) = Append(q, e)
  BY DEF WithWakeEvent
<1> HIDE DEF e
<1> QED BY <1>1, <1>2 DEF IsWithEvent

\* desched removes the event with the uid.
LEMMA DeschedRemoves ==
  ASSUME NEW T, NEW q \in Seq(EventsFor(T)), UidsDiffer(q), NEW uid
  PROVE  /\ Descheduled(q, uid) \in Seq(EventsFor(T))
         /\ IsWithout(Descheduled(q, uid), q, uid)
<1>1. CASE ~IsScheduled(q, uid)
  BY <1>1 DEF Descheduled, IsScheduled, IsWithout, SameEvent
<1>2. CASE IsScheduled(q, uid)
  <2> DEFINE i == CHOOSE i \in DOMAIN q : q[i].uid = uid
             n == Len(q) - 1
             el(j) == IF j < i THEN q[j]
                      ELSE IF j = i THEN [q[j + 1] EXCEPT !.usLeft = @ + q[i].usLeft]
                      ELSE q[j + 1]
             r == [j \in 1 .. Len(q) - 1 |-> el(j)]
             from(j) == IF j < i THEN j ELSE j + 1
  <2>1. i \in DOMAIN q /\ q[i].uid = uid
    BY <1>2 DEF IsScheduled
  <2>2. Descheduled(q, uid) = r
    BY <1>2 DEF Descheduled
  <2> HIDE DEF i
  <2>3. n \in Nat /\ n = Len(q) - 1 /\ i \in 1 .. n + 1 /\ DOMAIN q = 1 .. n + 1
    BY <2>1
  <2> HIDE DEF n
  <2>4. ASSUME NEW j \in 1 .. n
        PROVE  el(j) \in EventsFor(T) /\ SameEvent(el(j), q[from(j)])
    <3>1. q[i] \in EventsFor(T) /\ q[j] \in EventsFor(T) /\ q[j + 1] \in EventsFor(T)
      BY <2>3, ElementOfSeq
    <3>2. CASE j # i
      <4>1. el(j) = q[from(j)]
        BY <2>3, <3>2
      <4> QED BY <2>3, <3>1, <3>2, <4>1 DEF SameEvent
    <3>3. CASE j = i
      <4>1. el(j) = [q[j + 1] EXCEPT !.usLeft = @ + q[i].usLeft] /\ from(j) = j + 1
        BY <2>3, <3>3
      <4>2. \A f, g \in EventsFor(T) :
              /\ [f EXCEPT !.usLeft = @ + g.usLeft] \in EventsFor(T)
              /\ SameEvent([f EXCEPT !.usLeft = @ + g.usLeft], f)
        BY SMTT(30) DEF EventsFor, SameEvent
      <4> HIDE DEF el, from
      <4> QED BY <3>1, <4>1, <4>2
    <3> QED BY <3>2, <3>3
  <2>5. r \in [1 .. n -> EventsFor(T)]
    BY <2>3, <2>4
  <2>6. r \in Seq(EventsFor(T)) /\ DOMAIN r = 1 .. n
    BY <2>3, <2>5, SeqDef
  <2>7. \A j \in 1 .. n : SameEvent(r[j], q[from(j)])
    BY <2>3, <2>4
  <2> HIDE DEF r, el
  <2>8. \A j \in 1 .. n : from(j) \in DOMAIN q /\ from(j) # i
    BY <2>3
  <2>9. \A j, k \in 1 .. n : from(j) = from(k) => j = k
    BY <2>3
  <2>10. \A k \in DOMAIN q : k # i => \E j \in 1 .. n : from(j) = k
    <3> TAKE k \in DOMAIN q
    <3>1. CASE k < i
      <4>1. k \in 1 .. n /\ from(k) = k
        BY <2>3, <3>1
      <4> QED BY <4>1
    <3>2. CASE k > i
      <4>1. k - 1 \in 1 .. n /\ from(k - 1) = k
        BY <2>3, <3>2
      <4> QED BY <4>1
    <3> QED BY <2>3, <3>1, <3>2
  <2> HIDE DEF from
  <2>11. UidsDiffer(r)
    BY <2>6, <2>7, <2>8, <2>9 DEF UidsDiffer, SameEvent
  <2>12. \A j \in DOMAIN r :
           r[j].uid # uid /\ \E k \in DOMAIN q : SameEvent(r[j], q[k])
    BY <2>1, <2>6, <2>7, <2>8 DEF UidsDiffer, SameEvent
  <2>13. \A k \in DOMAIN q : q[k].uid # uid => \E j \in DOMAIN r : SameEvent(r[j], q[k])
    BY <2>1, <2>6, <2>7, <2>10
  <2> QED BY <2>2, <2>6, <2>11, <2>12, <2>13 DEF IsWithout
<1> QED BY <1>1, <1>2

\* A tick on which the head is due removes the head.
LEMMA TickRemovesDueHead ==
  ASSUME NEW T, NEW q \in Seq(EventsFor(T)), UidsDiffer(q), HeadIsDue(q)
  PROVE  /\ AfterTick(q) \in Seq(EventsFor(T))
         /\ IsWithout(AfterTick(q), q, Head(q).uid)
<1> DEFINE r == Tail(q)
<1>1. q # <<>> /\ AfterTick(q) = r
  BY DEF HeadIsDue, AfterTick
<1>2. /\ r \in Seq(EventsFor(T)) /\ Len(r) = Len(q) - 1
      /\ \A i \in 1 .. Len(r) : r[i] = q[i + 1]
      /\ Head(q) = q[1]
  BY <1>1, HeadTailProperties
<1> HIDE DEF r
<1>4. \A j \in DOMAIN r : j + 1 \in DOMAIN q /\ r[j] = q[j + 1] /\ q[j + 1].uid # q[1].uid
  BY <1>1, <1>2 DEF UidsDiffer
<1>3. ASSUME NEW i \in DOMAIN r, NEW j \in DOMAIN r, r[i].uid = r[j].uid
      PROVE  i = j
  <2>1. i + 1 = j + 1
    BY <1>3, <1>4 DEF UidsDiffer
  <2> QED BY <1>2, <2>1
<1>5. \A k \in DOMAIN q : k # 1 => k - 1 \in DOMAIN r /\ r[k - 1] = q[k]
  BY <1>1, <1>2
<1> QED BY <1>1, <1>2, <1>3, <1>4, <1>5 DEF IsWithout, SameEvent, UidsDiffer

\* A tick on which the head is not due keeps every event.
LEMMA TickKeepsOthers ==
  ASSUME NEW T, NEW q \in Seq(EventsFor(T)), ~HeadIsDue(q)
  PROVE  /\ AfterTick(q) \in Seq(EventsFor(T))
         /\ DOMAIN AfterTick(q) = DOMAIN q
         /\ \A i \in DOMAIN q : SameEvent(AfterTick(q)[i], q[i])
<1>1. CASE q = <<>>
  BY <1>1 DEF AfterTick, SameEvent
<1>2. CASE q # <<>>
  <2> DEFINE e == [q[1] EXCEPT !.usLeft = @ - UsPerTick]
             r == [q EXCEPT ![1] = e]
  <2>1. 1 \in 1 .. Len(q) /\ Head(q) = q[1] /\ q[1] \in EventsFor(T)
    BY <1>2
  <2>2. q[1].usLeft \in Nat /\ q[1].usLeft > UsPerTick
    BY <1>2, <2>1, UsPerTickAssumption DEF HeadIsDue, EventsFor
  <2>3. e \in EventsFor(T) /\ SameEvent(e, q[1])
    BY <2>1, <2>2, UsPerTickAssumption DEF EventsFor, SameEvent
  <2>4. AfterTick(q) = r
    BY <1>2 DEF AfterTick
  <2> HIDE DEF e
  <2>5. r \in Seq(EventsFor(T)) /\ DOMAIN r = DOMAIN q
        /\ \A i \in DOMAIN q : r[i] = IF i = 1 THEN e ELSE q[i]
    BY <2>1, <2>3, ExceptSeq
  <2> QED BY <2>3, <2>4, <2>5 DEF SameEvent
<1> QED BY <1>1, <1>2

-----------------------------------------------------------------------------
(* Evaluating a blocking call.                                             *)

\* What evaluating a call answers, for each kind of call.
LEMMA EvaluateNothing ==
  ASSUME NEW t, NEW c, NEW h, NEW q, NEW last, NEW r,
         r = Evaluate(t, c, h, q, last), c.kind = "none"
  PROVE  ~r.block /\ r.call = c /\ r.hits = h /\ r.wake = q /\ r.last = last
<1>1. r = Outcome(FALSE, c, h, q, last, TRUE)
  BY DEF Evaluate
<1> QED BY <1>1 DEF Outcome

LEMMA EvaluateInterrupted ==
  ASSUME NEW t, NEW c, NEW h, NEW q, NEW last, NEW r,
         r = Evaluate(t, c, h, q, last), c.kind = "irq", h # 0
  PROVE  /\ ~r.block /\ r.hits = h - 1 /\ r.last = last
         /\ c.uid # 0 => r.wake = Descheduled(q, c.uid)
         /\ c.uid = 0 => r.wake = q
<1>1. r = EvalIRQWait(t, c, h, q, last)
  BY DEF Evaluate
<1>2. r = Outcome(FALSE, [c EXCEPT !.uid = 0], h - 1,
                  IF c.uid # 0 THEN Descheduled(q, c.uid) ELSE q, last,
                  c.uid # 0 => IsScheduled(q, c.uid))
  BY <1>1 DEF EvalIRQWait
<1> QED BY <1>2 DEF Outcome

LEMMA EvaluateTimedOut ==
  ASSUME NEW t, NEW c, NEW h, NEW q, NEW last, NEW r,
         r = Evaluate(t, c, h, q, last), c.kind = "irq", h = 0,
         c.us # 0, c.uid # 0
  PROVE  ~r.block /\ r.hits = h /\ r.wake = q /\ r.last = last
<1>1. r = EvalIRQWait(t, c, h, q, last)
  BY DEF Evaluate
<1>2. r = Outcome(c.us = 0, [c EXCEPT !.uid = 0], h, q, last, TRUE)
  BY <1>1 DEF EvalIRQWait
<1>3. r = Outcome(FALSE, [c EXCEPT !.uid = 0], h, q, last, TRUE)
  BY <1>2
<1> QED BY <1>3 DEF Outcome

LEMMA EvaluateUntimed ==
  ASSUME NEW t, NEW c, NEW h, NEW q, NEW last, NEW r,
         r = Evaluate(t, c, h, q, last), c.kind = "irq", h = 0, c.us = 0
  PROVE  /\ r.block /\ r.call = [c EXCEPT !.uid = 0]
         /\ r.hits = h /\ r.wake = q /\ r.last = last
<1>1. r = EvalIRQWait(t, c, h, q, last)
  BY DEF Evaluate
<1>2. r = Outcome(c.us = 0, [c EXCEPT !.uid = 0], h, q, last, TRUE)
  BY <1>1 DEF EvalIRQWait
<1>3. r = Outcome(TRUE, [c EXCEPT !.uid = 0], h, q, last, TRUE)
  BY <1>2
<1> QED BY <1>3 DEF Outcome

LEMMA EvaluateSlept ==
  ASSUME NEW t, NEW c, NEW h, NEW q, NEW last, NEW r,
         r = Evaluate(t, c, h, q, last), c.kind = "sleep", c.uid # 0
  PROVE  ~r.block /\ r.hits = h /\ r.wake = q /\ r.last = last
<1>1. r = Outcome(FALSE, c, h, q, last, TRUE)
  BY DEF Evaluate, EvalNanosleep
<1> QED BY <1>1 DEF Outcome

LEMMA EvaluateTimed ==
  ASSUME NEW t, NEW c, NEW h, NEW q, NEW last, NEW r,
         r = Evaluate(t, c, h, q, last), c.uid = 0,
         c.kind = "sleep" \/ (c.kind = "irq" /\ h = 0 /\ c.us # 0)
  PROVE  /\ r.block /\ r.call = [c EXCEPT !.uid = last + 1] /\ r.hits = h
         /\ r.wake = WithWakeEvent(q, c.us, t, last + 1) /\ r.last = last + 1
<1>1. r = ScheduleWake(t, c, h, q, last)
  BY DEF Evaluate, EvalIRQWait, EvalNanosleep
<1> QED BY <1>1 DEF ScheduleWake, Outcome

\* The task and the uid of an event of the queue.
LEMMA EventTasks ==
  ASSUME NEW T, NEW q \in Seq(EventsFor(T)), NEW i \in DOMAIN q
  PROVE  q[i].toWake \in T /\ q[i].uid \in Nat
<1>1. q[i] \in EventsFor(T)
  OBVIOUS
<1> QED BY <1>1 DEF EventsFor

\* The call of a task that does not wait does not block, and leaves no wake
\* event with the call's uid.
LEMMA EvaluateCompletes ==
  ASSUME NEW alive, NEW w, NEW c, NEW h, NEW q, NEW last,
         CallsAreTyped(w, c, h, q, last), CallsInv(alive, w, c, h, q, last),
         NEW t \in Tasks, ~w[t], NEW r, r = Evaluate(t, c[t], h[t], q, last)
  PROVE  /\ ~r.block
         /\ r.last = last
         /\ r.hits \in Nat
         /\ r.wake \in Seq(EventsFor(Tasks))
         /\ IsWithout(r.wake, q, c[t].uid)
<1> DEFINE d == c[t]
           n == h[t]
<1>1. /\ d \in Calls /\ n \in Nat /\ last \in Nat
      /\ q \in Seq(EventsFor(Tasks)) /\ UidsDiffer(q)
  BY DEF CallsAreTyped, CallsInv, UidsAreUnique
<1>2. /\ d.kind = "none" => d.uid = 0
      /\ d.kind = "sleep" => d.uid # 0
      /\ d.kind = "irq" => (d.uid # 0 <=> d.us # 0)
      /\ d.kind = "irq" /\ n = 0 => d.us # 0
      /\ d.kind \in {"none", "irq", "sleep"}
  BY <1>1 DEF CallsInv, CallsAreFormed, InterruptsAreKept, NoCall, Calls
<1>3. \A i \in DOMAIN q : q[i].uid = d.uid => d.kind = "irq" /\ n > 0
  <2> SUFFICES ASSUME NEW i \in DOMAIN q, q[i].uid = d.uid
               PROVE  d.kind = "irq" /\ n > 0
    OBVIOUS
  <2> DEFINE x == q[i].toWake
  <2>1. x \in Tasks
    BY <1>1, EventTasks
  <2>2. /\ q[i].uid # 0 /\ c[x].uid = q[i].uid
        /\ ~w[x] => c[x].kind = "irq" /\ h[x] > 0
    BY DEF CallsInv, EventsAreOwned
  <2> HIDE DEF x
  <2>3. x = t
    BY <2>1, <2>2 DEF CallsInv, UidsAreUnique
  <2> QED BY <2>2, <2>3
<1>4. (\A i \in DOMAIN q : q[i].uid # d.uid) => IsWithout(q, q, d.uid)
  BY <1>1 DEF IsWithout, SameEvent
<1>5. \A i \in DOMAIN q : q[i].uid # 0
  BY DEF CallsInv, EventsAreOwned
<1>6. r = Evaluate(t, d, n, q, last)
  OBVIOUS
<1> HIDE DEF d, n
<1>7. CASE d.kind = "irq" /\ n > 0
  <2>1. /\ ~r.block /\ r.last = last /\ r.hits = n - 1
        /\ d.uid # 0 => r.wake = Descheduled(q, d.uid)
        /\ d.uid = 0 => r.wake = q
    BY <1>1, <1>6, <1>7, EvaluateInterrupted
  <2>2. r.hits \in Nat
    BY <1>1, <1>7, <2>1
  <2>3. r.wake \in Seq(EventsFor(Tasks)) /\ IsWithout(r.wake, q, d.uid)
    <3>1. CASE d.uid # 0
      BY <1>1, <2>1, <3>1, DeschedRemoves
    <3>2. CASE d.uid = 0
      BY <1>1, <1>4, <1>5, <2>1, <3>2
    <3> QED BY <3>1, <3>2
  <2> QED BY <2>1, <2>2, <2>3 DEF d
<1>8. CASE ~(d.kind = "irq" /\ n > 0)
  <2>1. ~r.block /\ r.last = last /\ r.hits = n /\ r.wake = q
    <3>1. CASE d.kind = "irq"
      <4>1. n = 0 /\ d.us # 0 /\ d.uid # 0
        BY <1>1, <1>2, <1>8, <3>1
      <4> QED BY <1>6, <3>1, <4>1, EvaluateTimedOut
    <3>2. CASE d.kind = "sleep"
      BY <1>2, <1>6, <3>2, EvaluateSlept
    <3>3. CASE d.kind = "none"
      BY <1>6, <3>3, EvaluateNothing
    <3> QED BY <1>2, <3>1, <3>2, <3>3
  <2>2. IsWithout(q, q, d.uid)
    BY <1>3, <1>4, <1>8
  <2> QED BY <1>1, <2>1, <2>2 DEF d, n
<1> QED BY <1>7, <1>8

-----------------------------------------------------------------------------
(* Switching to a task.                                                    *)

\* Switching to a task that does not wait completes the call it was in and
\* keeps everybody else's; the machine can stop only for a missing wake event.
LEMMA AssignKeepsCalls ==
  ASSUME NEW alive, NEW w, NEW c, NEW h, NEW q, NEW last,
         CallsAreTyped(w, c, h, q, last), CallsInv(alive, w, c, h, q, last),
         NEW t \in Tasks, ~w[t], Assign(t, w, c, h, q, last)
  PROVE  /\ current' = t
         /\ waiting' = w
         /\ call' = [c EXCEPT ![t] = NoCall]
         /\ panic' \in {"no", "wake event to deschedule is gone"}
         /\ CallsAreTyped(waiting', call', hits', wakeevents', lastWakeId')
         /\ CallsInv(alive, waiting', call', hits', wakeevents', lastWakeId')
<1> DEFINE s == Evaluate(t, c[t], h[t], q, last)
<1>0. PICK r : r = s
  OBVIOUS
<1>1. /\ ~r.block /\ r.last = last /\ r.hits \in Nat
      /\ r.wake \in Seq(EventsFor(Tasks)) /\ IsWithout(r.wake, q, c[t].uid)
  BY <1>0, EvaluateCompletes
<1>2. /\ current' = t /\ waiting' = w
      /\ hits' = [h EXCEPT ![t] = r.hits]
      /\ wakeevents' = r.wake /\ lastWakeId' = r.last
      /\ call' = [c EXCEPT ![t] = IF r.block THEN r.call ELSE NoCall]
      /\ panic' = IF w[t] THEN "switched to a waiting task"
                  ELSE IF ~r.ok THEN "wake event to deschedule is gone"
                  ELSE IF r.block THEN "resumed call blocks again"
                  ELSE "no"
  BY <1>0 DEF Assign
<1> HIDE DEF s
<1> DEFINE w2 == waiting' c2 == call' h2 == hits' q2 == wakeevents'
<1>3. /\ w2 = w /\ q2 = r.wake /\ lastWakeId' = last
      /\ c2 = [c EXCEPT ![t] = NoCall]
      /\ h2 = [h EXCEPT ![t] = r.hits]
      /\ panic' \in {"no", "wake event to deschedule is gone"}
  BY <1>1, <1>2
<1>4. /\ w \in [Tasks -> BOOLEAN] /\ c \in [Tasks -> Calls] /\ h \in [Tasks -> Nat]
      /\ q \in Seq(EventsFor(Tasks)) /\ last \in Nat
  BY DEF CallsAreTyped
<1>5. NoCall \in Calls /\ NoCall.kind = "none" /\ NoCall.uid = 0
  BY DEF NoCall, Calls
<1>6. CallsAreTyped(w2, c2, h2, q2, last)
  BY <1>1, <1>3, <1>4, <1>5 DEF CallsAreTyped
<1>7. /\ c2[t] = NoCall
      /\ \A x \in Tasks : x # t => c2[x] = c[x] /\ h2[x] = h[x]
  BY <1>3, <1>4
<1>8. /\ \A i \in DOMAIN q : q[i].toWake \in Tasks
      /\ \A i \in DOMAIN q2 : q2[i].toWake \in Tasks
  BY <1>1, <1>3, <1>4, EventTasks
<1>9. IsWithout(q2, q, c[t].uid)
  BY <1>1, <1>3
<1>10. w2 = w
  BY <1>3
<1> HIDE DEF w2, c2, h2, q2
<1>11. CallsAreFormed(alive, w2, c2, last)
  BY <1>4, <1>5, <1>7, <1>10 DEF CallsInv, CallsAreFormed
<1>12. InterruptsAreKept(w2, c2, h2)
  BY <1>5, <1>7, <1>10 DEF CallsInv, InterruptsAreKept
<1>13. AlarmsAreSet(w2, c2, q2)
  <2> SUFFICES ASSUME NEW x \in Tasks, w2[x], c2[x].uid # 0
               PROVE  \E j \in DOMAIN q2 : q2[j].toWake = x /\ q2[j].uid = c2[x].uid
    BY DEF AlarmsAreSet
  <2>1. x # t /\ c2[x] = c[x]
    BY <1>5, <1>7
  <2>2. PICK i \in DOMAIN q : q[i].toWake = x /\ q[i].uid = c[x].uid
    BY <1>10, <2>1 DEF CallsInv, AlarmsAreSet
  <2>3. q[i].uid # c[t].uid
    BY <2>1, <2>2 DEF CallsInv, UidsAreUnique
  <2> QED BY <1>9, <2>1, <2>2, <2>3 DEF IsWithout, SameEvent
<1>14. EventsAreOwned(w2, c2, h2, q2)
  <2> SUFFICES ASSUME NEW j \in DOMAIN q2
               PROVE  /\ q2[j].uid # 0
                      /\ c2[q2[j].toWake].uid = q2[j].uid
                      /\ ~w2[q2[j].toWake] => /\ c2[q2[j].toWake].kind = "irq"
                                              /\ h2[q2[j].toWake] > 0
    BY DEF EventsAreOwned
  <2>1. PICK k \in DOMAIN q : SameEvent(q2[j], q[k])
    BY <1>9 DEF IsWithout
  <2> DEFINE x == q[k].toWake
  <2>2. x \in Tasks /\ q2[j].toWake = x /\ q2[j].uid = q[k].uid /\ q[k].uid # c[t].uid
    BY <1>8, <1>9, <2>1 DEF IsWithout, SameEvent
  <2>3. /\ q[k].uid # 0 /\ c[x].uid = q[k].uid
        /\ ~w[x] => c[x].kind = "irq" /\ h[x] > 0
    BY DEF CallsInv, EventsAreOwned
  <2> HIDE DEF x
  <2> QED BY <1>7, <1>10, <2>2, <2>3
<1>15. UidsAreUnique(c2, q2)
  BY <1>5, <1>7, <1>9 DEF CallsInv, UidsAreUnique, IsWithout
<1>16. CallsInv(alive, w2, c2, h2, q2, last)
  BY <1>11, <1>12, <1>13, <1>14, <1>15 DEF CallsInv
<1> QED
  BY <1>2, <1>3, <1>6, <1>16 DEF w2, c2, h2, q2

-----------------------------------------------------------------------------
(* Choosing the task to switch to.                                         *)

\* A list of distinct live tasks that do not wait.
Switchable(p, w) ==
  /\ p \in Seq(Tasks)
  /\ IsInjective(p)
  /\ \A t \in ToSet(p) : t \in Alive /\ ~w[t]

\* What a handler that switches tasks can rely on.
ListsAreReady(w) ==
  /\ tasks \in Seq(Tasks)
  /\ IsInjective(tasks)
  /\ Idle \in Alive
  /\ current \in Alive
  /\ w \in [Tasks -> BOOLEAN]
  /\ Switchable(prio, w)
  /\ current \notin ToSet(prio)

\* Taking the head off such a list leaves such a list, without the head.
LEMMA TailIsSwitchable ==
  ASSUME NEW p, NEW w, Switchable(p, w), p # <<>>
  PROVE  /\ Head(p) \in Alive /\ Head(p) \in Tasks /\ ~w[Head(p)]
         /\ Head(p) \in ToSet(p)
         /\ Switchable(Tail(p), w)
         /\ Head(p) \notin ToSet(Tail(p)) /\ ToSet(Tail(p)) \subseteq ToSet(p)
<1>1. /\ p \in Seq(Tasks) /\ IsInjective(p)
      /\ \A t \in ToSet(p) : t \in Alive /\ ~w[t]
  BY DEF Switchable
<1> DEFINE r == Tail(p)
<1>2. /\ r \in Seq(Tasks) /\ Len(r) = Len(p) - 1
      /\ \A i \in 1 .. Len(r) : r[i] = p[i + 1]
      /\ Head(p) = p[1] /\ Len(p) \in Nat /\ Len(p) # 0
  BY <1>1, HeadTailProperties, EmptySeq, LenProperties
<1>3. DOMAIN r = 1 .. Len(r) /\ DOMAIN p = 1 .. Len(p) /\ 1 \in DOMAIN p
  BY <1>1, <1>2, LenProperties
<1> HIDE DEF r
<1>4. \A i \in DOMAIN r : i \in Nat /\ i # 0 /\ i + 1 \in DOMAIN p /\ r[i] = p[i + 1]
  BY <1>2, <1>3
<1>5. ToSet(r) = {r[i] : i \in DOMAIN r} /\ ToSet(p) = {p[i] : i \in DOMAIN p}
  BY DEF ToSet
<1>6. ToSet(r) \subseteq ToSet(p)
  BY <1>4, <1>5
<1>7. Head(p) \in ToSet(p)
  BY <1>2, <1>3, <1>5
<1>8. Head(p) \notin ToSet(r)
  <2> SUFFICES ASSUME NEW i \in DOMAIN r, r[i] = p[1] PROVE FALSE
    BY <1>2, <1>5
  <2>1. i + 1 \in DOMAIN p /\ p[i + 1] = p[1] /\ i + 1 # 1
    BY <1>4
  <2> QED BY <1>1, <1>3, <2>1 DEF IsInjective
<1>9. IsInjective(r)
  <2> SUFFICES ASSUME NEW i \in DOMAIN r, NEW j \in DOMAIN r, r[i] = r[j]
               PROVE  i = j
    BY DEF IsInjective
  <2>1. p[i + 1] = p[j + 1] /\ i + 1 \in DOMAIN p /\ j + 1 \in DOMAIN p
    BY <1>4
  <2>2. i + 1 = j + 1
    BY <1>1, <2>1 DEF IsInjective
  <2> QED BY <1>4, <2>2
<1>10. Head(p) \in Tasks
  BY <1>1, <1>2, <1>3
<1> QED BY <1>1, <1>2, <1>6, <1>7, <1>8, <1>9, <1>10 DEF Switchable, r

\* prepareFetchNextTask finds a live task that does not wait; when the idle
\* task is not the one running, it is not the running task.
LEMMA FetchIsReady ==
  ASSUME NEW w, ListsAreReady(w), ~w[Idle]
  PROVE  /\ CanFetch(w)
         /\ FetchNext(w) \in Alive /\ FetchNext(w) \in Tasks /\ ~w[FetchNext(w)]
         /\ current # Idle => FetchNext(w) # current
         /\ TakeFromPriority =>
              /\ Switchable(prio', w)
              /\ FetchNext(w) \notin ToSet(prio') /\ current \notin ToSet(prio')
<1>1. /\ tasks \in Seq(Tasks) /\ IsInjective(tasks)
      /\ Idle \in ToSet(tasks) /\ current \in ToSet(tasks)
      /\ w \in [Tasks -> BOOLEAN]
      /\ Switchable(prio, w) /\ current \notin ToSet(prio)
  BY DEF ListsAreReady, Alive
<1>2. CASE prio # <<>>
  <2>1. /\ CanFetch(w) /\ FetchNext(w) = Head(prio)
        /\ TakeFromPriority => prio' = Tail(prio)
    BY <1>2 DEF CanFetch, FetchNext, TakeFromPriority
  <2>2. /\ Head(prio) \in Alive /\ Head(prio) \in Tasks /\ ~w[Head(prio)]
        /\ Head(prio) \in ToSet(prio)
        /\ Switchable(Tail(prio), w)
        /\ Head(prio) \notin ToSet(Tail(prio)) /\ ToSet(Tail(prio)) \subseteq ToSet(prio)
    BY <1>1, <1>2, TailIsSwitchable
  <2> QED BY <1>1, <2>1, <2>2
<1>3. CASE prio = <<>>
  <2>1. SomeRunnable(tasks, w)
    BY <1>1, TasksAssumption DEF SomeRunnable, ToSet
  <2>2. /\ NextRunnable(tasks, current, w) \in ToSet(tasks)
        /\ ~w[NextRunnable(tasks, current, w)]
        /\ current # Idle => NextRunnable(tasks, current, w) # current
    BY <1>1, <2>1, NextRunnableRuns
  <2>3. /\ CanFetch(w) /\ FetchNext(w) = NextRunnable(tasks, current, w)
        /\ TakeFromPriority => prio' = prio
    BY <1>3, <2>1 DEF CanFetch, FetchNext, TakeFromPriority
  <2>4. ToSet(prio) = {} /\ ToSet(tasks) \subseteq Tasks
    BY <1>1, <1>3 DEF ToSet
  <2> QED BY <1>1, <2>2, <2>3, <2>4 DEF Alive
<1> QED BY <1>2, <1>3

\* What holds after a switch.
Switched(w, c) ==
  /\ current' \in Alive
  /\ ~w[current']
  /\ waiting' = w
  /\ Switchable(prio', w)
  /\ current' \notin ToSet(prio')
  /\ call' = [c EXCEPT ![current'] = NoCall]
  /\ panic' \in {"no", "wake event to deschedule is gone"}
  /\ CallsAreTyped(waiting', call', hits', wakeevents', lastWakeId')
  /\ CallsInv(Alive, waiting', call', hits', wakeevents', lastWakeId')

\* The timer's switch, and a system call's.
LEMMA CycleSwitches ==
  ASSUME NEW w, NEW c, NEW h, NEW q, NEW last, ListsAreReady(w),
         CallsAreTyped(w, c, h, q, last), CallsInv(Alive, w, c, h, q, last),
         ~w[Idle], Cycle(w, c, h, q, last)
  PROVE  /\ Switched(w, c)
         /\ current # Idle => current' # current
         /\ current \notin ToSet(prio')
<1>1. /\ CanFetch(w)
      /\ FetchNext(w) \in Alive /\ FetchNext(w) \in Tasks /\ ~w[FetchNext(w)]
      /\ current # Idle => FetchNext(w) # current
      /\ TakeFromPriority =>
           /\ Switchable(prio', w)
           /\ FetchNext(w) \notin ToSet(prio') /\ current \notin ToSet(prio')
  BY FetchIsReady
<1>2. TakeFromPriority /\ Assign(FetchNext(w), w, c, h, q, last)
  BY <1>1 DEF Cycle
<1>3. PICK t : t = FetchNext(w)
  OBVIOUS
<1>4. /\ t \in Tasks /\ t \in Alive /\ ~w[t] /\ Assign(t, w, c, h, q, last)
      /\ current # Idle => t # current
      /\ Switchable(prio', w) /\ t \notin ToSet(prio') /\ current \notin ToSet(prio')
  BY <1>1, <1>2, <1>3
<1>5. /\ current' = t
      /\ waiting' = w
      /\ call' = [c EXCEPT ![t] = NoCall]
      /\ panic' \in {"no", "wake event to deschedule is gone"}
      /\ CallsAreTyped(waiting', call', hits', wakeevents', lastWakeId')
      /\ CallsInv(Alive, waiting', call', hits', wakeevents', lastWakeId')
  BY <1>4, AssignKeepsCalls
<1> QED BY <1>4, <1>5 DEF Switched

LEMMA ReturnSwitches ==
  ASSUME NEW w, NEW c, NEW h, NEW q, NEW last, ListsAreReady(w),
         CallsAreTyped(w, c, h, q, last), CallsInv(Alive, w, c, h, q, last),
         ~w[Idle], current # Idle, ReturnToNextTask(w, c, h, q, last)
  PROVE  Switched(w, c) /\ current' # current /\ current \notin ToSet(prio')
<1>1. FetchNext(w) # current
  BY FetchIsReady
<1>2. Cycle(w, c, h, q, last)
  BY <1>1 DEF ReturnToNextTask
<1> QED BY <1>2, CycleSwitches

-----------------------------------------------------------------------------
(* What the invariant says, and when it holds again.                       *)

LEMMA ElementsAreTyped ==
  ASSUME NEW S, NEW list \in Seq(S)
  PROVE  ToSet(list) \subseteq S
  BY DEF ToSet

\* What the handlers use of the invariant.
LEMMA InvGives ==
  ASSUME SchedulerInv, panic = "no"
  PROVE  /\ ListsAreReady(waiting)
         /\ CallsAreTyped(waiting, call, hits, wakeevents, lastWakeId)
         /\ CallsInv(Alive, waiting, call, hits, wakeevents, lastWakeId)
         /\ current \in Tasks /\ call[current].kind = "none"
         /\ ~waiting[Idle] /\ call[Idle].kind = "none" /\ listen[Idle] = NoIrq
         /\ listen \in [Tasks -> Irqs \cup {NoIrq}]
         /\ spawned \subseteq Tasks /\ spawned \cap Alive = {}
<1>1. /\ TypeOK /\ TaskListInv /\ IdleInv /\ PriorityListIsReady
      /\ call[current].kind = "none"
      /\ CallsInv(Alive, waiting, call, hits, wakeevents, lastWakeId)
  BY DEF SchedulerInv
<1>2. /\ tasks \in Seq(Tasks) /\ IsInjective(tasks) /\ Idle \in Alive
      /\ current \in Alive /\ waiting \in [Tasks -> BOOLEAN]
      /\ \A t \in ToSet(prio) : t \in Alive \ {current} /\ ~waiting[t]
      /\ IsInjective(prio) /\ prio \in Seq(Tasks)
  BY <1>1 DEF TypeOK, TaskListInv, PriorityListIsReady
<1>3. ListsAreReady(waiting)
  BY <1>2 DEF ListsAreReady, Switchable
<1>4. CallsAreTyped(waiting, call, hits, wakeevents, lastWakeId)
  BY <1>1 DEF TypeOK, CallsAreTyped
<1>5. /\ current \in Tasks /\ listen \in [Tasks -> Irqs \cup {NoIrq}]
      /\ spawned \subseteq Tasks /\ spawned \cap Alive = {}
      /\ call[Idle].kind = "none" /\ listen[Idle] = NoIrq
  BY <1>1 DEF TypeOK, TaskListInv, IdleInv
<1>6. ~waiting[Idle]
  BY <1>1, <1>5, TasksAssumption DEF CallsInv, CallsAreFormed
<1> QED BY <1>1, <1>3, <1>4, <1>5, <1>6

\* The invariant holds after a step that leaves the task list, the switchable
\* tasks, the idle task and the calls as they should be.
LEMMA InvHolds ==
  ASSUME tasks' \in Seq(Tasks), IsInjective(tasks'), Idle \in Alive',
         current' \in Alive', ~waiting'[current'], call'[current'].kind = "none",
         prio' \in Seq(Tasks), IsInjective(prio'),
         \A t \in ToSet(prio') : t \in Alive' /\ ~waiting'[t],
         current' \notin ToSet(prio'),
         CallsAreTyped(waiting', call', hits', wakeevents', lastWakeId'),
         CallsInv(Alive', waiting', call', hits', wakeevents', lastWakeId'),
         call'[Idle].kind = "none", listen'[Idle] = NoIrq,
         listen' \in [Tasks -> Irqs \cup {NoIrq}],
         spawned' \subseteq Tasks, spawned' \cap Alive' = {},
         panic' \in {"no", "wake event to deschedule is gone"}
  PROVE  SchedulerInv'
<1>1. current' \in Tasks
  BY ElementsAreTyped DEF Alive
<1>2. TypeOK'
  <2>1. /\ waiting' \in [Tasks -> BOOLEAN] /\ call' \in [Tasks -> Calls]
        /\ hits' \in [Tasks -> Nat]
        /\ wakeevents' \in Seq(EventsFor(Tasks)) /\ lastWakeId' \in Nat
    BY DEF CallsAreTyped
  <2>2. panic' \in Panics
    BY DEF Panics
  <2> QED BY <1>1, <2>1, <2>2 DEF TypeOK
<1>3. SchedulerNeverPanics'
  BY DEF SchedulerNeverPanics
<1>4. TaskListInv' /\ IdleInv'
  BY DEF TaskListInv, IdleInv
<1>5. PriorityListIsReady'
  BY DEF PriorityListIsReady
<1> QED BY <1>2, <1>3, <1>4, <1>5 DEF SchedulerInv

\* So it does after a switch among the same tasks.
LEMMA SwitchedKeepsInv ==
  ASSUME SchedulerInv, panic = "no", NEW w, NEW c \in [Tasks -> Calls],
         Switched(w, c), c[Idle].kind = "none", UNCHANGED <<tasks, listen, spawned>>
  PROVE  SchedulerInv'
<1>1. /\ tasks' \in Seq(Tasks) /\ IsInjective(tasks') /\ Alive' = Alive
      /\ Idle \in Alive
      /\ listen' \in [Tasks -> Irqs \cup {NoIrq}] /\ listen'[Idle] = NoIrq
      /\ spawned' \subseteq Tasks /\ spawned' \cap Alive = {}
  BY InvGives DEF ListsAreReady, Alive
<1>2. /\ current' \in Alive /\ ~waiting'[current'] /\ waiting' = w
      /\ Switchable(prio', w) /\ current' \notin ToSet(prio')
      /\ call' = [c EXCEPT ![current'] = NoCall]
      /\ panic' \in {"no", "wake event to deschedule is gone"}
      /\ CallsAreTyped(waiting', call', hits', wakeevents', lastWakeId')
      /\ CallsInv(Alive, waiting', call', hits', wakeevents', lastWakeId')
  BY DEF Switched
<1>3. /\ prio' \in Seq(Tasks) /\ IsInjective(prio')
      /\ \A t \in ToSet(prio') : t \in Alive /\ ~w[t]
  BY <1>2 DEF Switchable
<1>4. call'[current'].kind = "none" /\ call'[Idle].kind = "none"
  <2>1. current' \in Tasks /\ Idle \in Tasks
    BY <1>1, <1>2, ElementsAreTyped, TasksAssumption DEF Alive
  <2> QED BY <1>2, <2>1 DEF NoCall
<1> QED BY <1>1, <1>2, <1>3, <1>4, InvHolds

-----------------------------------------------------------------------------
(* The timer's tick.                                                       *)

\* Waking the task of an event that comes due keeps everybody's calls.
LEMMA TickDueKeeps ==
  ASSUME NEW alive, NEW w, NEW c, NEW h, NEW q, NEW last,
         CallsAreTyped(w, c, h, q, last), CallsInv(alive, w, c, h, q, last),
         HeadIsDue(q), NEW w2, w2 = [w EXCEPT ![Head(q).toWake] = FALSE],
         NEW q2, q2 = AfterTick(q)
  PROVE  CallsAreTyped(w2, c, h, q2, last) /\ CallsInv(alive, w2, c, h, q2, last)
<1> DEFINE x == Head(q).toWake
           id == Head(q).uid
<1>1. /\ w \in [Tasks -> BOOLEAN] /\ c \in [Tasks -> Calls] /\ h \in [Tasks -> Nat]
      /\ q \in Seq(EventsFor(Tasks)) /\ last \in Nat /\ UidsDiffer(q)
  BY DEF CallsAreTyped, CallsInv, UidsAreUnique
<1>2. q2 \in Seq(EventsFor(Tasks)) /\ IsWithout(q2, q, id)
  BY <1>1, TickRemovesDueHead
<1>3. /\ x \in Tasks /\ id # 0 /\ c[x].uid = id
      /\ \A i \in DOMAIN q : q[i].toWake \in Tasks
  <2>1. 1 \in DOMAIN q /\ x = q[1].toWake /\ id = q[1].uid
    <3>1. q # <<>>
      BY DEF HeadIsDue
    <3> QED BY <1>1, <3>1
  <2>2. \A i \in DOMAIN q : q[i].toWake \in Tasks
    BY <1>1, EventTasks
  <2>3. q[1].uid # 0 /\ c[q[1].toWake].uid = q[1].uid
    BY <2>1 DEF CallsInv, EventsAreOwned
  <2> QED BY <2>1, <2>2, <2>3
<1>4. c[x].kind # "none"
  BY <1>3 DEF CallsInv, CallsAreFormed, NoCall
<1> HIDE DEF x, id
<1>5. /\ w2 \in [Tasks -> BOOLEAN] /\ ~w2[x]
      /\ \A t \in Tasks : t # x => w2[t] = w[t]
  BY <1>1, <1>3 DEF x
<1>6. CallsAreTyped(w2, c, h, q2, last)
  BY <1>1, <1>2, <1>5 DEF CallsAreTyped
<1>7. CallsAreFormed(alive, w2, c, last)
  BY <1>4, <1>5 DEF CallsInv, CallsAreFormed
<1>8. InterruptsAreKept(w2, c, h)
  BY <1>3, <1>5 DEF CallsInv, CallsAreFormed, InterruptsAreKept
<1>9. AlarmsAreSet(w2, c, q2)
  <2> SUFFICES ASSUME NEW t \in Tasks, w2[t], c[t].uid # 0
               PROVE  \E j \in DOMAIN q2 : q2[j].toWake = t /\ q2[j].uid = c[t].uid
    BY DEF AlarmsAreSet
  <2>1. t # x /\ w[t]
    BY <1>5
  <2>2. PICK i \in DOMAIN q : q[i].toWake = t /\ q[i].uid = c[t].uid
    BY <2>1 DEF CallsInv, AlarmsAreSet
  <2>3. q[i].uid # id
    BY <1>3, <2>1, <2>2 DEF CallsInv, UidsAreUnique
  <2> QED BY <1>2, <2>2, <2>3 DEF IsWithout, SameEvent
<1>10. EventsAreOwned(w2, c, h, q2)
  <2> SUFFICES ASSUME NEW j \in DOMAIN q2
               PROVE  /\ q2[j].uid # 0
                      /\ c[q2[j].toWake].uid = q2[j].uid
                      /\ ~w2[q2[j].toWake] => /\ c[q2[j].toWake].kind = "irq"
                                              /\ h[q2[j].toWake] > 0
    BY DEF EventsAreOwned
  <2>1. PICK k \in DOMAIN q : SameEvent(q2[j], q[k]) /\ q2[j].uid # id
    BY <1>2 DEF IsWithout
  <2> DEFINE y == q[k].toWake
  <2>2. y \in Tasks /\ q2[j].toWake = y /\ q2[j].uid = q[k].uid /\ q[k].uid # id
    BY <1>3, <2>1 DEF SameEvent
  <2>3. /\ q[k].uid # 0 /\ c[y].uid = q[k].uid
        /\ ~w[y] => c[y].kind = "irq" /\ h[y] > 0
    BY DEF CallsInv, EventsAreOwned
  <2> HIDE DEF y
  <2>4. y # x
    BY <1>3, <2>2, <2>3
  <2> QED BY <1>5, <2>2, <2>3, <2>4
<1>11. UidsAreUnique(c, q2)
  BY <1>2 DEF CallsInv, UidsAreUnique, IsWithout
<1> QED BY <1>6, <1>7, <1>8, <1>9, <1>10, <1>11 DEF CallsInv

\* Counting the head down changes no event's task or uid.
LEMMA TickWaitsKeeps ==
  ASSUME NEW alive, NEW w, NEW c, NEW h, NEW q, NEW last,
         CallsAreTyped(w, c, h, q, last), CallsInv(alive, w, c, h, q, last),
         ~HeadIsDue(q), NEW q2, q2 = AfterTick(q)
  PROVE  CallsAreTyped(w, c, h, q2, last) /\ CallsInv(alive, w, c, h, q2, last)
<1>1. q \in Seq(EventsFor(Tasks))
  BY DEF CallsAreTyped
<1>2. /\ q2 \in Seq(EventsFor(Tasks)) /\ DOMAIN q2 = DOMAIN q
      /\ \A i \in DOMAIN q : q2[i].toWake = q[i].toWake /\ q2[i].uid = q[i].uid
  BY <1>1, TickKeepsOthers DEF SameEvent
<1>3. CallsAreTyped(w, c, h, q2, last)
  BY <1>2 DEF CallsAreTyped
<1>4. AlarmsAreSet(w, c, q2)
  BY <1>2 DEF CallsInv, AlarmsAreSet
<1>5. EventsAreOwned(w, c, h, q2)
  BY <1>2 DEF CallsInv, EventsAreOwned
<1>6. UidsAreUnique(c, q2)
  BY <1>2 DEF CallsInv, UidsAreUnique, UidsDiffer
<1> QED BY <1>3, <1>4, <1>5, <1>6 DEF CallsInv

\* A task list that is ready stays so when a task on it is woken.
LEMMA ReadyWhenWoken ==
  ASSUME NEW w, NEW w2 \in [Tasks -> BOOLEAN], ListsAreReady(w),
         \A t \in Tasks : w2[t] => w[t]
  PROVE  ListsAreReady(w2)
<1>1. /\ tasks \in Seq(Tasks) /\ IsInjective(tasks) /\ Idle \in Alive /\ current \in Alive
      /\ Switchable(prio, w) /\ current \notin ToSet(prio)
  BY DEF ListsAreReady
<1>2. Switchable(prio, w2)
  BY <1>1, ElementsAreTyped DEF Switchable
<1> QED BY <1>1, <1>2 DEF ListsAreReady

LEMMA TimerTickKeepsInv ==
  ASSUME SchedulerInv, TimerTick
  PROVE  SchedulerInv'
<1>1. PICK w, q :
        /\ w = IF HeadIsDue(wakeevents)
               THEN [waiting EXCEPT ![Head(wakeevents).toWake] = FALSE] ELSE waiting
        /\ q = AfterTick(wakeevents)
  OBVIOUS
<1>2. /\ panic = "no" /\ UNCHANGED <<tasks, listen, spawned>>
      /\ Cycle(w, call, hits, q, lastWakeId)
  BY <1>1 DEF TimerTick
<1>3. /\ ListsAreReady(waiting)
      /\ CallsAreTyped(waiting, call, hits, wakeevents, lastWakeId)
      /\ CallsInv(Alive, waiting, call, hits, wakeevents, lastWakeId)
      /\ ~waiting[Idle] /\ call[Idle].kind = "none"
  BY <1>2, InvGives
<1>4. CallsAreTyped(w, call, hits, q, lastWakeId) /\ CallsInv(Alive, w, call, hits, q, lastWakeId)
  <2>1. CASE HeadIsDue(wakeevents)
    BY <1>1, <1>3, <2>1, TickDueKeeps
  <2>2. CASE ~HeadIsDue(wakeevents)
    <3>1. w = waiting
      BY <1>1, <2>2
    <3> QED BY <1>1, <1>3, <2>2, <3>1, TickWaitsKeeps
  <2> QED BY <2>1, <2>2
<1>5. /\ w \in [Tasks -> BOOLEAN] /\ waiting \in [Tasks -> BOOLEAN]
      /\ call \in [Tasks -> Calls]
  BY <1>3, <1>4 DEF CallsAreTyped
<1>6. ~w[Idle] /\ \A t \in Tasks : w[t] => waiting[t]
  BY <1>1, <1>3, <1>5, TasksAssumption
<1>7. ListsAreReady(w)
  BY <1>3, <1>5, <1>6, ReadyWhenWoken
<1>8. Switched(w, call)
  BY <1>2, <1>4, <1>6, <1>7, CycleSwitches
<1> QED BY <1>2, <1>3, <1>5, <1>8, SwitchedKeepsInv

-----------------------------------------------------------------------------
(* An interrupt.                                                           *)

\* w2 and h2 are w and h after the listeners L are credited.
Credited(L, w, c, h, w2, h2) ==
  \A t \in Tasks :
    /\ w2[t] => w[t]
    /\ w2[t] /\ c[t].kind = "irq" => t \notin L
    /\ ~w2[t] /\ w[t] => t \in L /\ c[t].kind = "irq"
    /\ t \in L => h2[t] = h[t] + 1
    /\ t \notin L => h2[t] = h[t]

\* Crediting the listeners L and releasing those of them that wait for the
\* interrupt keeps everybody's calls.
LEMMA CreditKeeps ==
  ASSUME NEW alive, NEW w, NEW c, NEW h, NEW q, NEW last, NEW L,
         CallsAreTyped(w, c, h, q, last), CallsInv(alive, w, c, h, q, last),
         NEW w2 \in [Tasks -> BOOLEAN], NEW h2 \in [Tasks -> Nat],
         Credited(L, w, c, h, w2, h2)
  PROVE  CallsAreTyped(w2, c, h2, q, last) /\ CallsInv(alive, w2, c, h2, q, last)
<1>1. /\ w \in [Tasks -> BOOLEAN] /\ c \in [Tasks -> Calls] /\ h \in [Tasks -> Nat]
      /\ q \in Seq(EventsFor(Tasks)) /\ last \in Nat
  BY DEF CallsAreTyped
<1>2. \A t \in Tasks : h[t] \in Nat /\ h2[t] \in Nat
  BY <1>1
<1>3. \A t \in Tasks :
        /\ w2[t] => w[t]
        /\ w2[t] /\ c[t].kind = "irq" => t \notin L
        /\ ~w2[t] /\ w[t] => t \in L /\ c[t].kind = "irq"
        /\ t \in L => h2[t] = h[t] + 1
        /\ t \notin L => h2[t] = h[t]
  BY DEF Credited
<1>4. CallsAreTyped(w2, c, h2, q, last)
  BY <1>1, <1>2 DEF CallsAreTyped
<1>5. CallsAreFormed(alive, w2, c, last)
  BY <1>3 DEF CallsInv, CallsAreFormed
<1>6. InterruptsAreKept(w2, c, h2)
  <2> SUFFICES ASSUME NEW t \in Tasks, c[t].kind = "irq"
               PROVE  (w2[t] => h2[t] = 0) /\ (~w2[t] /\ h2[t] = 0 => c[t].us # 0)
    BY DEF InterruptsAreKept
  <2>1. (w[t] => h[t] = 0) /\ (~w[t] /\ h[t] = 0 => c[t].us # 0)
    BY DEF CallsInv, InterruptsAreKept
  <2> QED BY <1>2, <1>3, <2>1
<1>7. AlarmsAreSet(w2, c, q)
  BY <1>3 DEF CallsInv, AlarmsAreSet
<1>8. EventsAreOwned(w2, c, h2, q)
  <2> SUFFICES ASSUME NEW i \in DOMAIN q
               PROVE  /\ q[i].uid # 0
                      /\ c[q[i].toWake].uid = q[i].uid
                      /\ ~w2[q[i].toWake] => /\ c[q[i].toWake].kind = "irq"
                                             /\ h2[q[i].toWake] > 0
    BY DEF EventsAreOwned
  <2> DEFINE y == q[i].toWake
  <2>1. y \in Tasks
    BY <1>1, EventTasks
  <2>2. /\ q[i].uid # 0 /\ c[y].uid = q[i].uid
        /\ ~w[y] => c[y].kind = "irq" /\ h[y] > 0
    BY DEF CallsInv, EventsAreOwned
  <2> HIDE DEF y
  <2>3. ~w2[y] => c[y].kind = "irq" /\ h2[y] > 0
    BY <1>2, <1>3, <2>1, <2>2
  <2> QED BY <2>2, <2>3 DEF y
<1> QED BY <1>4, <1>5, <1>6, <1>7, <1>8 DEF CallsInv

LEMMA IrqKeepsInv ==
  ASSUME SchedulerInv, NEW irq, Irq(irq)
  PROVE  SchedulerInv'
<1> DEFINE L == {t \in ToSet(tasks) : listen[t] = irq}
<1>1. PICK w, h, queue :
        /\ w = [t \in Tasks |-> waiting[t] /\ ~(t \in L /\ Released(t, irq))]
        /\ h = [t \in Tasks |-> IF t \in L THEN hits[t] + 1 ELSE hits[t]]
        /\ queue = PriorityAfterWalk(tasks, prio, {t \in L : ~w[t]})
  OBVIOUS
<1>2. /\ panic = "no"
      /\ UNCHANGED <<tasks, listen, spawned>>
      /\ queue # <<>> =>
           prio' = Tail(queue) /\ Assign(Head(queue), w, call, h, wakeevents, lastWakeId)
      /\ queue = <<>> =>
           /\ waiting' = w
           /\ hits' = h
           /\ UNCHANGED <<current, prio, call, wakeevents, lastWakeId, panic>>
  BY <1>1 DEF Irq
<1>3. /\ ListsAreReady(waiting)
      /\ CallsAreTyped(waiting, call, hits, wakeevents, lastWakeId)
      /\ CallsInv(Alive, waiting, call, hits, wakeevents, lastWakeId)
      /\ ~waiting[Idle] /\ call[Idle].kind = "none" /\ call[current].kind = "none"
      /\ current \in Tasks
      /\ listen \in [Tasks -> Irqs \cup {NoIrq}] /\ listen[Idle] = NoIrq
      /\ spawned \subseteq Tasks /\ spawned \cap Alive = {}
  BY <1>2, InvGives
<1>4. /\ w \in [Tasks -> BOOLEAN] /\ h \in [Tasks -> Nat]
      /\ Credited(L, waiting, call, hits, w, h)
  <2>1. waiting \in [Tasks -> BOOLEAN] /\ hits \in [Tasks -> Nat]
    BY <1>3 DEF CallsAreTyped
  <2>2. \A t \in L : listen[t] = irq
    OBVIOUS
  <2> HIDE DEF L
  <2>3. h \in [Tasks -> Nat]
    BY <1>1, <2>1
  <2>4. w \in [Tasks -> BOOLEAN]
    BY <1>1, Zenon
  <2>5. ASSUME NEW t \in Tasks
        PROVE  /\ w[t] => waiting[t]
               /\ w[t] /\ call[t].kind = "irq" => t \notin L
               /\ ~w[t] /\ waiting[t] => t \in L /\ call[t].kind = "irq"
    BY <1>1, <2>2 DEF Released
  <2>6. ASSUME NEW t \in Tasks
        PROVE  /\ t \in L => h[t] = hits[t] + 1
               /\ t \notin L => h[t] = hits[t]
    BY <1>1
  <2> QED BY <2>3, <2>4, <2>5, <2>6 DEF Credited
<1> HIDE DEF L
<1>5. /\ CallsAreTyped(w, call, h, wakeevents, lastWakeId)
      /\ CallsInv(Alive, w, call, h, wakeevents, lastWakeId)
  BY <1>3, <1>4, CreditKeeps
<1>6. /\ w \in [Tasks -> BOOLEAN] /\ call \in [Tasks -> Calls]
      /\ \A t \in Tasks : w[t] => waiting[t]
  BY <1>4, <1>5 DEF CallsAreTyped, Credited
<1>7. ListsAreReady(w)
  BY <1>3, <1>6, ReadyWhenWoken
<1>8. Switchable(queue, w)
  <2>1. /\ tasks \in Seq(Tasks) /\ prio \in Seq(Tasks) /\ IsInjective(prio)
        /\ \A t \in ToSet(prio) : t \in Alive /\ ~w[t]
    BY <1>7 DEF ListsAreReady, Switchable
  <2> DEFINE ready == {t \in L : ~w[t]}
  <2>2. ready \cap ToSet(tasks) \subseteq {t \in Alive : ~w[t]}
    BY DEF Alive
  <2>3. queue = PriorityAfterWalk(tasks, prio, ready)
    BY <1>1
  <2> HIDE DEF ready
  <2>4. /\ queue \in Seq(Tasks) /\ IsInjective(queue)
        /\ ToSet(queue) \subseteq ToSet(prio) \cup (ready \cap ToSet(tasks))
    BY <2>1, <2>3, PriorityAfterWalkAdds
  <2> QED BY <2>1, <2>2, <2>4 DEF Switchable
<1>9. CASE queue # <<>>
  <2>1. PICK t : t = Head(queue)
    OBVIOUS
  <2>2. /\ t \in Alive /\ t \in Tasks /\ ~w[t]
        /\ Switchable(prio', w) /\ t \notin ToSet(prio')
    BY <1>2, <1>8, <1>9, <2>1, TailIsSwitchable, ZenonT(40)
  <2>3. Assign(t, w, call, h, wakeevents, lastWakeId)
    BY <1>2, <1>9, <2>1
  <2>4. /\ current' = t
        /\ waiting' = w
        /\ call' = [call EXCEPT ![t] = NoCall]
        /\ panic' \in {"no", "wake event to deschedule is gone"}
        /\ CallsAreTyped(waiting', call', hits', wakeevents', lastWakeId')
        /\ CallsInv(Alive, waiting', call', hits', wakeevents', lastWakeId')
    BY <1>5, <2>2, <2>3, AssignKeepsCalls
  <2>5. Switched(w, call)
    BY <2>2, <2>4 DEF Switched
  <2> QED BY <1>2, <1>3, <1>6, <2>5, SwitchedKeepsInv
<1>10. CASE queue = <<>>
  <2>1. /\ waiting' = w /\ hits' = h /\ Alive' = Alive
        /\ UNCHANGED <<tasks, current, prio, call, listen, wakeevents, lastWakeId,
                       spawned, panic>>
    BY <1>2, <1>10 DEF Alive
  <2>2. /\ tasks \in Seq(Tasks) /\ IsInjective(tasks) /\ Idle \in Alive /\ current \in Alive
        /\ prio \in Seq(Tasks) /\ IsInjective(prio)
        /\ \A t \in ToSet(prio) : t \in Alive /\ ~w[t]
        /\ current \notin ToSet(prio)
    BY <1>7 DEF ListsAreReady, Switchable
  <2>3. ~w[current]
    BY <1>3, <1>5 DEF CallsInv, CallsAreFormed
  <2> QED BY <1>2, <1>3, <1>5, <2>1, <2>2, <2>3, InvHolds
<1> QED BY <1>9, <1>10

-----------------------------------------------------------------------------
(* System calls.                                                           *)

\* The hits of a task in no call may change.
LEMMA HitsAreFree ==
  ASSUME NEW alive, NEW w, NEW c, NEW h, NEW q, NEW last,
         CallsAreTyped(w, c, h, q, last), CallsInv(alive, w, c, h, q, last),
         NEW t \in Tasks, c[t].kind = "none", NEW n \in Nat,
         NEW h2, h2 = [h EXCEPT ![t] = n]
  PROVE  CallsAreTyped(w, c, h2, q, last) /\ CallsInv(alive, w, c, h2, q, last)
<1>1. /\ h \in [Tasks -> Nat] /\ q \in Seq(EventsFor(Tasks))
      /\ h2 \in [Tasks -> Nat] /\ \A x \in Tasks : x # t => h2[x] = h[x]
  BY DEF CallsAreTyped
<1>2. CallsAreTyped(w, c, h2, q, last)
  BY <1>1 DEF CallsAreTyped
<1>3. InterruptsAreKept(w, c, h2)
  BY <1>1 DEF CallsInv, InterruptsAreKept
<1>4. EventsAreOwned(w, c, h2, q)
  <2> SUFFICES ASSUME NEW i \in DOMAIN q
               PROVE  /\ q[i].uid # 0
                      /\ c[q[i].toWake].uid = q[i].uid
                      /\ ~w[q[i].toWake] => /\ c[q[i].toWake].kind = "irq"
                                            /\ h2[q[i].toWake] > 0
    BY DEF EventsAreOwned
  <2> DEFINE y == q[i].toWake
  <2>1. y \in Tasks
    BY <1>1, EventTasks
  <2>2. /\ q[i].uid # 0 /\ c[y].uid = q[i].uid
        /\ ~w[y] => c[y].kind = "irq" /\ h[y] > 0
    BY DEF CallsInv, EventsAreOwned
  <2> HIDE DEF y
  <2>3. ~w[y] => c[y].kind = "irq" /\ h2[y] > 0
    BY <1>1, <2>1, <2>2
  <2> QED BY <2>2, <2>3 DEF y
<1> QED BY <1>2, <1>3, <1>4 DEF CallsInv

\* A task in no call that enters one which blocks for time: its wake event is
\* new, so no other task and no other event has its uid.
LEMMA TimedCallKeeps ==
  ASSUME NEW alive, NEW w, NEW c, NEW h, NEW q, NEW last,
         CallsAreTyped(w, c, h, q, last), CallsInv(alive, w, c, h, q, last),
         NEW t \in Tasks, t \in alive, c[t].kind = "none",
         NEW uid, uid = last + 1, NEW d \in Calls, d.uid = uid,
         d.kind = "sleep" \/ (d.kind = "irq" /\ h[t] = 0 /\ d.us # 0),
         NEW w2, w2 = [w EXCEPT ![t] = TRUE],
         NEW c2, c2 = [c EXCEPT ![t] = d],
         NEW q2, IsWithEvent(q2, q, Tasks, t, uid)
  PROVE  CallsAreTyped(w2, c2, h, q2, uid) /\ CallsInv(alive, w2, c2, h, q2, uid)
<1>1. /\ w \in [Tasks -> BOOLEAN] /\ c \in [Tasks -> Calls] /\ h \in [Tasks -> Nat]
      /\ q \in Seq(EventsFor(Tasks)) /\ last \in Nat /\ UidsDiffer(q)
  BY DEF CallsAreTyped, CallsInv, UidsAreUnique
<1>2. \A x \in Tasks : c[x].uid \in Nat /\ c[x].uid <= last
  BY <1>1 DEF CallsInv, CallsAreFormed, Calls
<1>3. /\ \A i \in DOMAIN q : q[i].toWake \in Tasks
      /\ \A i \in DOMAIN q : q[i].uid # 0 /\ c[q[i].toWake].uid = q[i].uid
      /\ \A i \in DOMAIN q : ~w[q[i].toWake] => /\ c[q[i].toWake].kind = "irq"
                                                /\ h[q[i].toWake] > 0
  <2>1. \A i \in DOMAIN q : q[i].toWake \in Tasks
    BY <1>1, EventTasks
  <2> QED BY <2>1 DEF CallsInv, EventsAreOwned
<1>4. c[t].uid = 0
  BY DEF CallsInv, CallsAreFormed, NoCall
<1>5. \A i \in DOMAIN q : q[i].toWake # t
  BY <1>3, <1>4
<1>6. /\ d.us \in Nat /\ d.uid = uid /\ uid \in Nat /\ uid # 0 /\ last <= uid /\ ~(uid <= last)
      /\ d.uid # 0 /\ d.kind # "none"
  BY <1>1 DEF Calls
<1> DEFINE n == Len(q) + 1
<1>7. /\ q2 \in Seq(EventsFor(Tasks)) /\ DOMAIN q2 = 1 .. n /\ n \in Nat /\ n >= 1
      /\ \A i \in 1 .. n : i = n \/ i \in DOMAIN q
      /\ \A i \in DOMAIN q : i \in 1 .. n /\ i # n /\ q2[i] = q[i]
      /\ q2[n].toWake = t /\ q2[n].uid = uid
  <2>0. PICK e \in EventsFor(Tasks) :
          e.toWake = t /\ e.uid = uid /\ q2 = Append(q, e)
    BY DEF IsWithEvent
  <2>1. /\ q2 \in Seq(EventsFor(Tasks)) /\ Len(q2) = Len(q) + 1
        /\ \A i \in 1 .. Len(q) : q2[i] = q[i]
        /\ q2[Len(q) + 1] = e
    BY <1>1, <2>0, AppendProperties
  <2>2. Len(q) \in Nat /\ DOMAIN q = 1 .. Len(q) /\ DOMAIN q2 = 1 .. Len(q2)
    BY <1>1, <2>1, LenProperties
  <2> QED BY <2>0, <2>1, <2>2
<1> HIDE DEF n
<1>8. /\ w2 \in [Tasks -> BOOLEAN] /\ w2[t]
      /\ \A x \in Tasks : x # t => w2[x] = w[x]
  BY <1>1
<1>9. /\ c2 \in [Tasks -> Calls] /\ c2[t] = d
      /\ \A x \in Tasks : x # t => c2[x] = c[x]
  BY <1>1
<1>10. CallsAreTyped(w2, c2, h, q2, uid)
  BY <1>1, <1>6, <1>7, <1>8, <1>9 DEF CallsAreTyped
<1>11. CallsAreFormed(alive, w2, c2, uid)
  <2> SUFFICES ASSUME NEW x \in Tasks
               PROVE  /\ x \notin alive => c2[x].kind = "none"
                      /\ c2[x].kind = "none" => ~w2[x] /\ c2[x] = NoCall
                      /\ c2[x].kind = "sleep" => c2[x].uid # 0
                      /\ c2[x].kind = "irq" => (c2[x].uid # 0 <=> c2[x].us # 0)
                      /\ c2[x].uid <= uid
    BY DEF CallsAreFormed
  <2>1. CASE x = t
    BY <1>6, <1>8, <1>9, <2>1
  <2>2. CASE x # t
    <3>1. c2[x] = c[x] /\ w2[x] = w[x]
      BY <1>8, <1>9, <2>2
    <3>2. c2[x].uid <= uid
      BY <1>1, <1>2, <1>6, <3>1
    <3> QED BY <3>1, <3>2 DEF CallsInv, CallsAreFormed
  <2> QED BY <2>1, <2>2
<1>12. InterruptsAreKept(w2, c2, h)
  BY <1>8, <1>9 DEF CallsInv, InterruptsAreKept
<1>13. AlarmsAreSet(w2, c2, q2)
  <2> SUFFICES ASSUME NEW x \in Tasks, w2[x], c2[x].uid # 0
               PROVE  \E j \in DOMAIN q2 : q2[j].toWake = x /\ q2[j].uid = c2[x].uid
    BY DEF AlarmsAreSet
  <2>1. CASE x = t
    <3>1. n \in DOMAIN q2
      BY <1>7
    <3> QED BY <1>6, <1>7, <1>9, <2>1, <3>1
  <2>2. CASE x # t
    <3>1. PICK i \in DOMAIN q : q[i].toWake = x /\ q[i].uid = c[x].uid
      BY <1>8, <1>9, <2>2 DEF CallsInv, AlarmsAreSet
    <3>2. i \in DOMAIN q2 /\ q2[i] = q[i]
      BY <1>7
    <3> QED BY <1>9, <2>2, <3>1, <3>2
  <2> QED BY <2>1, <2>2
<1>14. EventsAreOwned(w2, c2, h, q2)
  <2> SUFFICES ASSUME NEW i \in DOMAIN q2
               PROVE  /\ q2[i].uid # 0
                      /\ c2[q2[i].toWake].uid = q2[i].uid
                      /\ ~w2[q2[i].toWake] => /\ c2[q2[i].toWake].kind = "irq"
                                              /\ h[q2[i].toWake] > 0
    BY DEF EventsAreOwned
  <2>1. CASE i = n
    BY <1>6, <1>7, <1>8, <1>9, <2>1
  <2>2. CASE i # n
    <3>1. i \in DOMAIN q /\ q2[i] = q[i]
      BY <1>7, <2>2
    <3> QED BY <1>3, <1>5, <1>8, <1>9, <3>1
  <2> QED BY <2>1, <2>2
<1>15. UidsAreUnique(c2, q2)
  <2>1. \A i \in DOMAIN q : q[i].uid # uid
    <3> SUFFICES ASSUME NEW i \in DOMAIN q, q[i].uid = uid PROVE FALSE
      OBVIOUS
    <3>1. c[q[i].toWake].uid = uid /\ c[q[i].toWake].uid <= last
      BY <1>2, <1>3
    <3> QED BY <1>6, <3>1
  <2>2. UidsDiffer(q2)
    <3> SUFFICES ASSUME NEW i \in DOMAIN q2, NEW j \in DOMAIN q2, q2[i].uid = q2[j].uid
                 PROVE  i = j
      BY DEF UidsDiffer
    <3>1. CASE i = n \/ j = n
      BY <1>7, <2>1, <3>1
    <3>2. CASE i # n /\ j # n
      BY <1>1, <1>7, <3>2 DEF UidsDiffer
    <3> QED BY <3>1, <3>2
  <2>3. ASSUME NEW t1 \in Tasks, NEW t2 \in Tasks, c2[t1].uid = c2[t2].uid, c2[t1].uid # 0
        PROVE  t1 = t2
    <3>1. CASE t1 = t \/ t2 = t
      <4>1. \A x \in Tasks : c[x].uid # uid
        BY <1>2, <1>6
      <4> QED BY <1>6, <1>9, <2>3, <3>1, <4>1
    <3>2. CASE t1 # t /\ t2 # t
      BY <1>9, <2>3, <3>2 DEF CallsInv, UidsAreUnique
    <3> QED BY <3>1, <3>2
  <2> QED BY <2>2, <2>3 DEF UidsAreUnique
<1> QED BY <1>10, <1>11, <1>12, <1>13, <1>14, <1>15 DEF CallsInv

\* A task in no call that enters one which blocks until an interrupt.
LEMMA UntimedCallKeeps ==
  ASSUME NEW alive, NEW w, NEW c, NEW h, NEW q, NEW last,
         CallsAreTyped(w, c, h, q, last), CallsInv(alive, w, c, h, q, last),
         NEW t \in Tasks, t \in alive, c[t].kind = "none",
         NEW d \in Calls, d.uid = 0, d.kind = "irq", d.us = 0, h[t] = 0,
         NEW w2, w2 = [w EXCEPT ![t] = TRUE],
         NEW c2, c2 = [c EXCEPT ![t] = d]
  PROVE  CallsAreTyped(w2, c2, h, q, last) /\ CallsInv(alive, w2, c2, h, q, last)
<1>1. /\ w \in [Tasks -> BOOLEAN] /\ c \in [Tasks -> Calls] /\ h \in [Tasks -> Nat]
      /\ q \in Seq(EventsFor(Tasks)) /\ last \in Nat
  BY DEF CallsAreTyped
<1>2. /\ \A i \in DOMAIN q : q[i].toWake \in Tasks
      /\ \A i \in DOMAIN q : q[i].uid # 0 /\ c[q[i].toWake].uid = q[i].uid
      /\ \A i \in DOMAIN q : ~w[q[i].toWake] => /\ c[q[i].toWake].kind = "irq"
                                                /\ h[q[i].toWake] > 0
  <2>1. \A i \in DOMAIN q : q[i].toWake \in Tasks
    BY <1>1, EventTasks
  <2> QED BY <2>1 DEF CallsInv, EventsAreOwned
<1>3. c[t].uid = 0
  BY DEF CallsInv, CallsAreFormed, NoCall
<1>4. \A i \in DOMAIN q : q[i].toWake # t
  BY <1>2, <1>3
<1>5. /\ w2 \in [Tasks -> BOOLEAN] /\ w2[t]
      /\ \A x \in Tasks : x # t => w2[x] = w[x]
  BY <1>1
<1>6. /\ c2 \in [Tasks -> Calls] /\ c2[t] = d
      /\ \A x \in Tasks : x # t => c2[x] = c[x]
  BY <1>1
<1>7. CallsAreTyped(w2, c2, h, q, last)
  BY <1>1, <1>5, <1>6 DEF CallsAreTyped
<1>8. CallsAreFormed(alive, w2, c2, last)
  <2> SUFFICES ASSUME NEW x \in Tasks
               PROVE  /\ x \notin alive => c2[x].kind = "none"
                      /\ c2[x].kind = "none" => ~w2[x] /\ c2[x] = NoCall
                      /\ c2[x].kind = "sleep" => c2[x].uid # 0
                      /\ c2[x].kind = "irq" => (c2[x].uid # 0 <=> c2[x].us # 0)
                      /\ c2[x].uid <= last
    BY DEF CallsAreFormed
  <2>1. CASE x = t
    BY <1>1, <1>6, <2>1
  <2>2. CASE x # t
    BY <1>5, <1>6, <2>2 DEF CallsInv, CallsAreFormed
  <2> QED BY <2>1, <2>2
<1>9. InterruptsAreKept(w2, c2, h)
  BY <1>5, <1>6 DEF CallsInv, InterruptsAreKept
<1>10. AlarmsAreSet(w2, c2, q)
  BY <1>5, <1>6 DEF CallsInv, AlarmsAreSet
<1>11. EventsAreOwned(w2, c2, h, q)
  BY <1>2, <1>4, <1>5, <1>6 DEF EventsAreOwned
<1>12. UidsAreUnique(c2, q)
  BY <1>6 DEF CallsInv, UidsAreUnique
<1> QED BY <1>7, <1>8, <1>9, <1>10, <1>11, <1>12 DEF CallsInv

\* irqWait, irqWaitTimeout and nanosleep, each with its call c.
LEMMA BlockingCallKeepsInv ==
  ASSUME SchedulerInv, InUserMode, NEW c \in Calls, c.uid = 0,
         c.kind \in {"irq", "sleep"}, BlockingCall(c)
  PROVE  SchedulerInv'
<1>1. PICK r, h, w2, c2 :
        /\ r = Evaluate(current, c, hits[current], wakeevents, lastWakeId)
        /\ h = [hits EXCEPT ![current] = r.hits]
        /\ w2 = [waiting EXCEPT ![current] = TRUE]
        /\ c2 = [call EXCEPT ![current] = r.call]
  OBVIOUS
<1>2. /\ panic = "no" /\ current # Idle
      /\ UNCHANGED <<tasks, listen, spawned>>
      /\ r.block => ReturnToNextTask(w2, c2, h, r.wake, r.last)
      /\ ~r.block => /\ hits' = h
                     /\ wakeevents' = r.wake
                     /\ UNCHANGED <<current, prio, waiting, call, lastWakeId, panic>>
  BY <1>1 DEF InUserMode, BlockingCall
<1>3. /\ ListsAreReady(waiting)
      /\ CallsAreTyped(waiting, call, hits, wakeevents, lastWakeId)
      /\ CallsInv(Alive, waiting, call, hits, wakeevents, lastWakeId)
      /\ ~waiting[Idle] /\ call[Idle].kind = "none" /\ call[current].kind = "none"
      /\ current \in Tasks
      /\ listen \in [Tasks -> Irqs \cup {NoIrq}] /\ listen[Idle] = NoIrq
      /\ spawned \subseteq Tasks /\ spawned \cap Alive = {}
  BY <1>2, InvGives
<1>4. /\ tasks \in Seq(Tasks) /\ IsInjective(tasks) /\ Idle \in Alive /\ current \in Alive
      /\ prio \in Seq(Tasks) /\ IsInjective(prio)
      /\ \A t \in ToSet(prio) : t \in Alive /\ ~waiting[t]
      /\ current \notin ToSet(prio)
  BY <1>3 DEF ListsAreReady, Switchable
<1>5. /\ waiting \in [Tasks -> BOOLEAN] /\ call \in [Tasks -> Calls]
      /\ hits \in [Tasks -> Nat] /\ hits[current] \in Nat /\ lastWakeId \in Nat
  BY <1>3 DEF CallsAreTyped
<1>6. Idle \in Tasks
  BY TasksAssumption
<1>7. CASE r.block /\ r.hits = hits[current] /\ r.call \in Calls
           /\ CallsAreTyped(w2, c2, hits, r.wake, r.last)
           /\ CallsInv(Alive, w2, c2, hits, r.wake, r.last)
  <2>1. h = hits
    BY <1>1, <1>5, <1>7
  <2>2. ReturnToNextTask(w2, c2, hits, r.wake, r.last)
    BY <1>2, <1>7, <2>1
  <2>3. /\ w2 \in [Tasks -> BOOLEAN] /\ ~w2[Idle]
        /\ \A t \in Tasks : t # current => w2[t] = waiting[t]
    BY <1>1, <1>2, <1>3, <1>5, <1>6
  <2>4. c2 \in [Tasks -> Calls] /\ c2[Idle].kind = "none"
    BY <1>1, <1>2, <1>3, <1>5, <1>6, <1>7
  <2>5. ListsAreReady(w2)
    <3>1. \A t \in ToSet(prio) : t \in Tasks /\ t # current
      BY <1>4, ElementsAreTyped
    <3> QED BY <1>4, <2>3, <3>1 DEF ListsAreReady, Switchable
  <2>6. Switched(w2, c2)
    BY <1>2, <1>7, <2>2, <2>3, <2>5, ReturnSwitches
  <2> QED BY <1>2, <2>4, <2>6, SwitchedKeepsInv
<1>8. CASE c.kind = "irq" /\ hits[current] # 0
  <2>1. ~r.block /\ r.hits = hits[current] - 1 /\ r.wake = wakeevents
    BY <1>1, <1>8, EvaluateInterrupted
  <2>2. PICK n : n = hits[current] - 1 /\ n \in Nat
    BY <1>5, <1>8
  <2>3. h = [hits EXCEPT ![current] = n]
    BY <1>1, <2>1, <2>2
  <2>4. /\ CallsAreTyped(waiting, call, h, wakeevents, lastWakeId)
        /\ CallsInv(Alive, waiting, call, h, wakeevents, lastWakeId)
    BY <1>3, <2>2, <2>3, HitsAreFree
  <2>5. ~waiting[current]
    BY <1>3 DEF CallsInv, CallsAreFormed
  <2>6. /\ hits' = h /\ wakeevents' = wakeevents /\ Alive' = Alive
        /\ UNCHANGED <<tasks, current, prio, waiting, call, listen, lastWakeId,
                       spawned, panic>>
    BY <1>2, <2>1 DEF Alive
  <2> QED BY <1>2, <1>3, <1>4, <2>4, <2>5, <2>6, InvHolds
<1>9. CASE c.kind = "irq" /\ hits[current] = 0 /\ c.us = 0
  <2>1. /\ r.block /\ r.call = [c EXCEPT !.uid = 0] /\ r.hits = hits[current]
        /\ r.wake = wakeevents /\ r.last = lastWakeId
    BY <1>1, <1>9, EvaluateUntimed
  <2>2. /\ r.call \in Calls /\ r.call.uid = 0 /\ r.call.kind = "irq" /\ r.call.us = 0
    BY <1>9, <2>1 DEF Calls
  <2>3. /\ CallsAreTyped(w2, c2, hits, wakeevents, lastWakeId)
        /\ CallsInv(Alive, w2, c2, hits, wakeevents, lastWakeId)
    BY <1>1, <1>3, <1>4, <1>9, <2>2, UntimedCallKeeps
  <2> QED BY <1>7, <2>1, <2>2, <2>3
<1>10. CASE c.kind = "sleep" \/ (c.kind = "irq" /\ hits[current] = 0 /\ c.us # 0)
  <2>1. /\ r.block /\ r.call = [c EXCEPT !.uid = lastWakeId + 1] /\ r.hits = hits[current]
        /\ r.wake = WithWakeEvent(wakeevents, c.us, current, lastWakeId + 1)
        /\ r.last = lastWakeId + 1
    BY <1>1, <1>10, EvaluateTimed
  <2>2. PICK uid, d, q :
          uid = lastWakeId + 1 /\ d = r.call /\ q = r.wake
    OBVIOUS
  <2>3. /\ d \in Calls /\ d.uid = uid /\ d.kind = c.kind /\ d.us = c.us
        /\ c2 = [call EXCEPT ![current] = d] /\ r.last = uid
        /\ q = WithWakeEvent(wakeevents, d.us, current, uid)
    BY <1>1, <1>5, <2>1, <2>2 DEF Calls
  <2>4. IsWithEvent(q, wakeevents, Tasks, current, uid)
    <3>1. /\ wakeevents \in Seq(EventsFor(Tasks)) /\ d.us \in Nat /\ uid \in Nat
          /\ current \in Tasks
      BY <1>3, <1>5, <2>2, <2>3 DEF CallsAreTyped, Calls
    <3> QED BY <2>3, <3>1, WakeInAppends
  <2>5. d.kind = "sleep" \/ (d.kind = "irq" /\ hits[current] = 0 /\ d.us # 0)
    BY <1>10, <2>3
  <2>6. /\ CallsAreTyped(w2, c2, hits, q, uid)
        /\ CallsInv(Alive, w2, c2, hits, q, uid)
    <3>1. w2 = [waiting EXCEPT ![current] = TRUE] /\ uid = lastWakeId + 1
      BY <1>1, <2>2
    <3>2. /\ CallsAreTyped(waiting, call, hits, wakeevents, lastWakeId)
          /\ CallsInv(Alive, waiting, call, hits, wakeevents, lastWakeId)
          /\ current \in Tasks /\ current \in Alive /\ call[current].kind = "none"
      BY <1>3, <1>4
    <3>3. /\ d \in Calls /\ d.uid = uid /\ c2 = [call EXCEPT ![current] = d]
      BY <2>3
    <3> QED BY <2>5, <2>4, <3>1, <3>2, <3>3, TimedCallKeeps
  <2>7. /\ CallsAreTyped(w2, c2, hits, r.wake, r.last)
        /\ CallsInv(Alive, w2, c2, hits, r.wake, r.last)
    BY <2>2, <2>3, <2>6
  <2>8. r.block /\ r.hits = hits[current] /\ r.call \in Calls
    BY <2>1, <2>2, <2>3
  <2> QED BY <1>7, <2>7, <2>8
<1> QED BY <1>8, <1>9, <1>10

LEMMA IrqListenKeepsInv ==
  ASSUME SchedulerInv, NEW irq \in Irqs, IrqListen(irq)
  PROVE  SchedulerInv'
<1>1. /\ panic = "no" /\ current # Idle
      /\ listen' = [listen EXCEPT ![current] = irq]
      /\ hits' = [hits EXCEPT ![current] = 0]
      /\ UNCHANGED <<tasks, current, prio, waiting, call, wakeevents, lastWakeId,
                     spawned, panic>>
      /\ Alive' = Alive
  BY DEF IrqListen, InUserMode, Alive
<1>2. /\ ListsAreReady(waiting)
      /\ CallsAreTyped(waiting, call, hits, wakeevents, lastWakeId)
      /\ CallsInv(Alive, waiting, call, hits, wakeevents, lastWakeId)
      /\ ~waiting[Idle] /\ call[Idle].kind = "none" /\ call[current].kind = "none"
      /\ current \in Tasks
      /\ listen \in [Tasks -> Irqs \cup {NoIrq}] /\ listen[Idle] = NoIrq
      /\ spawned \subseteq Tasks /\ spawned \cap Alive = {}
  BY <1>1, InvGives
<1>3. /\ tasks \in Seq(Tasks) /\ IsInjective(tasks) /\ Idle \in Alive /\ current \in Alive
      /\ prio \in Seq(Tasks) /\ IsInjective(prio)
      /\ \A t \in ToSet(prio) : t \in Alive /\ ~waiting[t]
      /\ current \notin ToSet(prio)
  BY <1>2 DEF ListsAreReady, Switchable
<1>4. ~waiting[current]
  BY <1>2 DEF CallsInv, CallsAreFormed
<1>5. /\ CallsAreTyped(waiting, call, hits', wakeevents, lastWakeId)
      /\ CallsInv(Alive, waiting, call, hits', wakeevents, lastWakeId)
  BY <1>1, <1>2, HitsAreFree
<1>6. listen' \in [Tasks -> Irqs \cup {NoIrq}] /\ listen'[Idle] = NoIrq
  BY <1>1, <1>2, TasksAssumption
<1> QED BY <1>1, <1>2, <1>3, <1>4, <1>5, <1>6, InvHolds

LEMMA IrqCheckKeepsInv ==
  ASSUME SchedulerInv, IrqCheck
  PROVE  SchedulerInv'
<1>1. /\ panic = "no" /\ hits[current] > 0
      /\ hits' = [hits EXCEPT ![current] = hits[current] - 1]
      /\ UNCHANGED <<tasks, current, prio, waiting, call, listen, wakeevents,
                     lastWakeId, spawned, panic>>
      /\ Alive' = Alive
  BY DEF IrqCheck, InUserMode, Alive
<1>2. /\ ListsAreReady(waiting)
      /\ CallsAreTyped(waiting, call, hits, wakeevents, lastWakeId)
      /\ CallsInv(Alive, waiting, call, hits, wakeevents, lastWakeId)
      /\ ~waiting[Idle] /\ call[Idle].kind = "none" /\ call[current].kind = "none"
      /\ current \in Tasks
      /\ listen \in [Tasks -> Irqs \cup {NoIrq}] /\ listen[Idle] = NoIrq
      /\ spawned \subseteq Tasks /\ spawned \cap Alive = {}
  BY <1>1, InvGives
<1>3. /\ tasks \in Seq(Tasks) /\ IsInjective(tasks) /\ Idle \in Alive /\ current \in Alive
      /\ prio \in Seq(Tasks) /\ IsInjective(prio)
      /\ \A t \in ToSet(prio) : t \in Alive /\ ~waiting[t]
      /\ current \notin ToSet(prio)
  BY <1>2 DEF ListsAreReady, Switchable
<1>4. ~waiting[current]
  BY <1>2 DEF CallsInv, CallsAreFormed
<1>5. PICK n : n = hits[current] - 1
  OBVIOUS
<1>6. n \in Nat /\ hits' = [hits EXCEPT ![current] = n]
  <2>1. hits[current] \in Nat
    BY <1>2 DEF CallsAreTyped
  <2> QED BY <1>1, <1>5, <2>1
<1>7. /\ CallsAreTyped(waiting, call, hits', wakeevents, lastWakeId)
      /\ CallsInv(Alive, waiting, call, hits', wakeevents, lastWakeId)
  BY <1>2, <1>6, HitsAreFree
<1> QED BY <1>1, <1>2, <1>3, <1>4, <1>7, InvHolds

LEMMA DeferKeepsInv ==
  ASSUME SchedulerInv, Defer
  PROVE  SchedulerInv'
<1>1. /\ panic = "no" /\ current # Idle
      /\ UNCHANGED <<tasks, listen, spawned>>
      /\ ReturnToNextTask(waiting, call, hits, wakeevents, lastWakeId)
  BY DEF Defer, InUserMode
<1>2. /\ ListsAreReady(waiting)
      /\ CallsAreTyped(waiting, call, hits, wakeevents, lastWakeId)
      /\ CallsInv(Alive, waiting, call, hits, wakeevents, lastWakeId)
      /\ ~waiting[Idle] /\ call[Idle].kind = "none"
  BY <1>1, InvGives
<1>3. Switched(waiting, call)
  BY <1>1, <1>2, ReturnSwitches
<1>4. call \in [Tasks -> Calls]
  BY <1>2 DEF CallsAreTyped
<1> QED BY <1>1, <1>2, <1>3, <1>4, SwitchedKeepsInv

\* The end of sysexit and of an exception: the running task is unlinked, which
\* was in no call and is not on the priority list.
LEMMA UnlinkKeepsInv ==
  ASSUME SchedulerInv, panic = "no", current # Idle,
         Switched(waiting, call), current' # current, current \notin ToSet(prio'),
         tasks' = Unlink(tasks, current), UNCHANGED <<listen, spawned>>
  PROVE  SchedulerInv'
<1>1. /\ ListsAreReady(waiting)
      /\ CallsAreTyped(waiting, call, hits, wakeevents, lastWakeId)
      /\ current \in Tasks /\ call[current].kind = "none"
      /\ call[Idle].kind = "none"
      /\ listen \in [Tasks -> Irqs \cup {NoIrq}] /\ listen[Idle] = NoIrq
      /\ spawned \subseteq Tasks /\ spawned \cap Alive = {}
  BY InvGives
<1>2. /\ tasks \in Seq(Tasks) /\ IsInjective(tasks) /\ Idle \in ToSet(tasks)
      /\ current \in ToSet(tasks) /\ call \in [Tasks -> Calls]
  BY <1>1 DEF ListsAreReady, CallsAreTyped, Alive
<1>3. /\ tasks' \in Seq(Tasks) /\ IsInjective(tasks') /\ Alive' = Alive \ {current}
  BY <1>2, UnlinkRemoves DEF Alive
<1>4. /\ current' \in Alive /\ ~waiting[current'] /\ waiting' = waiting
      /\ Switchable(prio', waiting) /\ current' \notin ToSet(prio')
      /\ call' = [call EXCEPT ![current'] = NoCall]
      /\ panic' \in {"no", "wake event to deschedule is gone"}
      /\ CallsAreTyped(waiting', call', hits', wakeevents', lastWakeId')
      /\ CallsInv(Alive, waiting', call', hits', wakeevents', lastWakeId')
  BY DEF Switched
<1>5. /\ prio' \in Seq(Tasks) /\ IsInjective(prio')
      /\ \A t \in ToSet(prio') : t \in Alive' /\ ~waiting'[t]
  BY <1>3, <1>4 DEF Switchable
<1>6. /\ call'[current'].kind = "none" /\ call'[Idle].kind = "none"
      /\ call'[current].kind = "none"
  <2>1. current' \in Tasks /\ Idle \in Tasks
    BY <1>2, <1>4, ElementsAreTyped, TasksAssumption DEF Alive
  <2> QED BY <1>1, <1>2, <1>4, <2>1 DEF NoCall
<1>7. CallsInv(Alive', waiting', call', hits', wakeevents', lastWakeId')
  <2>1. CallsAreFormed(Alive', waiting', call', lastWakeId')
    BY <1>3, <1>4, <1>6 DEF CallsInv, CallsAreFormed
  <2> QED BY <1>4, <2>1 DEF CallsInv
<1>8. /\ Idle \in Alive' /\ current' \in Alive' /\ ~waiting'[current']
      /\ listen' \in [Tasks -> Irqs \cup {NoIrq}] /\ listen'[Idle] = NoIrq
      /\ spawned' \subseteq Tasks /\ spawned' \cap Alive' = {}
  BY <1>1, <1>2, <1>3, <1>4 DEF Alive
<1> QED BY <1>3, <1>4, <1>5, <1>6, <1>7, <1>8, InvHolds

LEMMA SysexitKeepsInv ==
  ASSUME SchedulerInv, Sysexit
  PROVE  SchedulerInv'
<1>1. /\ panic = "no" /\ current # Idle
      /\ tasks' = Unlink(tasks, current) /\ UNCHANGED <<listen, spawned>>
      /\ ReturnToNextTask(waiting, call, hits, wakeevents, lastWakeId)
  BY DEF Sysexit, InUserMode
<1>2. /\ ListsAreReady(waiting)
      /\ CallsAreTyped(waiting, call, hits, wakeevents, lastWakeId)
      /\ CallsInv(Alive, waiting, call, hits, wakeevents, lastWakeId)
      /\ ~waiting[Idle]
  BY <1>1, InvGives
<1>3. Switched(waiting, call) /\ current' # current /\ current \notin ToSet(prio')
  BY <1>1, <1>2, ReturnSwitches
<1> QED BY <1>1, <1>3, UnlinkKeepsInv

LEMMA KillKeepsInv ==
  ASSUME SchedulerInv, KillOnException
  PROVE  SchedulerInv'
<1>1. /\ panic = "no" /\ current # Idle
      /\ tasks' = Unlink(tasks, current) /\ UNCHANGED <<listen, spawned>>
      /\ Cycle(waiting, call, hits, wakeevents, lastWakeId)
  BY DEF KillOnException, InUserMode
<1>2. /\ ListsAreReady(waiting)
      /\ CallsAreTyped(waiting, call, hits, wakeevents, lastWakeId)
      /\ CallsInv(Alive, waiting, call, hits, wakeevents, lastWakeId)
      /\ ~waiting[Idle]
  BY <1>1, InvGives
<1>3. Switched(waiting, call) /\ current' # current /\ current \notin ToSet(prio')
  BY <1>1, <1>2, CycleSwitches
<1> QED BY <1>1, <1>3, UnlinkKeepsInv

LEMMA BeginExecutionKeepsInv ==
  ASSUME SchedulerInv, NEW t \in spawned, BeginExecution(t)
  PROVE  SchedulerInv'
<1>1. /\ panic = "no" /\ tasks' = <<t>> \o tasks /\ spawned' = spawned \ {t}
      /\ UNCHANGED <<current, prio, waiting, call, listen, hits, wakeevents,
                     lastWakeId, panic>>
  BY DEF BeginExecution, InUserMode
<1>2. /\ ListsAreReady(waiting)
      /\ CallsAreTyped(waiting, call, hits, wakeevents, lastWakeId)
      /\ CallsInv(Alive, waiting, call, hits, wakeevents, lastWakeId)
      /\ call[Idle].kind = "none" /\ call[current].kind = "none"
      /\ current \in Tasks
      /\ listen \in [Tasks -> Irqs \cup {NoIrq}] /\ listen[Idle] = NoIrq
      /\ spawned \subseteq Tasks /\ spawned \cap Alive = {}
  BY <1>1, InvGives
<1>3. /\ tasks \in Seq(Tasks) /\ IsInjective(tasks) /\ Idle \in Alive /\ current \in Alive
      /\ prio \in Seq(Tasks) /\ IsInjective(prio)
      /\ \A x \in ToSet(prio) : x \in Alive /\ ~waiting[x]
      /\ current \notin ToSet(prio)
  BY <1>2 DEF ListsAreReady, Switchable
<1>4. ~waiting[current]
  BY <1>2 DEF CallsInv, CallsAreFormed
<1>5. /\ tasks' \in Seq(Tasks) /\ IsInjective(tasks') /\ Alive' = Alive \cup {t}
  <2>1. t \in Tasks /\ t \notin ToSet(tasks)
    BY <1>2 DEF Alive
  <2> QED BY <1>1, <1>3, <2>1, PrependAdds DEF Alive
<1>6. CallsInv(Alive', waiting, call, hits, wakeevents, lastWakeId)
  <2>1. CallsAreFormed(Alive', waiting, call, lastWakeId)
    BY <1>2, <1>5 DEF CallsInv, CallsAreFormed
  <2> QED BY <1>2, <2>1 DEF CallsInv
<1>7. spawned' \subseteq Tasks /\ spawned' \cap Alive' = {}
  BY <1>1, <1>2, <1>5
<1> QED BY <1>1, <1>2, <1>3, <1>4, <1>5, <1>6, <1>7, InvHolds

-----------------------------------------------------------------------------
(* The invariant, and the properties that follow from it.                  *)

LEMMA InitEstablishesInv == Init => SchedulerInv
<1> SUFFICES ASSUME Init PROVE SchedulerInv
  OBVIOUS
<1>1. /\ tasks = BootList /\ current = Idle /\ prio = <<>>
      /\ waiting = [t \in Tasks |-> FALSE]
      /\ call = [t \in Tasks |-> NoCall]
      /\ listen = [t \in Tasks |-> NoIrq]
      /\ hits = [t \in Tasks |-> 0]
      /\ wakeevents = <<>> /\ lastWakeId = 0
      /\ spawned = Tasks \ Alive /\ panic = "no"
  BY DEF Init, Alive
<1>2. /\ tasks \in Seq(Tasks) /\ IsInjective(tasks) /\ Idle \in Alive /\ Idle \in Tasks
  BY <1>1, BootAssumption, TasksAssumption DEF Alive
<1>3. NoCall \in Calls /\ NoCall.kind = "none" /\ NoCall.uid = 0
  BY DEF NoCall, Calls
<1>4. /\ waiting \in [Tasks -> BOOLEAN] /\ call \in [Tasks -> Calls]
      /\ listen \in [Tasks -> Irqs \cup {NoIrq}] /\ hits \in [Tasks -> Nat]
      /\ wakeevents \in Seq(EventsFor(Tasks)) /\ prio \in Seq(Tasks)
      /\ DOMAIN wakeevents = {} /\ DOMAIN prio = {}
  BY <1>1, <1>3
<1>5. \A t \in Tasks : ~waiting[t] /\ call[t] = NoCall
  BY <1>1
<1>6. TypeOK
  BY <1>1, <1>2, <1>4 DEF TypeOK, Panics
<1>7. SchedulerNeverPanics
  BY <1>1 DEF SchedulerNeverPanics
<1>8. TaskListInv /\ IdleInv
  BY <1>1, <1>2, <1>3, <1>5 DEF TaskListInv, IdleInv
<1>9. PriorityListIsReady
  BY <1>1, <1>2, <1>4, <1>5 DEF PriorityListIsReady, ToSet, IsInjective
<1>10. CallsInv(Alive, waiting, call, hits, wakeevents, lastWakeId)
  <2>1. CallsAreFormed(Alive, waiting, call, lastWakeId)
    BY <1>1, <1>3, <1>5 DEF CallsAreFormed
  <2>2. InterruptsAreKept(waiting, call, hits)
    BY <1>3, <1>5 DEF InterruptsAreKept
  <2>3. AlarmsAreSet(waiting, call, wakeevents)
    BY <1>5 DEF AlarmsAreSet
  <2>4. EventsAreOwned(waiting, call, hits, wakeevents)
    BY <1>4 DEF EventsAreOwned
  <2>5. UidsAreUnique(call, wakeevents)
    BY <1>3, <1>4, <1>5 DEF UidsAreUnique, UidsDiffer
  <2> QED BY <2>1, <2>2, <2>3, <2>4, <2>5 DEF CallsInv
<1> QED BY <1>1, <1>2, <1>3, <1>5, <1>6, <1>7, <1>8, <1>9, <1>10 DEF SchedulerInv

\* A step that changes nothing, the stopped machine's among them.
LEMMA StutterKeepsInv ==
  ASSUME SchedulerInv, UNCHANGED vars
  PROVE  SchedulerInv'
<1>1. UNCHANGED <<tasks, current, prio, waiting, call, listen, hits, wakeevents,
                  lastWakeId, spawned, panic>>
  BY DEF vars
<1>2. Alive' = Alive
  BY <1>1 DEF Alive
<1>3. TypeOK => TypeOK'
  BY <1>1 DEF TypeOK
<1>4. SchedulerNeverPanics => SchedulerNeverPanics'
  BY <1>1 DEF SchedulerNeverPanics
<1>5. TaskListInv /\ IdleInv => TaskListInv' /\ IdleInv'
  BY <1>1, <1>2 DEF TaskListInv, IdleInv
<1>6. PriorityListIsReady => PriorityListIsReady'
  BY <1>1, <1>2 DEF PriorityListIsReady
<1> QED BY <1>1, <1>2, <1>3, <1>4, <1>5, <1>6 DEF SchedulerInv

LEMMA StepKeepsInv == SchedulerInv /\ [Next]_vars => SchedulerInv'
<1> SUFFICES ASSUME SchedulerInv, [Next]_vars PROVE SchedulerInv'
  OBVIOUS
<1>1. CASE TimerTick
  BY <1>1, TimerTickKeepsInv
<1>2. CASE \E irq \in Irqs : Irq(irq)
  BY <1>2, IrqKeepsInv
<1>3. CASE \E us \in Timeouts : IrqWait(us)
  <2>1. PICK us \in Timeouts : IrqWait(us)
    BY <1>3
  <2>2. PICK c : c = IRQWaitCall(us)
    OBVIOUS
  <2>3. c \in Calls /\ c.uid = 0 /\ c.kind \in {"irq", "sleep"}
    BY <2>2, TimesAssumption DEF IRQWaitCall, Calls
  <2>4. InUserMode /\ BlockingCall(c)
    BY <2>1, <2>2 DEF IrqWait
  <2> QED BY <2>3, <2>4, BlockingCallKeepsInv
<1>4. CASE \E us \in Sleeps : Nanosleep(us)
  <2>1. PICK us \in Sleeps : Nanosleep(us)
    BY <1>4
  <2>2. PICK c : c = NanosleepCall(us)
    OBVIOUS
  <2>3. c \in Calls /\ c.uid = 0 /\ c.kind \in {"irq", "sleep"}
    BY <2>2, TimesAssumption DEF NanosleepCall, Calls
  <2>4. InUserMode /\ BlockingCall(c)
    BY <2>1, <2>2 DEF Nanosleep
  <2> QED BY <2>3, <2>4, BlockingCallKeepsInv
<1>5. CASE \E irq \in Irqs : IrqListen(irq)
  BY <1>5, IrqListenKeepsInv
<1>6. CASE IrqCheck
  BY <1>6, IrqCheckKeepsInv
<1>7. CASE Defer
  BY <1>7, DeferKeepsInv
<1>8. CASE Sysexit
  BY <1>8, SysexitKeepsInv
<1>9. CASE KillOnException
  BY <1>9, KillKeepsInv
<1>10. CASE \E t \in spawned : BeginExecution(t)
  BY <1>10, BeginExecutionKeepsInv
<1>11. CASE Halted
  BY <1>11, StutterKeepsInv DEF Halted
<1>12. CASE UNCHANGED vars
  BY <1>12, StutterKeepsInv
<1> QED BY <1>1, <1>2, <1>3, <1>4, <1>5, <1>6, <1>7, <1>8, <1>9, <1>10, <1>11, <1>12
        DEF Next

\* The kernel keeps the inductive invariant: every entry into it leaves the task
\* list, the priority list, the pending calls and the wake queue consistent.
THEOREM SchedulerKeepsInv == Spec => []SchedulerInv
  BY InitEstablishesInv, StepKeepsInv, PTL DEF Spec

\* The kernel's variables keep their types: in particular no counter of
\* interrupts and no usLeft is ever negative, which their u32 would wrap.
THEOREM SchedulerIsTyped == Spec => []TypeOK
<1>1. SchedulerInv => TypeOK
  BY DEF SchedulerInv
<1> QED BY <1>1, SchedulerKeepsInv, PTL

\* No assertion of the scheduler itself ever fails.
THEOREM SchedulerIsSafe == Spec => []SchedulerNeverPanics
<1>1. SchedulerInv => SchedulerNeverPanics
  BY DEF SchedulerInv
<1> QED BY <1>1, SchedulerKeepsInv, PTL

\* The priority list only ever names live tasks that can be switched to.
THEOREM PriorityIsSafe == Spec => []PriorityListIsReady
<1>1. SchedulerInv => PriorityListIsReady
  BY DEF SchedulerInv, PriorityListIsReady
<1> QED BY <1>1, SchedulerKeepsInv, PTL

\* No driver sleeps through an interrupt it listens to.
THEOREM InterruptsAreNotLost == Spec => []NoLostInterrupt
<1>1. SchedulerInv => NoLostInterrupt
  BY DEF SchedulerInv, CallsInv, InterruptsAreKept, NoLostInterrupt
<1> QED BY <1>1, SchedulerKeepsInv, PTL

\* No task that waits for time lacks the event that will wake it.
THEOREM AlarmsAreNotLost == Spec => []NoLostAlarm
<1>1. SchedulerInv => NoLostAlarm
  BY DEF SchedulerInv, CallsInv, AlarmsAreSet, NoLostAlarm
<1> QED BY <1>1, SchedulerKeepsInv, PTL

\* No wake event outlives its task or the call that asked for it.
THEOREM WakeEventsAreOwned == Spec => []WakeEventsHaveOwners
<1>1. SchedulerInv => WakeEventsHaveOwners
  <2> SUFFICES ASSUME SchedulerInv, panic = "no", NEW i \in DOMAIN wakeevents
               PROVE  LET t == wakeevents[i].toWake
                      IN  /\ t \in Alive
                          /\ call[t].uid = wakeevents[i].uid
                          /\ ~waiting[t] => call[t].kind = "irq" /\ hits[t] > 0
    BY DEF WakeEventsHaveOwners
  <2> DEFINE t == wakeevents[i].toWake
  <2>1. /\ CallsAreTyped(waiting, call, hits, wakeevents, lastWakeId)
        /\ CallsInv(Alive, waiting, call, hits, wakeevents, lastWakeId)
    BY InvGives
  <2>2. t \in Tasks
    BY <2>1, EventTasks DEF CallsAreTyped
  <2>3. /\ wakeevents[i].uid # 0 /\ call[t].uid = wakeevents[i].uid
        /\ ~waiting[t] => call[t].kind = "irq" /\ hits[t] > 0
    BY <2>1 DEF CallsInv, EventsAreOwned
  <2> HIDE DEF t
  <2>4. t \in Alive
    BY <2>1, <2>2, <2>3 DEF CallsInv, CallsAreFormed, NoCall
  <2> QED BY <2>3, <2>4 DEF t
<1> QED BY <1>1, SchedulerKeepsInv, PTL
=============================================================================
