--------------------------- MODULE Kernel_proofs ---------------------------
(***************************************************************************)
(* Two parts of the kernel that share no state: the message queues and the *)
(* memory.                                                                 *)
(*                                                                         *)
(* MessageQueues: no message is waited for in vain, no request is lost or  *)
(* answered twice, and every reply reaches the request it answers: for any *)
(* number of programs and messages.  A request is in one place at a time:  *)
(* in its receiver's queue, owed by its receiver, or answered in its       *)
(* sender's queue.  That is said of the sets of messages that the queues   *)
(* hold (Placed), and proved of the three ways in which a message moves:   *)
(* sent as a request, sent as a reply, and shifted.                        *)
(*                                                                         *)
(* Memory: no frame of the RAM is in two entries of the page tables, for   *)
(* pages, tables, heaps and programs of any size, from the first           *)
(* allocation on (MemoryKeepsFramesOwn).  What gives a page a frame panics *)
(* if it has one, and the frames are marked; so the argument needs that    *)
(* nothing else changes an entry or loses a mark.  The hard parts are the  *)
(* identity mapping, which takes the frames it is told to and goes on      *)
(* while placement grows; tables, whose address must be new, as must that  *)
(* of a task's directory; and the page that lends its entry to images      *)
(* being loaded (the wand).  The list of what the kernel is still to do is *)
(* part of the invariant (TodoFits).                                       *)
(***************************************************************************)
EXTENDS MessageQueues, MemoryProperties, SequenceLemmas, FiniteSetTheorems

-----------------------------------------------------------------------------
(* Message queues.                                                         *)

Message == [id : Nat, from : Procs, reply_to : Nat,
            data : {"request", "notice", "reply"}]

\* The messages in the queue of each process.
Held == [p \in Procs |-> {queue[p][i] : i \in DOMAIN queue[p]}]

Holding == [Procs -> SUBSET Message]
Requests == [Procs -> SUBSET [id : Nat, to : Procs]]
Debts == [Procs -> SUBSET [id : Nat, from : Procs]]

Typed ==
  /\ queue \in [Procs -> Seq(Message)]
  /\ lastMsgId \in Nat
  /\ waiting \in [Procs -> BOOLEAN]
  /\ call \in [Procs -> {NoCall} \cup {ProbeQueueCall(r) : r \in Nat}]
  /\ panic = FALSE
  /\ outstanding \in Requests
  /\ owed \in Debts

\* Messages are numbered as they are sent.
IdsAreOld(H, n, out) ==
  /\ \A p \in Procs : \A x \in H[p] : 0 < x.id /\ x.id <= n
  /\ \A p \in Procs : \A m \in out[p] : 0 < m.id /\ m.id <= n

OutstandingDiffer(out) ==
  \A p \in Procs : \A k \in Nat : \A q1, q2 \in Procs :
    [id |-> k, to |-> q1] \in out[p] /\ [id |-> k, to |-> q2] \in out[p] => q1 = q2

\* What is still unanswered in a queue is outstanding at its sender.
RequestsAreOutstanding(H, out) ==
  \A p \in Procs : \A x \in H[p] :
    /\ x.data = "request" => [id |-> x.id, to |-> p] \in out[x.from]
    /\ x.data # "reply" => x.reply_to = 0

\* So is what a process owes, which it has shifted.
DebtsAreOutstanding(H, out, ow) ==
  \A p \in Procs : \A k \in Nat : \A s \in Procs :
    [id |-> k, from |-> s] \in ow[p] =>
      /\ [id |-> k, to |-> p] \in out[s]
      /\ \A x \in H[p] : x.id # k

\* A reply answers what is outstanding, is the only one that does, and the
\* request is in no other place.
AnswersAreOutstanding(H, out, ow) ==
  \A p \in Procs : \A y \in H[p] :
    y.reply_to # 0 =>
      /\ [id |-> y.reply_to, to |-> y.from] \in out[p]
      /\ \A x \in H[y.from] : x.id # y.reply_to
      /\ [id |-> y.reply_to, from |-> p] \notin ow[y.from]
      /\ \A z \in H[p] : z.reply_to = y.reply_to => z = y

\* What is outstanding is somewhere.
OutstandingAreSomewhere(H, out, ow) ==
  \A p \in Procs : \A k \in Nat : \A q \in Procs :
    [id |-> k, to |-> q] \in out[p] =>
      \/ \E x \in H[q] : x.id = k /\ x.from = p /\ x.data = "request"
      \/ [id |-> k, from |-> p] \in ow[q]
      \/ \E y \in H[p] : y.reply_to = k

Placed(H, n, out, ow) ==
  /\ IdsAreOld(H, n, out)
  /\ OutstandingDiffer(out)
  /\ RequestsAreOutstanding(H, out)
  /\ DebtsAreOutstanding(H, out, ow)
  /\ AnswersAreOutstanding(H, out, ow)
  /\ OutstandingAreSomewhere(H, out, ow)

\* No two messages of a queue have one id.
IdsDiffer(s) == \A i, j \in DOMAIN s : s[i].id = s[j].id => i = j

\* A waiting process is in a probe that finds nothing, and it waits for any
\* message only if it has nothing outstanding; one that was released finds what
\* it was released for.
ProbesAreFormed ==
  \A p \in Procs :
    /\ waiting[p] => /\ call[p] # NoCall
                     /\ Matching(queue[p], call[p].reply_to) = {}
                     /\ call[p].reply_to = 0 => outstanding[p] = {}
    /\ ~waiting[p] /\ call[p] # NoCall => Matching(queue[p], call[p].reply_to) # {}

\* What a program has probed is in its queue until it is shifted.
ProbedIsHeld == \A p \in Procs : info[p] # NoItem => info[p] \in Held[p]

MessagesInv ==
  /\ Typed
  /\ Placed(Held, lastMsgId, outstanding, owed)
  /\ \A p \in Procs : IdsDiffer(queue[p])
  /\ ProbesAreFormed
  /\ info \in [Procs -> Message \cup {NoItem}]
  /\ ProbedIsHeld

-----------------------------------------------------------------------------
(* How messages move.                                                      *)

\* From H to H2, x joins the queue of q.
Joins(x, q, H, H2) ==
  /\ x \in Message /\ H \in Holding /\ H2 \in Holding
  /\ \A s \in Procs : H2[s] = IF s = q THEN H[q] \cup {x} ELSE H[s]

\* From out to out2, p sends request m; from ow to ow2, it pays debt d.
Opens(m, p, out, out2) ==
  /\ out2 \in Requests
  /\ \A s \in Procs : out2[s] = IF s = p THEN out[p] \cup {m} ELSE out[s]

Pays(d, p, ow, ow2) ==
  /\ ow2 \in Debts
  /\ \A s \in Procs : ow2[s] = IF s = p THEN ow[p] \ {d} ELSE ow[s]

\* A request joins its receiver's queue and what its sender has outstanding.
LEMMA PlacedRequest ==
  ASSUME NEW H \in Holding, NEW n \in Nat,
         NEW out \in Requests,
         NEW ow \in Debts,
         Placed(H, n, out, ow),
         NEW p \in Procs, NEW q \in Procs, NEW x,
         x.id = n + 1, x.from = p, x.reply_to = 0, x.data = "request",
         NEW H2,
         NEW out2,
         Joins(x, q, H, H2),
         Opens([id |-> n + 1, to |-> q], p, out, out2)
  PROVE  Placed(H2, n + 1, out2, ow)
<1> USE DEF Placed, Joins, Opens, Holding, Requests, Debts
<1>1. IdsAreOld(H2, n + 1, out2)
  BY DEF IdsAreOld, Message
<1>2. OutstandingDiffer(out2)
  BY DEF OutstandingDiffer, IdsAreOld
<1>3. RequestsAreOutstanding(H2, out2)
  <2> SUFFICES ASSUME NEW s \in Procs, NEW y \in H2[s]
               PROVE  /\ y.data = "request" => [id |-> y.id, to |-> s] \in out2[y.from]
                      /\ y.data # "reply" => y.reply_to = 0
    BY DEF RequestsAreOutstanding
  <2>1. CASE y \in H[s]
    <3>1. y.from \in Procs
      BY <2>1 DEF Message
    <3> QED BY <2>1, <3>1 DEF RequestsAreOutstanding
  <2>2. CASE y \notin H[s]
    BY <2>2
  <2> QED BY <2>1, <2>2
<1>4. DebtsAreOutstanding(H2, out2, ow)
  BY DEF DebtsAreOutstanding, IdsAreOld
<1>5. AnswersAreOutstanding(H2, out2, ow)
  BY SMTT(30) DEF AnswersAreOutstanding, IdsAreOld, Message
<1>6. OutstandingAreSomewhere(H2, out2, ow)
  BY DEF OutstandingAreSomewhere, Message
<1> QED BY <1>1, <1>2, <1>3, <1>4, <1>5, <1>6

\* A notice only joins the queue.
LEMMA PlacedNotice ==
  ASSUME NEW H \in Holding, NEW n \in Nat,
         NEW out \in Requests,
         NEW ow \in Debts,
         Placed(H, n, out, ow),
         NEW p \in Procs, NEW q \in Procs, NEW x,
         x.id = n + 1, x.from = p, x.reply_to = 0, x.data = "notice",
         NEW H2,
         Joins(x, q, H, H2)
  PROVE  Placed(H2, n + 1, out, ow)
<1> USE DEF Placed, Joins, Holding, Requests, Debts
<1>1. IdsAreOld(H2, n + 1, out)
  BY DEF IdsAreOld, Message
<1>2. OutstandingDiffer(out)
  OBVIOUS
<1>3. RequestsAreOutstanding(H2, out)
  BY DEF RequestsAreOutstanding, Message
<1>4. DebtsAreOutstanding(H2, out, ow)
  BY DEF DebtsAreOutstanding, IdsAreOld
<1>5. AnswersAreOutstanding(H2, out, ow)
  BY SMTT(30) DEF AnswersAreOutstanding, IdsAreOld, Message
<1>6. OutstandingAreSomewhere(H2, out, ow)
  BY DEF OutstandingAreSomewhere, Message
<1> QED BY <1>1, <1>2, <1>3, <1>4, <1>5, <1>6

\* A reply joins the queue of the process that is owed it.
LEMMA PlacedReply ==
  ASSUME NEW H \in Holding, NEW n \in Nat,
         NEW out \in Requests,
         NEW ow \in Debts,
         Placed(H, n, out, ow),
         NEW p \in Procs, NEW q \in Procs, NEW k \in Nat, NEW x,
         [id |-> k, from |-> q] \in ow[p],
         x.id = n + 1, x.from = p, x.reply_to = k, x.data = "reply",
         NEW H2,
         NEW ow2,
         Joins(x, q, H, H2),
         Pays([id |-> k, from |-> q], p, ow, ow2)
  PROVE  Placed(H2, n + 1, out, ow2)
<1> USE DEF Placed, Joins, Pays, Holding, Requests, Debts
<1>0. /\ [id |-> k, to |-> p] \in out[q]
      /\ \A y \in H[p] : y.id # k
      /\ 0 < k /\ k <= n
      /\ \A y \in H[q] : y.reply_to # k
  <2>1. [id |-> k, to |-> p] \in out[q] /\ \A y \in H[p] : y.id # k
    BY DEF DebtsAreOutstanding
  <2>2. 0 < k /\ k <= n
    BY <2>1 DEF IdsAreOld
  <2>3. ASSUME NEW y \in H[q], y.reply_to = k PROVE FALSE
    <3>1. [id |-> k, to |-> y.from] \in out[q] /\ [id |-> k, from |-> q] \notin ow[y.from]
      BY <2>2, <2>3, SMTT(30) DEF AnswersAreOutstanding
    <3>2. y.from \in Procs
      BY DEF Message
    <3>3. y.from = p
      BY <2>1, <3>1, <3>2 DEF OutstandingDiffer
    <3> QED BY <3>1, <3>3
  <2> QED BY <2>1, <2>2, <2>3
<1>1. IdsAreOld(H2, n + 1, out)
  BY DEF IdsAreOld, Message
<1>2. OutstandingDiffer(out)
  OBVIOUS
<1>3. RequestsAreOutstanding(H2, out)
  <2> SUFFICES ASSUME NEW s \in Procs, NEW y \in H2[s]
               PROVE  /\ y.data = "request" => [id |-> y.id, to |-> s] \in out[y.from]
                      /\ y.data # "reply" => y.reply_to = 0
    BY DEF RequestsAreOutstanding
  <2>1. CASE y \in H[s]
    BY <2>1 DEF RequestsAreOutstanding
  <2>2. CASE y \notin H[s]
    BY <2>2
  <2> QED BY <2>1, <2>2
<1>4. DebtsAreOutstanding(H2, out, ow2)
  BY DEF DebtsAreOutstanding, IdsAreOld
<1>5. AnswersAreOutstanding(H2, out, ow2)
  BY <1>0, SMTT(30) DEF AnswersAreOutstanding, IdsAreOld, Message
<1>6. OutstandingAreSomewhere(H2, out, ow2)
  BY <1>0 DEF OutstandingAreSomewhere, Message
<1> QED BY <1>1, <1>2, <1>3, <1>4, <1>5, <1>6

\* From H to H2, x leaves the queue of p; from out to out2, p has an answer to
\* request k; from ow to ow2, it owes the answer to x, if that is a request.
Leaves(x, p, H, H2) ==
  /\ x \in H[p] /\ H \in Holding /\ H2 \in Holding
  /\ \A y \in H[p] : y.id = x.id => y = x
  /\ \A s \in Procs : H2[s] = IF s = p THEN H[p] \ {x} ELSE H[s]

Closes(k, p, out, out2) ==
  /\ out2 \in Requests
  /\ \A s \in Procs : out2[s] = IF s = p THEN {m \in out[p] : m.id # k} ELSE out[s]

Incurs(x, p, ow, ow2) ==
  /\ ow2 \in Debts
  /\ \A s \in Procs : ow2[s] = IF s = p /\ x.data = "request"
                               THEN ow[p] \cup {[id |-> x.id, from |-> x.from]}
                               ELSE ow[s]

\* A message is shifted: a request is owed from then on, a reply ends what it
\* answers.
LEMMA PlacedShift ==
  ASSUME NEW H \in Holding, NEW n \in Nat, NEW out \in Requests, NEW ow \in Debts,
         Placed(H, n, out, ow),
         NEW p \in Procs, NEW x, NEW H2, NEW out2, NEW ow2,
         Leaves(x, p, H, H2), Closes(x.reply_to, p, out, out2), Incurs(x, p, ow, ow2)
  PROVE  Placed(H2, n, out2, ow2)
<1> USE DEF Placed, Leaves, Closes, Incurs, Holding, Requests, Debts
<1>0. /\ x.id \in Nat /\ x.from \in Procs /\ x.reply_to \in Nat
      /\ x.data \in {"request", "notice", "reply"}
  BY DEF Message
<1>1. IdsAreOld(H2, n, out2)
  BY DEF IdsAreOld
<1>2. OutstandingDiffer(out2)
  BY DEF OutstandingDiffer
<1>3. RequestsAreOutstanding(H2, out2)
  <2> SUFFICES ASSUME NEW s \in Procs, NEW y \in H2[s]
               PROVE  /\ y.data = "request" => [id |-> y.id, to |-> s] \in out2[y.from]
                      /\ y.data # "reply" => y.reply_to = 0
    BY DEF RequestsAreOutstanding
  <2>1. y \in H[s] /\ y.from \in Procs /\ y.id \in Nat
    BY DEF Message
  <2>2. y.data # "reply" => y.reply_to = 0
    BY <2>1 DEF RequestsAreOutstanding
  <2>3. ASSUME y.data = "request" PROVE [id |-> y.id, to |-> s] \in out2[y.from]
    <3>1. [id |-> y.id, to |-> s] \in out[y.from] /\ 0 < y.id
      BY <2>1, <2>3 DEF RequestsAreOutstanding, IdsAreOld
    <3>2. CASE y.from = p /\ y.id = x.reply_to
      <4>1. [id |-> y.id, to |-> x.from] \in out[p] /\ \A z \in H[x.from] : z.id # y.id
        <5>1. x.reply_to # 0
          BY <2>1, <3>1, <3>2
        <5>2. /\ [id |-> x.reply_to, to |-> x.from] \in out[p]
              /\ \A z \in H[x.from] : z.id # x.reply_to
          BY <5>1 DEF AnswersAreOutstanding
        <5> QED BY <3>2, <5>2
      <4>2. x.from = s
        BY <1>0, <2>1, <3>1, <3>2, <4>1 DEF OutstandingDiffer
      <4> QED BY <2>1, <4>1, <4>2
    <3>3. CASE ~(y.from = p /\ y.id = x.reply_to)
      BY <2>1, <3>1, <3>3
    <3> QED BY <3>2, <3>3
  <2> QED BY <2>2, <2>3
<1>4. DebtsAreOutstanding(H2, out2, ow2)
  <2> SUFFICES ASSUME NEW s \in Procs, NEW k \in Nat, NEW t \in Procs,
                      [id |-> k, from |-> t] \in ow2[s]
               PROVE  /\ [id |-> k, to |-> s] \in out2[t]
                      /\ \A y \in H2[s] : y.id # k
    BY DEF DebtsAreOutstanding
  <2>1. CASE [id |-> k, from |-> t] \in ow[s]
    <3>1. /\ [id |-> k, to |-> s] \in out[t] /\ 0 < k
          /\ \A y \in H2[s] : y.id # k
      BY <2>1 DEF DebtsAreOutstanding, IdsAreOld
    <3>2. CASE t = p /\ k = x.reply_to
      <4>1. /\ [id |-> k, to |-> x.from] \in out[p]
            /\ [id |-> k, from |-> p] \notin ow[x.from]
        BY <1>0, <3>1, <3>2, SMTT(30) DEF AnswersAreOutstanding
      <4>2. x.from = s
        BY <1>0, <3>1, <3>2, <4>1 DEF OutstandingDiffer
      <4> QED BY <2>1, <3>2, <4>1, <4>2
    <3>3. CASE ~(t = p /\ k = x.reply_to)
      BY <3>1, <3>3
    <3> QED BY <3>1, <3>2, <3>3
  <2>2. CASE [id |-> k, from |-> t] \notin ow[s]
    <3>1. s = p /\ x.data = "request" /\ k = x.id /\ t = x.from
      BY <1>0, <2>2
    <3>2. [id |-> k, to |-> p] \in out[t] /\ x.reply_to = 0 /\ 0 < k
      BY <3>1 DEF RequestsAreOutstanding, IdsAreOld
    <3>3. [id |-> k, to |-> p] \in out2[t]
      BY <3>2
    <3> QED BY <3>1, <3>3
  <2> QED BY <2>1, <2>2
<1>5. AnswersAreOutstanding(H2, out2, ow2)
  BY <1>0, SMTT(30) DEF AnswersAreOutstanding, IdsAreOld, Message
<1>6. OutstandingAreSomewhere(H2, out2, ow2)
  BY <1>0 DEF OutstandingAreSomewhere, Message
<1> QED BY <1>1, <1>2, <1>3, <1>4, <1>5, <1>6

-----------------------------------------------------------------------------
(* Queues.                                                                 *)

LEMMA PushBackAdds ==
  ASSUME NEW S, NEW s \in Seq(S), NEW x \in S
  PROVE  /\ PushBack(s, x) \in Seq(S)
         /\ \A i \in DOMAIN s : i \in DOMAIN PushBack(s, x) /\ PushBack(s, x)[i] = s[i]
         /\ \A i \in DOMAIN PushBack(s, x) : i \in DOMAIN s \/ i = Len(s) + 1
         /\ Len(s) + 1 \in DOMAIN PushBack(s, x)
         /\ PushBack(s, x)[Len(s) + 1] = x
<1> DEFINE u == PushBack(s, x)
           n == Len(s)
<1>1. /\ n \in Nat /\ DOMAIN s = 1 .. n
      /\ u \in Seq(S) /\ DOMAIN u = 1 .. n + 1
      /\ \A i \in 1 .. n : u[i] = s[i]
      /\ u[n + 1] = x
  BY AppendProperties DEF PushBack
<1> HIDE DEF u, n
<1>2. /\ \A i \in 1 .. n : i \in 1 .. n + 1
      /\ n + 1 \in 1 .. n + 1
      /\ \A i \in 1 .. n + 1 : i \in 1 .. n \/ i = n + 1
  BY <1>1
<1>3. /\ u \in Seq(S)
      /\ \A i \in DOMAIN s : i \in DOMAIN u /\ u[i] = s[i]
      /\ \A i \in DOMAIN u : i \in DOMAIN s \/ i = n + 1
      /\ n + 1 \in DOMAIN u /\ u[n + 1] = x
  BY <1>1, <1>2
<1> QED BY <1>3 DEF u, n

\* A probe that does not block finds a message that is there.
LEMMA ProbedIsThere ==
  ASSUME NEW S, NEW s \in Seq(S), NEW r, Matching(s, r) # {}
  PROVE  \E k \in DOMAIN s : Probed(s, r) = s[k]
<1> DEFINE I == Matching(s, r)
<1>1. I \subseteq DOMAIN s /\ I \subseteq Nat /\ I # {}
  BY DEF Matching
<1>2. PICK k \in I : \A j \in I : k <= j
  <2> HIDE DEF I
  <2> QED BY <1>1, LeastElement
<1>3. PICK i \in I : Probed(s, r) = s[i]
  BY <1>2 DEF Probed
<1> QED BY <1>1, <1>3

\* Shifting takes out that message and no other.
LEMMA RemovedRemoves ==
  ASSUME NEW S, NEW s \in Seq(S), IdsDiffer(s), NEW k \in DOMAIN s
  PROVE  /\ Removed(s, s[k].id) \in Seq(S)
         /\ IdsDiffer(Removed(s, s[k].id))
         /\ {Removed(s, s[k].id)[i] : i \in DOMAIN Removed(s, s[k].id)}
              = {s[i] : i \in DOMAIN s} \ {s[k]}
<1> DEFINE n == Len(s)
           u == RemoveAt(s, k)
<1>1. n \in Nat /\ DOMAIN s = 1 .. n /\ k \in 1 .. n
  OBVIOUS
<1>2. ItemById(s, s[k].id) = k
  <2>1. \A i \in DOMAIN s : s[i].id = s[k].id => i = k
    BY DEF IdsDiffer
  <2>2. k <= k
    BY <1>1
  <2> HIDE DEF n
  <2> QED BY <2>1, <2>2 DEF ItemById
<1>3. Removed(s, s[k].id) = u
  BY <1>2 DEF Removed
<1>4. PICK g \in [DOMAIN u -> DOMAIN s] :
        /\ \A i \in DOMAIN u : u[i] = s[g[i]] /\ g[i] # k
        /\ \A i, j \in DOMAIN u : i < j => g[i] < g[j]
  BY <1>1, RemoveAtKeepsOrder
<1>5. /\ u \in Seq(S) /\ Len(u) = n - 1
      /\ \A i \in 1 .. k - 1 : u[i] = s[i]
      /\ \A i \in 1 .. n - k : u[k - 1 + i] = s[k + i]
  BY <1>1, RemoveAtRemoves, Zenon
<1> HIDE DEF n, u
<1>6. DOMAIN u = 1 .. n - 1
  BY <1>1, <1>5
<1>7. IdsDiffer(u)
  <2> SUFFICES ASSUME NEW i \in DOMAIN u, NEW j \in DOMAIN u, u[i].id = u[j].id, i # j
               PROVE  FALSE
    BY DEF IdsDiffer
  <2>1. g[i] = g[j]
    BY <1>4 DEF IdsDiffer
  <2>2. i \in Nat /\ j \in Nat /\ g[i] \in Nat
    BY <1>1, <1>4, <1>6
  <2> QED BY <1>4, <2>1, <2>2
<1>8. ASSUME NEW i \in DOMAIN s, i # k
      PROVE  \E j \in DOMAIN u : u[j] = s[i]
  <2>1. CASE i < k
    <3>1. i \in 1 .. k - 1 /\ i \in 1 .. n - 1
      BY <1>1, <2>1
    <3> QED BY <1>5, <1>6, <3>1
  <2>2. CASE ~(i < k)
    <3>1. i - k \in 1 .. n - k /\ k - 1 + (i - k) = i - 1 /\ k + (i - k) = i
      BY <1>1, <1>8, <2>2
    <3>2. i - 1 \in 1 .. n - 1
      BY <1>1, <1>8, <2>2
    <3>3. u[k - 1 + (i - k)] = s[k + (i - k)]
      BY <1>5, <3>1
    <3> QED BY <1>6, <3>1, <3>2, <3>3
  <2> QED BY <2>1, <2>2
<1>9. {u[i] : i \in DOMAIN u} = {s[i] : i \in DOMAIN s} \ {s[k]}
  <2>1. ASSUME NEW i \in DOMAIN u
        PROVE  u[i] \in {s[j] : j \in DOMAIN s} \ {s[k]}
    <3>1. g[i] \in DOMAIN s /\ g[i] # k /\ u[i] = s[g[i]]
      BY <1>4
    <3>2. s[g[i]] # s[k]
      BY <3>1 DEF IdsDiffer
    <3> QED BY <3>1, <3>2
  <2>2. ASSUME NEW i \in DOMAIN s, s[i] # s[k]
        PROVE  s[i] \in {u[j] : j \in DOMAIN u}
    BY <1>8, <2>2
  <2> QED BY <2>1, <2>2
<1> QED BY <1>3, <1>5, <1>7, <1>9, SMTT(30)

-----------------------------------------------------------------------------
(* The steps.                                                              *)

\* A message x has been sent to q.
Sent(x, q) ==
  /\ Joins(x, q, Held, Held')
  /\ queue' \in [Procs -> Seq(Message)]
  /\ \A s \in Procs : IdsDiffer(queue'[s])
  /\ waiting' \in [Procs -> BOOLEAN] /\ call' = call
  /\ \A s \in Procs :
       /\ waiting'[s] => /\ call[s] # NoCall
                         /\ Matching(queue'[s], call[s].reply_to) = {}
                         /\ call[s].reply_to = 0 => outstanding[s] = {}
       /\ ~waiting'[s] /\ call[s] # NoCall => Matching(queue'[s], call[s].reply_to) # {}

\* What sendQueue does to the queues and to those that wait: it releases
\* whoever waits for that message.  A process with something outstanding is in
\* no probe for any message, so a reply releases the one it is for.
LEMMA SendQueueSends ==
  ASSUME MessagesInv, NEW p \in Procs, NEW q \in Procs, NEW r \in Nat,
         NEW data \in {"request", "notice", "reply"},
         SendQueue(p, q, r, data),
         r # 0 => outstanding[q] # {}
  PROVE  Sent(Item(lastMsgId + 1, p, r, data), q)
<1> DEFINE x == Item(lastMsgId + 1, p, r, data)
           old == queue[q]
           new == PushBack(queue[q], x)
<1>1. x \in Message /\ x.id = lastMsgId + 1 /\ x.reply_to = r
  BY DEF MessagesInv, Typed, Item, Message
<1>2. /\ \A s \in Procs : queue'[s] = IF s = q THEN new ELSE queue[s]
      /\ queue \in [Procs -> Seq(Message)] /\ old \in Seq(Message)
      /\ DOMAIN queue' = Procs
      /\ queue' = [queue EXCEPT ![q] = new]
  BY DEF SendQueue, NextMsgId, MessagesInv, Typed
<1>3. /\ \A s \in Procs : waiting[s] \in BOOLEAN
      /\ waiting' \in [Procs -> BOOLEAN]
      /\ \A s \in Procs \ {q} : waiting'[s] = waiting[s]
      /\ waiting'[q] = (waiting[q] /\ ~IsReleasedBy(call[q], r))
      /\ call' = call
  BY DEF SendQueue, MessagesInv, Typed
<1>4. /\ new \in Seq(Message)
      /\ \A i \in DOMAIN old : i \in DOMAIN new /\ new[i] = old[i]
      /\ \A i \in DOMAIN new : i \in DOMAIN old \/ i = Len(old) + 1
      /\ Len(old) + 1 \in DOMAIN new /\ new[Len(old) + 1] = x
  <2>1. old \in Seq(Message) /\ new = PushBack(old, x)
    BY <1>2
  <2> HIDE DEF x, old, new
  <2>2. \A s \in Seq(Message) : \A y \in Message :
          /\ PushBack(s, y) \in Seq(Message)
          /\ \A i \in DOMAIN s : i \in DOMAIN PushBack(s, y) /\ PushBack(s, y)[i] = s[i]
          /\ \A i \in DOMAIN PushBack(s, y) : i \in DOMAIN s \/ i = Len(s) + 1
          /\ Len(s) + 1 \in DOMAIN PushBack(s, y)
          /\ PushBack(s, y)[Len(s) + 1] = y
    BY PushBackAdds, Zenon
  <2> QED BY <1>1, <2>1, <2>2
<1>5. /\ Held = [s \in Procs |-> {queue[s][i] : i \in DOMAIN queue[s]}]
      /\ Held' = [s \in Procs |-> {queue'[s][i] : i \in DOMAIN queue'[s]}]
  BY DEF Held
<1> HIDE DEF x, old, new
<1>6. queue' \in [Procs -> Seq(Message)]
  BY <1>2, <1>4
<1>7. \A i \in DOMAIN old : old[i].id # x.id
  <2>1. \A i \in DOMAIN old : old[i] \in Held[q]
    BY <1>5 DEF old
  <2>2. \A y \in Held[q] : y.id <= lastMsgId /\ y.id \in Nat
    <3>1. \A y \in Held[q] : y.id <= lastMsgId
      BY DEF MessagesInv, Placed, IdsAreOld
    <3>2. Held[q] \subseteq Message
      BY <1>2, <1>5
    <3> QED BY <3>1, <3>2 DEF Message
  <2> QED BY <1>1, <2>1, <2>2 DEF MessagesInv, Typed
<1>8. \A s \in Procs : IdsDiffer(queue'[s])
  <2>1. \A s \in Procs : IdsDiffer(queue[s])
    BY DEF MessagesInv
  <2>2. IdsDiffer(new)
    <3>1. IdsDiffer(old)
      BY <2>1 DEF old
    <3> QED BY <1>4, <1>7, <3>1 DEF IdsDiffer
  <2> QED BY <1>2, <2>1, <2>2
<1>9. {new[i] : i \in DOMAIN new} = {old[i] : i \in DOMAIN old} \cup {x}
  BY <1>4
<1>10. \A s \in Procs : Held'[s] = IF s = q THEN Held[q] \cup {x} ELSE Held[s]
  <2>1. \A s \in Procs : /\ Held[s] = {queue[s][i] : i \in DOMAIN queue[s]}
                          /\ Held'[s] = {queue'[s][i] : i \in DOMAIN queue'[s]}
    BY <1>5
  <2>2. Held'[q] = Held[q] \cup {x}
    <3>1. queue'[q] = new /\ queue[q] = old
      BY <1>2 DEF old
    <3>2. Held'[q] = {new[i] : i \in DOMAIN new} /\ Held[q] = {old[i] : i \in DOMAIN old}
      BY <2>1, <3>1
    <3> QED BY <1>9, <3>2
  <2>3. ASSUME NEW s \in Procs \ {q} PROVE Held'[s] = Held[s]
    <3>1. queue'[s] = queue[s]
      BY <1>2
    <3>2. /\ Held[s] = {queue[s][i] : i \in DOMAIN queue[s]}
          /\ Held'[s] = {queue'[s][i] : i \in DOMAIN queue'[s]}
      BY <2>1
    <3> QED BY <3>1, <3>2
  <2> QED BY <2>2, <2>3
<1>11. Held \in Holding /\ Held' \in Holding
  BY <1>2, <1>5, <1>6 DEF Holding
<1>12. ASSUME NEW s \in Procs
       PROVE  /\ waiting'[s] => /\ call[s] # NoCall
                                /\ Matching(queue'[s], call[s].reply_to) = {}
                                /\ call[s].reply_to = 0 => outstanding[s] = {}
              /\ ~waiting'[s] /\ call[s] # NoCall =>
                   Matching(queue'[s], call[s].reply_to) # {}
  <2>1. /\ waiting[s] => /\ call[s] # NoCall
                         /\ Matching(queue[s], call[s].reply_to) = {}
                         /\ call[s].reply_to = 0 => outstanding[s] = {}
        /\ ~waiting[s] /\ call[s] # NoCall => Matching(queue[s], call[s].reply_to) # {}
    BY DEF MessagesInv, ProbesAreFormed
  <2>2. CASE s # q
    <3>1. queue'[s] = queue[s]
      BY <1>2, <2>2
    <3>2. waiting'[s] = waiting[s]
      BY <1>3, <2>2
    <3> QED BY <2>1, <3>1, <3>2, Zenon
  <2>3. CASE s = q
    <3>1. queue[s] = old /\ queue'[s] = new
      BY <1>2, <2>3 DEF old
    <3>2. ASSUME waiting'[s]
          PROVE  /\ call[s] # NoCall
                 /\ Matching(new, call[s].reply_to) = {}
                 /\ call[s].reply_to = 0 => outstanding[s] = {}
      <4>1. waiting[s] /\ ~IsReleasedBy(call[s], r)
        BY <1>3, <2>3, <3>2, Zenon
      <4>2. /\ call[s] # NoCall
            /\ Matching(old, call[s].reply_to) = {}
            /\ call[s].reply_to = 0 => outstanding[s] = {}
        BY <2>1, <3>1, <4>1, Zenon
      <4>3. PICK c \in Nat : call[s] = ProbeQueueCall(c)
        BY <4>2 DEF MessagesInv, Typed
      <4>4. call[s].reply_to = c /\ c # r
        BY <4>1, <4>3 DEF IsReleasedBy, ProbeQueueCall
      <4>5. c # 0
        <5> SUFFICES ASSUME c = 0 PROVE FALSE
          OBVIOUS
        <5> QED BY <2>3, <4>2, <4>4
      <4>6. Matching(new, c) = {}
        BY <1>1, <1>4, <4>2, <4>4, <4>5 DEF Matching
      <4> QED BY <4>2, <4>4, <4>6
    <3>3. ASSUME ~waiting'[s], call[s] # NoCall
          PROVE  Matching(new, call[s].reply_to) # {}
      <4>1. CASE waiting[s]
        <5>1. IsReleasedBy(call[s], r)
          BY <1>3, <2>3, <3>3, <4>1, Zenon
        <5>2. call[s].reply_to = r
          BY <5>1 DEF IsReleasedBy, ProbeQueueCall
        <5> QED BY <1>1, <1>4, <5>2 DEF Matching
      <4>2. CASE ~waiting[s]
        <5>1. Matching(old, call[s].reply_to) # {}
          BY <2>1, <3>1, <3>3, <4>2, Zenon
        <5> QED BY <1>4, <5>1 DEF Matching
      <4> QED BY <4>1, <4>2
    <3> QED BY <3>1, <3>2, <3>3, Zenon
  <2> QED BY <2>2, <2>3
<1> QED BY <1>1, <1>3, <1>6, <1>8, <1>10, <1>11, <1>12 DEF x, Sent, Joins

LEMMA InitInv == Init => MessagesInv
<1> SUFFICES ASSUME Init PROVE MessagesInv
  OBVIOUS
<1>1. Typed
  BY DEF Init, Typed, Requests, Debts
<1>2. \A p \in Procs : Held[p] = {} /\ outstanding[p] = {} /\ owed[p] = {}
  BY DEF Init, Held
<1>3. Placed(Held, lastMsgId, outstanding, owed)
  BY <1>2 DEF Placed, IdsAreOld, OutstandingDiffer, RequestsAreOutstanding,
     DebtsAreOutstanding, AnswersAreOutstanding, OutstandingAreSomewhere
<1>4. /\ \A p \in Procs : IdsDiffer(queue[p])
      /\ info \in [Procs -> Message \cup {NoItem}]
      /\ ProbedIsHeld
      /\ ProbesAreFormed
  BY DEF Init, IdsDiffer, ProbedIsHeld, ProbesAreFormed
<1> QED BY <1>1, <1>3, <1>4 DEF MessagesInv

\* What has been probed stays in its queue when others join it.
LEMMA SendKeepsProbed ==
  ASSUME MessagesInv, NEW q \in Procs, NEW x, Sent(x, q), info' = info
  PROVE  info' \in [Procs -> Message \cup {NoItem}] /\ ProbedIsHeld'
BY DEF MessagesInv, ProbedIsHeld, Sent, Joins

LEMMA RequestKeepsInv ==
  ASSUME MessagesInv, NEW p \in Procs, NEW q \in Procs, Request(p, q)
  PROVE  MessagesInv'
<1> DEFINE x == Item(lastMsgId + 1, p, 0, "request")
<1>1. Sent(x, q)
  <2>1. SendQueue(p, q, 0, "request")
    BY DEF Request
  <2> QED BY <2>1, SendQueueSends
<1>2. /\ lastMsgId \in Nat /\ lastMsgId' = lastMsgId + 1 /\ panic' = FALSE
      /\ outstanding \in Requests /\ owed \in Debts
      /\ info' = info /\ owed' = owed /\ call[p] = NoCall
      /\ call \in [Procs -> {NoCall} \cup {ProbeQueueCall(r) : r \in Nat}]
      /\ Placed(Held, lastMsgId, outstanding, owed)
  BY DEF Request, SendQueue, InUserMode, MessagesInv, Typed
<1>3. Opens([id |-> lastMsgId + 1, to |-> q], p, outstanding, outstanding')
  BY <1>2 DEF Request, NextMsgId, Requests, Opens
<1>4. x.id = lastMsgId + 1 /\ x.from = p /\ x.reply_to = 0 /\ x.data = "request"
  BY DEF Item
<1> HIDE DEF x
<1>5. Placed(Held', lastMsgId + 1, outstanding', owed)
  <2>1. Joins(x, q, Held, Held') /\ Held \in Holding
    BY <1>1 DEF Sent, Joins
  <2> QED BY <2>1, <1>2, <1>3, <1>4, PlacedRequest, Zenon
<1>6. Typed'
  BY <1>1, <1>2, <1>3 DEF Typed, Sent, Opens
<1>7. ProbesAreFormed'
  BY <1>1, <1>2, <1>3 DEF ProbesAreFormed, Sent, Opens
<1>8. info' \in [Procs -> Message \cup {NoItem}] /\ ProbedIsHeld'
  BY <1>1, <1>2, SendKeepsProbed
<1> QED BY <1>1, <1>2, <1>5, <1>6, <1>7, <1>8 DEF MessagesInv, Sent

LEMMA NotifyKeepsInv ==
  ASSUME MessagesInv, NEW p \in Procs, NEW q \in Procs, Notify(p, q)
  PROVE  MessagesInv'
<1> DEFINE x == Item(lastMsgId + 1, p, 0, "notice")
<1>1. Sent(x, q)
  <2>1. SendQueue(p, q, 0, "notice")
    BY DEF Notify
  <2> QED BY <2>1, SendQueueSends
<1>2. /\ lastMsgId \in Nat /\ lastMsgId' = lastMsgId + 1 /\ panic' = FALSE
      /\ outstanding \in Requests /\ owed \in Debts
      /\ info' = info /\ owed' = owed /\ outstanding' = outstanding
      /\ call \in [Procs -> {NoCall} \cup {ProbeQueueCall(r) : r \in Nat}]
      /\ Placed(Held, lastMsgId, outstanding, owed)
  BY DEF Notify, SendQueue, MessagesInv, Typed
<1>3. x.id = lastMsgId + 1 /\ x.from = p /\ x.reply_to = 0 /\ x.data = "notice"
  BY DEF Item
<1> HIDE DEF x
<1>4. Placed(Held', lastMsgId + 1, outstanding, owed)
  <2>1. Joins(x, q, Held, Held') /\ Held \in Holding
    BY <1>1 DEF Sent, Joins
  <2> QED BY <2>1, <1>2, <1>3, PlacedNotice, Zenon
<1>5. Typed'
  BY <1>1, <1>2 DEF Typed, Sent
<1>6. ProbesAreFormed'
  BY <1>1, <1>2 DEF ProbesAreFormed, Sent
<1>7. info' \in [Procs -> Message \cup {NoItem}] /\ ProbedIsHeld'
  BY <1>1, <1>2, SendKeepsProbed
<1> QED BY <1>1, <1>2, <1>4, <1>5, <1>6, <1>7 DEF MessagesInv, Sent

LEMMA ReplyKeepsInv ==
  ASSUME MessagesInv, NEW p \in Procs, NEW r \in owed[p], Reply(p, r)
  PROVE  MessagesInv'
<1> DEFINE x == Item(lastMsgId + 1, p, r.id, "reply")
<1>1. /\ lastMsgId \in Nat /\ lastMsgId' = lastMsgId + 1 /\ panic' = FALSE
      /\ outstanding \in Requests /\ owed \in Debts
      /\ info' = info /\ outstanding' = outstanding
      /\ call \in [Procs -> {NoCall} \cup {ProbeQueueCall(c) : c \in Nat}]
      /\ Placed(Held, lastMsgId, outstanding, owed)
  BY DEF Reply, SendQueue, MessagesInv, Typed
<1>2. r.from \in Procs /\ r.id \in Nat /\ r = [id |-> r.id, from |-> r.from]
  BY <1>1 DEF Debts
<1>3. Sent(x, r.from)
  <2>1. outstanding[r.from] # {}
    BY <1>1, <1>2, ZenonT(40) DEF Placed, DebtsAreOutstanding
  <2>2. SendQueue(p, r.from, r.id, "reply")
    BY DEF Reply
  <2> QED BY <1>2, <2>1, <2>2, SendQueueSends
<1>4. Pays([id |-> r.id, from |-> r.from], p, owed, owed')
  BY <1>1, <1>2 DEF Reply, Debts, Pays
<1>5. x.id = lastMsgId + 1 /\ x.from = p /\ x.reply_to = r.id /\ x.data = "reply"
  BY DEF Item
<1> HIDE DEF x
<1>6. Placed(Held', lastMsgId + 1, outstanding, owed')
  <2>1. Joins(x, r.from, Held, Held') /\ Held \in Holding
    BY <1>3 DEF Sent, Joins
  <2> QED BY <2>1, <1>1, <1>2, <1>4, <1>5, PlacedReply, Zenon
<1>7. Typed'
  BY <1>1, <1>3, <1>4 DEF Typed, Sent, Pays
<1>8. ProbesAreFormed'
  BY <1>1, <1>3 DEF ProbesAreFormed, Sent
<1>9. info' \in [Procs -> Message \cup {NoItem}] /\ ProbedIsHeld'
  BY <1>1, <1>2, <1>3, SendKeepsProbed
<1> QED BY <1>1, <1>3, <1>6, <1>7, <1>8, <1>9 DEF MessagesInv, Sent

\* Where queues, counters and requests stay as they are, so does where messages
\* are.
LEMMA PlacesStay ==
  ASSUME MessagesInv, UNCHANGED <<queue, lastMsgId, outstanding, owed>>
  PROVE  /\ Placed(Held, lastMsgId, outstanding, owed)'
         /\ (\A p \in Procs : IdsDiffer(queue[p]))'
         /\ Held' = Held
<1>1. Held' = Held
  BY DEF Held
<1>2. Placed(Held', lastMsgId', outstanding', owed')
  BY <1>1 DEF MessagesInv
<1>3. \A p \in Procs : IdsDiffer(queue'[p])
  BY DEF MessagesInv
<1> QED BY <1>1, <1>2, <1>3

LEMMA ProbeFindsKeepsInv ==
  ASSUME MessagesInv, NEW p \in Procs, NEW r \in Nat, ProbeFinds(p, r)
  PROVE  MessagesInv'
<1>1. /\ UNCHANGED <<queue, lastMsgId, outstanding, owed, waiting, call, panic>>
      /\ info' = [info EXCEPT ![p] = Probed(queue[p], r)]
      /\ Matching(queue[p], r) # {}
  BY DEF ProbeFinds, kernelVars, Blocks, ProbeQueueCall
<1>2. queue[p] \in Seq(Message) /\ info \in [Procs -> Message \cup {NoItem}]
  BY DEF MessagesInv, Typed
<1>3. PICK k \in DOMAIN queue[p] : Probed(queue[p], r) = queue[p][k]
  BY <1>1, <1>2, ProbedIsThere
<1>4. queue[p][k] \in Message /\ queue[p][k] \in Held[p]
  BY <1>2 DEF Held
<1>5. Typed' /\ ProbesAreFormed'
  BY <1>1 DEF MessagesInv, Typed, ProbesAreFormed
<1>6. info' \in [Procs -> Message \cup {NoItem}] /\ ProbedIsHeld'
  BY <1>1, <1>2, <1>3, <1>4, PlacesStay DEF MessagesInv, ProbedIsHeld
<1> QED BY <1>1, <1>5, <1>6, PlacesStay DEF MessagesInv

LEMMA ProbeBlocksKeepsInv ==
  ASSUME MessagesInv, NEW p \in Procs, NEW r \in Nat, ProbeBlocks(p, r)
  PROVE  MessagesInv'
<1>1. /\ UNCHANGED <<queue, lastMsgId, outstanding, owed, panic, info>>
      /\ waiting' = [waiting EXCEPT ![p] = TRUE]
      /\ call' = [call EXCEPT ![p] = ProbeQueueCall(r)]
      /\ Matching(queue[p], r) = {}
      /\ r = 0 => outstanding[p] = {}
  BY DEF ProbeBlocks, Blocks, ProbeQueueCall, MayProbe
<1>2. /\ waiting \in [Procs -> BOOLEAN]
      /\ call \in [Procs -> {NoCall} \cup {ProbeQueueCall(c) : c \in Nat}]
  BY DEF MessagesInv, Typed
<1>3. ProbeQueueCall(r) # NoCall /\ ProbeQueueCall(r).reply_to = r
  BY DEF ProbeQueueCall, NoCall
<1>4. Typed'
  BY <1>1, <1>2 DEF MessagesInv, Typed
<1>5. ProbesAreFormed'
  <2> SUFFICES ASSUME NEW s \in Procs
               PROVE  /\ waiting'[s] =>
                           /\ call'[s] # NoCall
                           /\ Matching(queue'[s], call'[s].reply_to) = {}
                           /\ call'[s].reply_to = 0 => outstanding'[s] = {}
                      /\ ~waiting'[s] /\ call'[s] # NoCall =>
                           Matching(queue'[s], call'[s].reply_to) # {}
    BY DEF ProbesAreFormed
  <2>1. CASE s = p
    BY <1>1, <1>2, <1>3, <2>1
  <2>2. CASE s # p
    <3>1. waiting'[s] = waiting[s] /\ call'[s] = call[s]
      BY <1>1, <1>2, <2>2
    <3>2. queue'[s] = queue[s] /\ outstanding'[s] = outstanding[s]
      BY <1>1
    <3>3. /\ waiting[s] => /\ call[s] # NoCall
                           /\ Matching(queue[s], call[s].reply_to) = {}
                           /\ call[s].reply_to = 0 => outstanding[s] = {}
          /\ ~waiting[s] /\ call[s] # NoCall => Matching(queue[s], call[s].reply_to) # {}
      BY DEF MessagesInv, ProbesAreFormed
    <3> QED BY <3>1, <3>2, <3>3, Zenon
  <2> QED BY <2>1, <2>2
<1>6. info' \in [Procs -> Message \cup {NoItem}] /\ ProbedIsHeld'
  BY <1>1, PlacesStay DEF MessagesInv, ProbedIsHeld
<1> QED BY <1>1, <1>4, <1>5, <1>6, PlacesStay DEF MessagesInv

\* A resumed call finds its message.
LEMMA ResumeKeepsInv ==
  ASSUME MessagesInv, NEW p \in Procs, Resume(p)
  PROVE  MessagesInv'
<1>1. /\ UNCHANGED <<queue, lastMsgId, outstanding, owed, waiting>>
      /\ ~waiting[p] /\ call[p] # NoCall
      /\ call' = [call EXCEPT ![p] = NoCall]
  BY DEF Resume
<1>2. Matching(queue[p], call[p].reply_to) # {}
  BY <1>1 DEF MessagesInv, ProbesAreFormed
<1>3. info' = [info EXCEPT ![p] = Probed(queue[p], call[p].reply_to)] /\ panic' = panic
  BY <1>2 DEF Resume, Blocks
<1>4. /\ queue[p] \in Seq(Message) /\ info \in [Procs -> Message \cup {NoItem}]
      /\ waiting \in [Procs -> BOOLEAN]
      /\ call \in [Procs -> {NoCall} \cup {ProbeQueueCall(c) : c \in Nat}]
  BY DEF MessagesInv, Typed
<1>5. PICK k \in DOMAIN queue[p] : Probed(queue[p], call[p].reply_to) = queue[p][k]
  BY <1>2, <1>4, ProbedIsThere
<1>6. queue[p][k] \in Message /\ queue[p][k] \in Held[p]
  BY <1>4 DEF Held
<1>7. Typed'
  BY <1>1, <1>3, <1>4 DEF MessagesInv, Typed
<1>8. ProbesAreFormed'
  <2> SUFFICES ASSUME NEW s \in Procs
               PROVE  /\ waiting'[s] =>
                           /\ call'[s] # NoCall
                           /\ Matching(queue'[s], call'[s].reply_to) = {}
                           /\ call'[s].reply_to = 0 => outstanding'[s] = {}
                      /\ ~waiting'[s] /\ call'[s] # NoCall =>
                           Matching(queue'[s], call'[s].reply_to) # {}
    BY DEF ProbesAreFormed
  <2>1. CASE s = p
    BY <1>1, <1>4, <2>1
  <2>2. CASE s # p
    <3>1. call'[s] = call[s]
      BY <1>1, <1>4, <2>2
    <3>2. queue'[s] = queue[s] /\ outstanding'[s] = outstanding[s] /\ waiting' = waiting
      BY <1>1
    <3>3. /\ waiting[s] => /\ call[s] # NoCall
                           /\ Matching(queue[s], call[s].reply_to) = {}
                           /\ call[s].reply_to = 0 => outstanding[s] = {}
          /\ ~waiting[s] /\ call[s] # NoCall => Matching(queue[s], call[s].reply_to) # {}
      BY DEF MessagesInv, ProbesAreFormed
    <3> QED BY <3>1, <3>2, <3>3, Zenon
  <2> QED BY <2>1, <2>2
<1>9. info' \in [Procs -> Message \cup {NoItem}] /\ ProbedIsHeld'
  BY <1>1, <1>3, <1>4, <1>5, <1>6, PlacesStay DEF MessagesInv, ProbedIsHeld
<1> QED BY <1>1, <1>7, <1>8, <1>9, PlacesStay DEF MessagesInv

LEMMA ShiftQueueKeepsInv ==
  ASSUME MessagesInv, NEW p \in Procs, ShiftQueue(p)
  PROVE  MessagesInv'
<1> DEFINE x == info[p]
           u == Removed(queue[p], x.id)
<1>1. /\ UNCHANGED <<lastMsgId, waiting, call, panic>>
      /\ call[p] = NoCall /\ ~waiting[p] /\ x # NoItem
      /\ queue' = [queue EXCEPT ![p] = u]
      /\ info' = [info EXCEPT ![p] = NoItem]
      /\ outstanding' = [outstanding EXCEPT ![p] = {m \in outstanding[p] : m.id # x.reply_to}]
  BY DEF ShiftQueue, InUserMode
<1>2. /\ queue \in [Procs -> Seq(Message)] /\ queue[p] \in Seq(Message)
      /\ info \in [Procs -> Message \cup {NoItem}]
      /\ waiting \in [Procs -> BOOLEAN] /\ lastMsgId \in Nat
      /\ outstanding \in Requests /\ owed \in Debts
      /\ Placed(Held, lastMsgId, outstanding, owed)
      /\ IdsDiffer(queue[p])
  BY DEF MessagesInv, Typed
<1>3. Held = [s \in Procs |-> {queue[s][i] : i \in DOMAIN queue[s]}]
  BY DEF Held
<1>4. x \in Held[p]
  BY <1>1 DEF MessagesInv, ProbedIsHeld
<1>5. PICK k \in DOMAIN queue[p] : x = queue[p][k]
  BY <1>3, <1>4
<1>6. /\ u \in Seq(Message) /\ IdsDiffer(u)
      /\ {u[i] : i \in DOMAIN u} = {queue[p][i] : i \in DOMAIN queue[p]} \ {queue[p][k]}
  <2>1. u = Removed(queue[p], queue[p][k].id)
    BY <1>5
  <2> HIDE DEF u
  <2> QED BY <1>2, <2>1, RemovedRemoves, ZenonT(40)
<1>7. \A y \in Held[p] : y.id = x.id => y = x
  BY <1>2, <1>3, <1>5 DEF IdsDiffer
<1>8. x \in Message
  BY <1>2, <1>5
<1> HIDE DEF u
<1>9. /\ Held' = [s \in Procs |-> {queue'[s][i] : i \in DOMAIN queue'[s]}]
      /\ queue' \in [Procs -> Seq(Message)]
      /\ queue'[p] = u /\ \A s \in Procs \ {p} : queue'[s] = queue[s]
  BY <1>1, <1>2, <1>6 DEF Held
<1>10. Leaves(x, p, Held, Held') /\ Held \in Holding
  <2>1. Held'[p] = {u[i] : i \in DOMAIN u}
    BY <1>9
  <2>2. Held'[p] = Held[p] \ {x}
    BY <2>1, <1>3, <1>5, <1>6
  <2>3. \A s \in Procs \ {p} : Held'[s] = Held[s]
    BY <1>3, <1>9
  <2>4. Held \in Holding /\ Held' \in Holding
    BY <1>2, <1>3, <1>9 DEF Holding
  <2> QED BY <1>4, <1>7, <2>2, <2>3, <2>4 DEF Leaves
<1>11. Closes(x.reply_to, p, outstanding, outstanding')
  BY <1>1, <1>2 DEF Requests, Closes
<1>12. Incurs(x, p, owed, owed')
  <2>1. CASE x.data = "request"
    <3>1. owed' = [owed EXCEPT ![p] = owed[p] \cup {[id |-> x.id, from |-> x.from]}]
      BY <2>1 DEF ShiftQueue
    <3> QED BY <1>2, <1>8, <2>1, <3>1, SMTT(30) DEF Debts, Message, Incurs
  <2>2. CASE x.data # "request"
    <3>1. owed' = owed
      BY <2>2 DEF ShiftQueue
    <3> QED BY <1>2, <2>2, <3>1 DEF Incurs
  <2> QED BY <2>1, <2>2
<1> HIDE DEF x
<1>13. Placed(Held', lastMsgId, outstanding', owed')
  BY <1>2, <1>10, <1>11, <1>12, PlacedShift, Zenon
<1>14. \A s \in Procs : IdsDiffer(queue'[s])
  BY <1>6, <1>9 DEF MessagesInv
<1>15. Typed'
  BY <1>1, <1>9, <1>11, <1>12 DEF MessagesInv, Typed, Closes, Incurs
<1>16. ProbesAreFormed'
  <2> SUFFICES ASSUME NEW s \in Procs
               PROVE  /\ waiting'[s] =>
                           /\ call'[s] # NoCall
                           /\ Matching(queue'[s], call'[s].reply_to) = {}
                           /\ call'[s].reply_to = 0 => outstanding'[s] = {}
                      /\ ~waiting'[s] /\ call'[s] # NoCall =>
                           Matching(queue'[s], call'[s].reply_to) # {}
    BY DEF ProbesAreFormed
  <2>1. waiting' = waiting /\ call' = call
    BY <1>1
  <2>2. CASE s = p
    BY <1>1, <2>1, <2>2, Zenon
  <2>3. CASE s # p
    <3>1. queue'[s] = queue[s] /\ outstanding'[s] = outstanding[s]
      BY <1>9, <1>11, <2>3 DEF Closes
    <3>2. /\ waiting[s] => /\ call[s] # NoCall
                           /\ Matching(queue[s], call[s].reply_to) = {}
                           /\ call[s].reply_to = 0 => outstanding[s] = {}
          /\ ~waiting[s] /\ call[s] # NoCall => Matching(queue[s], call[s].reply_to) # {}
      BY DEF MessagesInv, ProbesAreFormed
    <3> QED BY <2>1, <3>1, <3>2, Zenon
  <2> QED BY <2>2, <2>3
<1>17. info' \in [Procs -> Message \cup {NoItem}] /\ ProbedIsHeld'
  BY <1>1, <1>2, <1>10 DEF MessagesInv, ProbedIsHeld, Leaves
<1> QED BY <1>1, <1>13, <1>14, <1>15, <1>16, <1>17 DEF MessagesInv

\* An exit leaves the rest as it is.
LEMMA OthersKeepInv ==
  ASSUME MessagesInv,
         UNCHANGED <<queue, lastMsgId, waiting, call, panic, info, outstanding, owed>>
  PROVE  MessagesInv'
<1>1. Typed' /\ ProbesAreFormed' /\ info' \in [Procs -> Message \cup {NoItem}]
  BY DEF MessagesInv, Typed, ProbesAreFormed
<1>2. ProbedIsHeld'
  BY PlacesStay DEF MessagesInv, ProbedIsHeld
<1> QED BY <1>1, <1>2, PlacesStay DEF MessagesInv

LEMMA NextKeepsInv == MessagesInv /\ [Next]_vars => MessagesInv'
<1> SUFFICES ASSUME MessagesInv, [Next]_vars PROVE MessagesInv'
  OBVIOUS
<1>1. CASE UNCHANGED vars
  BY <1>1, OthersKeepInv DEF vars, kernelVars
<1>2. CASE Next
  <2>1. PICK p \in Procs :
          \/ \E q \in Procs : Request(p, q) \/ Notify(p, q)
          \/ \E r \in owed[p] : Reply(p, r)
          \/ \E r \in 0 .. MaxMessages : ProbeFinds(p, r) \/ ProbeBlocks(p, r)
          \/ Resume(p)
          \/ ShiftQueue(p)
          \/ Exit(p)
    BY <1>2 DEF Next
  <2>2. CASE \E q \in Procs : Request(p, q) \/ Notify(p, q)
    BY <2>2, RequestKeepsInv, NotifyKeepsInv
  <2>3. CASE \E r \in owed[p] : Reply(p, r)
    BY <2>3, ReplyKeepsInv
  <2>4. CASE \E r \in 0 .. MaxMessages : ProbeFinds(p, r) \/ ProbeBlocks(p, r)
    <3>1. 0 .. MaxMessages \subseteq Nat
      BY MaxMessagesAssumption
    <3> QED BY <2>4, <3>1, ProbeFindsKeepsInv, ProbeBlocksKeepsInv
  <2>5. CASE Resume(p)
    BY <2>5, ResumeKeepsInv
  <2>6. CASE ShiftQueue(p)
    BY <2>6, ShiftQueueKeepsInv
  <2>7. CASE Exit(p)
    BY <2>7, OthersKeepInv DEF Exit
  <2> QED BY <2>1, <2>2, <2>3, <2>4, <2>5, <2>6, <2>7
<1> QED BY <1>1, <1>2

-----------------------------------------------------------------------------
(* The theorems.                                                           *)

\* Messages are in one place at a time, for ever.
THEOREM MessagesKeepInv == Spec => []MessagesInv
BY InitInv, NextKeepsInv, PTL DEF Spec

\* Nobody waits for a message that is in its queue, and a released probe finds
\* its message, whatever the order of sends, probes and shifts.
THEOREM NobodyProbesInVain == Spec => []NoProbeInVain
<1>1. MessagesInv => NoProbeInVain
  <2> SUFFICES ASSUME MessagesInv PROVE NoProbeInVain
    OBVIOUS
  <2>1. ~panic
    BY DEF MessagesInv, Typed
  <2>2. \A p \in Procs : waiting[p] => Blocks(call[p], queue[p])
    BY DEF MessagesInv, ProbesAreFormed, Blocks
  <2> QED BY <2>1, <2>2 DEF NoProbeInVain
<1> QED BY <1>1, MessagesKeepInv, PTL

AliveExist == alive \subseteq Procs

\* Every reply in a queue is from the process that was asked, to a request that
\* is outstanding.
THEOREM RepliesReachRequests == Spec => []RepliesAnswer
<1>1. MessagesInv /\ AliveExist => RepliesAnswer
  <2> SUFFICES ASSUME MessagesInv, AliveExist, NEW p \in Procs, NEW i \in DOMAIN queue[p],
                      queue[p][i].reply_to # 0
               PROVE  [id |-> queue[p][i].reply_to, to |-> queue[p][i].from] \in outstanding[p]
    BY DEF RepliesAnswer, AliveExist
  <2>1. queue[p][i] \in Held[p]
    BY DEF Held
  <2> QED BY <2>1 DEF MessagesInv, Placed, AnswersAreOutstanding
<1>2. Spec => []AliveExist
  <2>1. Init => AliveExist
    BY DEF Init, AliveExist
  <2>2. AliveExist /\ [Next]_vars => AliveExist'
    <3> SUFFICES ASSUME AliveExist, [Next]_vars PROVE AliveExist'
      OBVIOUS
    <3>1. alive' = alive \/ \E p \in Procs : alive' = alive \ {p}
      BY DEF Next, vars, kernelVars, Request, Notify, Reply, SendQueue, ProbeFinds,
         ProbeBlocks, Resume, ShiftQueue, Exit
    <3> QED BY <3>1 DEF AliveExist
  <2> QED BY <2>1, <2>2, PTL DEF Spec
<1> QED BY <1>1, <1>2, MessagesKeepInv, PTL

\* An outstanding request is in one place, once.
THEOREM RequestsAreNotLost == Spec => []RequestsAreKept
<1>1. MessagesInv => RequestsAreKept
  <2> SUFFICES ASSUME MessagesInv, NEW p \in Procs, NEW m \in outstanding[p]
               PROVE  \/ QueuedAt(p, m) # {} /\ ~IsOwed(p, m) /\ AnsweredAt(p, m) = {}
                      \/ QueuedAt(p, m) = {} /\ IsOwed(p, m) /\ AnsweredAt(p, m) = {}
                      \/ /\ QueuedAt(p, m) = {} /\ ~IsOwed(p, m)
                         /\ \E i \in DOMAIN queue[p] : AnsweredAt(p, m) = {i}
    BY DEF RequestsAreKept
  <2>1. /\ m.id \in Nat /\ m.to \in Procs /\ m = [id |-> m.id, to |-> m.to]
        /\ m.id > 0
    <3>1. outstanding \in Requests
      BY DEF MessagesInv, Typed
    <3>2. m.id > 0
      BY DEF MessagesInv, Placed, IdsAreOld
    <3> QED BY <3>1, <3>2 DEF Requests
  <2> DEFINE k == m.id
             q == m.to
  <2>2. /\ [id |-> k, to |-> q] \in outstanding[p] /\ k \in Nat /\ k # 0 /\ q \in Procs
        /\ Placed(Held, lastMsgId, outstanding, owed)
        /\ \A s \in Procs : IdsDiffer(queue[s])
    BY <2>1 DEF MessagesInv
  <2>3. \A s \in Procs : /\ \A i \in DOMAIN queue[s] : queue[s][i] \in Held[s]
                         /\ \A x \in Held[s] : \E i \in DOMAIN queue[s] : x = queue[s][i]
    BY DEF Held
  <2>4. \A s \in Procs : Held[s] \subseteq Message
    BY DEF MessagesInv, Typed, Held
  <2>5. /\ QueuedAt(p, m) = {i \in DOMAIN queue[q] : queue[q][i].id = k /\ queue[q][i].from = p}
        /\ AnsweredAt(p, m) = {i \in DOMAIN queue[p] : queue[p][i].reply_to = k}
        /\ IsOwed(p, m) = ([id |-> k, from |-> p] \in owed[q])
    BY DEF QueuedAt, AnsweredAt, IsOwed
  <2> HIDE DEF k, q
  \* An answer excludes the other two places.
  <2>6. ASSUME NEW y \in Held[p], y.reply_to = k
        PROVE  /\ \A x \in Held[q] : x.id # k
               /\ [id |-> k, from |-> p] \notin owed[q]
               /\ \A z \in Held[p] : z.reply_to = k => z = y
    <3>1. /\ [id |-> k, to |-> y.from] \in outstanding[p]
          /\ \A x \in Held[y.from] : x.id # k
          /\ [id |-> k, from |-> p] \notin owed[y.from]
          /\ \A z \in Held[p] : z.reply_to = k => z = y
      BY <2>2, <2>6 DEF Placed, AnswersAreOutstanding
    <3>2. y.from \in Procs
      BY <2>4 DEF Message
    <3>3. y.from = q
      BY <2>2, <3>1, <3>2 DEF Placed, OutstandingDiffer
    <3> QED BY <3>1, <3>3
  <2>7. CASE \E y \in Held[p] : y.reply_to = k
    <3>1. PICK y \in Held[p] : y.reply_to = k
      BY <2>7
    <3>2. PICK i \in DOMAIN queue[p] : y = queue[p][i]
      BY <2>3
    <3>3. AnsweredAt(p, m) = {i}
      <4>1. \A j \in DOMAIN queue[p] : queue[p][j].reply_to = k => queue[p][j] = y
        BY <2>3, <2>6, <3>1
      <4>2. \A j \in DOMAIN queue[p] : queue[p][j] = y => j = i
        BY <2>2, <3>2 DEF IdsDiffer
      <4> QED BY <2>5, <3>1, <3>2, <4>1, <4>2
    <3>4. QueuedAt(p, m) = {}
      BY <2>2, <2>3, <2>5, <2>6, <3>1
    <3>5. ~IsOwed(p, m)
      BY <2>5, <2>6, <3>1
    <3> QED BY <3>3, <3>4, <3>5
  <2>8. CASE ~\E y \in Held[p] : y.reply_to = k
    <3>1. AnsweredAt(p, m) = {}
      BY <2>3, <2>5, <2>8
    <3>2. CASE [id |-> k, from |-> p] \in owed[q]
      <4>1. \A x \in Held[q] : x.id # k
        BY <2>2, <3>2 DEF Placed, DebtsAreOutstanding
      <4>2. QueuedAt(p, m) = {}
        BY <2>2, <2>3, <2>5, <4>1
      <4> QED BY <2>5, <3>1, <3>2, <4>2
    <3>3. CASE [id |-> k, from |-> p] \notin owed[q]
      <4>1. PICK x \in Held[q] : x.id = k /\ x.from = p
        BY <2>2, <2>8, <3>3 DEF Placed, OutstandingAreSomewhere
      <4>2. QueuedAt(p, m) # {}
        BY <2>2, <2>3, <2>5, <4>1
      <4> QED BY <2>5, <3>1, <3>3, <4>2
    <3> QED BY <3>2, <3>3
  <2> QED BY <2>7, <2>8
<1> QED BY <1>1, MessagesKeepInv, PTL

-----------------------------------------------------------------------------
(* Memory: what fits.                                                      *)

\* The tables of a directory, the entries of a table, and all pages.
AllTables == 0 .. Tables - 1
Positions == 0 .. Entries - 1
EveryPage == 0 .. Tables * Entries - 1

\* The programs of tasks.
Initial == [name |-> "initial", kind |-> "initial", segments |-> <<>>]
TaskPrograms == AllPrograms \cup {Initial}

\* Whether an address is kept by a table or a directory and will not be handed out again.
Kept == (heap \ others) \ {wand.page}
Taken(a, pl, kept) ==
  /\ a \in Nat \ {0}
  /\ IF pl # 0 THEN a < pl
     ELSE a \div PageSize < HeapStart \/ a \div PageSize \in kept

\* What is allocated: by advancing placement, then in the heap; the wand is a page
\* of the heap, and no table or directory will be handed out again.
AllocationFits ==
  /\ placement \in Nat /\ others \subseteq heap
  /\ placement # 0 => heap = {}
  /\ wand \in [page : Nat, frame : Nat]
  /\ wand # NoWand => wand.page \in (heap \ others) \cap HeapPages
  /\ \A a \in DOMAIN pages \cup DOMAIN directories : Taken(a, placement, Kept)

\* A directory of some tables.
Directory(tables) ==
  [tables : [AllTables -> {0} \cup tables], physicals : [AllTables -> Nat], physicalAddr : Nat]

\* Directories have tables that are there.
SpacesFit ==
  /\ pages \in [DOMAIN pages -> [Positions -> Nat]] /\ IsFiniteSet(DOMAIN pages)
  /\ directories \in [DOMAIN directories -> Directory(DOMAIN pages)]
  /\ kernel \in DOMAIN directories

\* A table is at one place of the directories that have it.
TablesApart ==
  \A d, e \in DOMAIN directories : \A t, u \in AllTables :
    t # u /\ directories[d].tables[t] = directories[e].tables[u] => directories[d].tables[t] = 0

\* The kernel has no table for the pages of tasks.
KernelStaysOut == \A p \in TaskPages : directories[kernel].tables[p \div Entries] = 0

\* A task has a directory of its own, made once paging is on.
TasksFit ==
  /\ tasks \in Seq([directory : Nat, program : TaskPrograms])
  /\ \A i \in DOMAIN tasks : tasks[i].directory \in DOMAIN directories \ {kernel}
  /\ target = IF tasks = <<>> THEN kernel ELSE Last(tasks).directory
  /\ tasks # <<>> => placement = 0
  /\ placement = 0 => active \in DOMAIN directories

-----------------------------------------------------------------------------
(* What the kernel is at.                                                  *)

\* What the kernel does before the first clone, for a task, and for a device.
KernelItem ==
  [do : {"get_page"}, page : HeapPages]
    \cup [do : {"identity_map"}, page : IdentityPages]
    \cup [do : {"map"}, page : HeapPages \cup ToSet(KernelStack)]
    \cup [do : {"paging"}] \cup [do : {"stack"}, size : {TaskKernelStack}]

TaskItem ==
  [do : {"map"}, page : ToSet(TaskStack) \cup ToSet(TaskHeap)]
    \cup [do : {"stack"}, size : {TaskKernelStack}]
    \cup [do : {"arguments", "take_wand", "put_wand_back"}]
    \cup [do : {"copy"}, segment : Nat, copied : Nat]

Devices == UNION {ToSet(s) : s \in DevicePages}
DeviceItem == [do : {"device"}, page : Devices, frame : Nat \ (0 .. FrameCount - 1)]

\* Devices are mapped at a time of their own.
DevicesFit(s) == \A i, j \in DOMAIN s : s[i].do = "device" => s[j].do = "device"

\* A copy is within its segment, and after the first at the start of a page.
CopyFits(item, program) ==
  item.do = "copy" =>
    /\ item.segment \in DOMAIN program.segments
    /\ item.copied < program.segments[item.segment].memsz
    /\ item.copied = 0 \/ (program.segments[item.segment].virt + item.copied) % PageSize = 0

\* Whether what is at hand, or waits, gives the page a frame.
Touches(item, program, p) ==
  \/ item.do = "map" /\ p = item.page
  \/ item.do = "identity_map" /\ item.page <= p /\ p \in IdentityPages
  \/ /\ item.do = "copy"
     /\ (program.segments[item.segment].virt + item.copied) \div PageSize <= p
     /\ p <= (program.segments[item.segment].virt + program.segments[item.segment].memsz - 1)
               \div PageSize

\* No page is given a frame twice.
ItemsApart(s, program) ==
  \A i, j \in DOMAIN s : \A p \in EveryPage :
    Touches(s[i], program, p) /\ Touches(s[j], program, p) => i = j

\* The frame of a page whose table is known.
Frame(pgs, table, p) == IF table = 0 THEN NoFrame ELSE pgs[table][p % Entries]

\* What they give a frame has none.
ItemsUnmapped(s, program, pgs, tables) ==
  \A i \in DOMAIN s : \A p \in EveryPage :
    Touches(s[i], program, p) => Frame(pgs, tables[p \div Entries], p) \in {NoFrame, 0}

\* The wand is taken at k, put back at m, and there are copies in between.
Copies(s, k, m) ==
  \A i \in DOMAIN s : /\ s[i].do = "copy" <=> k < i /\ i < m
                      /\ s[i].do = "take_wand" <=> i = k
                      /\ s[i].do = "put_wand_back" <=> i = m

\* The wand is taken and put back around the copies, or has been taken.
WandFits(s, wd) ==
  \E k, m \in 0 .. Len(s) :
    /\ Copies(s, k, m)
    /\ k > 0 => k < m
    /\ wd # NoWand <=> k = 0 /\ m > 0

\* Until paging there are only tables to be made, and pages to be mapped, of the
\* heap and below.
Unpaged(s) ==
  \E k \in DOMAIN s : /\ s[k].do = "paging"
                      /\ \A i \in 1 .. k - 1 : /\ s[i].do \in {"get_page", "identity_map", "map"}
                                               /\ s[i].page < HeapEnd

\* The identity mapping is the first to take frames, in order.
IdentityFits(s, marked) ==
  \A i \in DOMAIN s :
    s[i].do = "identity_map" => /\ marked \subseteq 0 .. s[i].page - 1
                                /\ \A j \in 1 .. i - 1 : s[j].do = "get_page"

\* Where placement is before the tables are made.
PlacementBase(n) == Aligned(Aligned(KernelEnd + n + BitmapSize) + DirectorySize)
TablesMade == {t \in AllTables : directories[kernel].tables[t] # 0}
LowTables == 0 .. (HeapEnd - 1) \div Entries

\* Placement has advanced by the tables that were made.
PlacementFits ==
  /\ TablesMade \subseteq LowTables
  /\ \E n \in ModuleSizes : placement <= PlacementBase(n) + PageSize * Cardinality(TablesMade)

\* What is at hand can be done, a page at a time.
Bare(s, items, program) ==
  /\ s \in Seq(items)
  /\ \A i \in DOMAIN s : CopyFits(s[i], program)
  /\ ItemsApart(s, program)

\* What is being done, for which program.
TaskProgram == IF tasks = <<>> THEN Initial ELSE Last(tasks).program

Items == IF tasks = <<>> THEN KernelItem ELSE TaskItem \cup DeviceItem

ItemsFit(s) ==
  /\ Bare(s, Items, TaskProgram)
  /\ ItemsUnmapped(s, TaskProgram, pages, directories[target].tables)
  /\ WandFits(s, wand) /\ IdentityFits(s, frames) /\ DevicesFit(s)
  /\ placement # 0 => Unpaged(s) /\ PlacementFits

\* The tasks that are still to be made at boot, from the j-th on.
Rest(j) ==
  FlattenSeq([i \in 1 .. Len(BootPrograms) + 1 - j |-> MakeTask(BootPrograms[j + i - 1])])
    \o <<Do("switch")>>
FirstRest == <<[do |-> "clone", program |-> Initial]>> \o Rest(1)
Rests ==
  {<<>>} \cup {Rest(j) : j \in 1 .. Len(BootPrograms) + 1} \cup {MakeTask(p) : p \in Programs}

\* What may come after what the kernel is at.
Later == IF tasks = <<>> THEN {FirstRest} ELSE Rests

\* What the kernel is at, and what comes later.
Doing(s, rest) == todo = s \o rest /\ rest \in Later /\ ItemsFit(s)
TodoFits == \E s, rest : Doing(s, rest)

\* Before there is a directory.
Early ==
  /\ directories = <<>> /\ pages = <<>> /\ heap = {} /\ others = {} /\ tasks = <<>> /\ wand = NoWand
  /\ frames = {} /\ target = 0
  /\ \E n \in ModuleSizes :
       \/ placement = KernelEnd /\ todo = Boot(n)
       \/ placement = KernelEnd + n /\ todo = Tail(Boot(n))
       \/ placement = KernelEnd + n + BitmapSize /\ todo = Tail(Tail(Boot(n)))

-----------------------------------------------------------------------------
(* Frames.                                                                 *)

\* The entry that the wand has borrowed.
Borrowed ==
  IF wand = NoWand THEN {} ELSE {<<TableOf(active, wand.page), wand.page % Entries>>}

\* The entries that have a frame of the RAM, but for some.
WithFrame(pgs, but) ==
  {e \in (DOMAIN pgs) \X Positions : pgs[e[1]][e[2]] < FrameCount /\ e \notin but}

\* They have one each, which is marked; so is the one that the wand's entry had.
ApartIn(pgs, but, marked, wd) ==
  /\ \A e, f \in WithFrame(pgs, but) : pgs[e[1]][e[2]] = pgs[f[1]][f[2]] => e = f
  /\ \A e \in WithFrame(pgs, but) : pgs[e[1]][e[2]] \in marked
  /\ wd # NoWand /\ wd.frame < FrameCount =>
       /\ wd.frame \in marked
       /\ \A e \in WithFrame(pgs, but) : pgs[e[1]][e[2]] # wd.frame

\* Every entry has a frame of its own.
FramesApart == ApartIn(pages, Borrowed, frames, wand)

\* The inductive invariant: while the machine runs, the kernel is before its first
\* directory, or everything it has and is at fits; and frames stay apart for good.
MemoryInv ==
  /\ halted \in {"no", "no_hole", "no_frames_free"}
  /\ IsFiniteSet(DOMAIN pages)
  /\ FramesApart
  /\ halted = "no" =>
       \/ Early
       \/ AllocationFits /\ SpacesFit /\ TablesApart /\ KernelStaysOut /\ TasksFit /\ TodoFits

-----------------------------------------------------------------------------
(* Quotients.                                                              *)

\* Quotients keep the order of what is divided.
LEMMA QuotientOrder ==
  ASSUME NEW S \in Nat \ {0}, NEW a \in Nat, NEW b \in Nat, a <= b
  PROVE  a \div S <= b \div S
<1> DEFINE p == a \div S
           q == b \div S
<1>1. /\ p \in Nat /\ q \in Nat /\ a % S \in 0 .. S - 1 /\ b % S \in 0 .. S - 1
      /\ a = p * S + (a % S) /\ b = q * S + (b % S)
  BY QuotientAndRest
<1>2. ASSUME q < p PROVE FALSE
  <2>1. (q + 1) * S <= p * S
    BY <1>1, <1>2, ProductOrder
  <2>2. (q + 1) * S = q * S + S
    BY <1>1
  <2> QED BY <1>1, <2>1, <2>2
<1> QED BY <1>1, <1>2

\* A number below a multiple has a quotient below.
LEMMA QuotientBelow ==
  ASSUME NEW S \in Nat \ {0}, NEW a \in Nat, NEW q \in Nat, a < q * S
  PROVE  a \div S < q
<1> DEFINE p == a \div S
<1>1. p \in Nat /\ a % S \in 0 .. S - 1 /\ a = p * S + (a % S)
  BY QuotientAndRest
<1>2. ASSUME q <= p PROVE FALSE
  BY <1>1, <1>2, ProductOrder
<1> QED BY <1>1, <1>2

\* What is aligned is the next multiple of a page.
LEMMA AlignedIs ==
  ASSUME NEW a \in Nat
  PROVE  /\ Aligned(a) \in Nat /\ Aligned(a) >= a /\ Aligned(a) % PageSize = 0
         /\ \A q \in Nat : a <= q * PageSize => Aligned(a) <= q * PageSize
<1>0. PageSize \in Nat \ {0}
  BY MemoryAssumption
<1> DEFINE p == a \div PageSize
           r == a % PageSize
<1>1. p \in Nat /\ r \in 0 .. PageSize - 1 /\ a = p * PageSize + r /\ p * PageSize \in Nat
  <2>1. p \in Nat /\ r \in 0 .. PageSize - 1 /\ a = p * PageSize + r
    BY <1>0, QuotientAndRest
  <2> QED BY <1>0, <2>1, ProductOrder
<1>2. (p + 1) * PageSize = p * PageSize + PageSize /\ ((p + 1) * PageSize) % PageSize = 0
  <2>1. (p + 1) * PageSize = p * PageSize + PageSize
    BY <1>0, <1>1
  <2>2. 0 \in 0 .. PageSize - 1 /\ p + 1 \in Nat
    BY <1>0, <1>1
  <2>3. ((p + 1) * PageSize + 0) % PageSize = 0
    BY <1>0, <2>2, QuotientIs
  <2> QED BY <1>0, <1>1, <2>1, <2>3
<1>3. CASE r = 0
  BY <1>1, <1>3 DEF Aligned
<1>4. CASE r # 0
  <2>1. Aligned(a) = (p + 1) * PageSize
    BY <1>4 DEF Aligned
  <2>2. ASSUME NEW q \in Nat, a <= q * PageSize PROVE (p + 1) * PageSize <= q * PageSize
    <3>1. ~(q <= p)
      <4>1. ASSUME q <= p PROVE FALSE
        <5>1. q * PageSize <= p * PageSize
          BY <1>0, <1>1, <4>1, ProductOrder
        <5>2. q * PageSize \in Nat
          BY <1>0
        <5> QED BY <1>0, <1>1, <1>4, <2>2, <5>1, <5>2
      <4> QED BY <4>1
    <3>2. p + 1 <= q
      BY <1>1, <3>1
    <3> QED BY <1>0, <1>1, <3>2, ProductOrder
  <2> QED BY <1>0, <1>1, <1>2, <2>1, <2>2
<1> QED BY <1>3, <1>4

-----------------------------------------------------------------------------
(* Allocation.                                                             *)

\* What is allocated is a page of its own.
LEMMA AddressesAreNew ==
  ASSUME AllocationFits, NEW n \in Nat \ {0}, NEW a \in Addresses(n)
  PROVE  /\ a \in Nat \ {0} /\ a \div PageSize \in Nat /\ a = (a \div PageSize) * PageSize
         /\ a \notin DOMAIN pages \cup DOMAIN directories
         /\ placement # 0 => a = Aligned(placement) /\ a >= placement
         /\ placement = 0 => a \div PageSize \in HeapPages \ heap
<1>0. PageSize \in Nat \ {0} /\ HeapStart \in Nat \ {0} /\ HeapEnd \in Nat
  BY MemoryAssumption
<1>1. placement \in Nat
  BY DEF AllocationFits
<1>2. CASE placement # 0
  <2>1. a = Aligned(placement)
    BY <1>2 DEF Addresses
  <2>2. a \in Nat /\ a >= placement /\ a % PageSize = 0
    BY <1>1, <2>1, AlignedIs
  <2>3. a \div PageSize \in Nat /\ a = (a \div PageSize) * PageSize + (a % PageSize)
    BY <1>0, <2>2, QuotientAndRest
  <2>4. (a \div PageSize) * PageSize \in Nat
    BY <1>0, <2>3
  <2>5. a = (a \div PageSize) * PageSize
    BY <2>2, <2>3, <2>4
  <2>6. \A b \in DOMAIN pages \cup DOMAIN directories : b < placement
    BY <1>2 DEF AllocationFits, Taken
  <2> QED BY <1>1, <1>2, <2>1, <2>2, <2>3, <2>5, <2>6
<1>3. CASE placement = 0
  <2>1. PICK p \in SmallestHoles(PagesFor(n)) : a = p * PageSize
    BY <1>3 DEF Addresses
  <2>2. p \in HeapPages \ heap
    BY <2>1 DEF SmallestHoles, Holes
  <2>3. p \in Nat \ {0} /\ p >= HeapStart
    BY <1>0, <2>2 DEF HeapPages
  <2>4. a \in Nat /\ a \div PageSize = p
    <3>1. 0 \in 0 .. PageSize - 1 /\ p * PageSize \in Nat
      BY <1>0, <2>3
    <3>2. (p * PageSize + 0) \div PageSize = p
      BY <1>0, <2>3, <3>1, QuotientIs
    <3> QED BY <2>1, <3>1, <3>2
  <2>5. a # 0
    <3>1. 1 * PageSize <= p * PageSize
      BY <1>0, <2>3, ProductOrder
    <3> QED BY <1>0, <2>1, <3>1
  <2>6. ASSUME NEW b \in DOMAIN pages \cup DOMAIN directories, b = a PROVE FALSE
    <3>1. b \div PageSize < HeapStart \/ b \div PageSize \in heap
      BY <1>3 DEF AllocationFits, Taken, Kept
    <3> QED BY <1>0, <2>2, <2>3, <2>4, <2>6, <3>1
  <2> QED BY <1>3, <2>1, <2>2, <2>3, <2>4, <2>5, <2>6
<1> QED BY <1>2, <1>3

\* allocAligned keeps what is taken, and takes what it returns.
LEMMA AllocAlignedTakes ==
  ASSUME AllocationFits, NEW n \in Nat \ {0}, NEW a \in Addresses(n), AllocAligned(n, a),
         others' = others
  PROVE  /\ placement' \in Nat /\ others' \subseteq heap'
         /\ placement' = 0 <=> placement = 0
         /\ placement' # 0 => heap' = {} /\ placement' = Aligned(placement) + n
         /\ heap \subseteq heap'
         /\ wand' = wand \/ (wand = NoWand /\ placement = 0 /\ wand'.page = a \div PageSize) =>
              \A b : Taken(b, placement, Kept) => Taken(b, placement', Kept')
         /\ wand' = wand => Taken(a, placement', Kept')
         /\ placement = 0 => a \div PageSize \in heap'
<1>0. PageSize \in Nat \ {0} /\ HeapStart \in Nat \ {0} /\ HeapEnd \in Nat
  BY MemoryAssumption
<1>1. /\ placement \in Nat /\ others \subseteq heap
      /\ wand # NoWand => wand.page \in (heap \ others) \cap HeapPages
      /\ placement # 0 => heap = {}
  BY DEF AllocationFits
<1>2. /\ a \in Nat \ {0} /\ a \div PageSize \in Nat
      /\ placement # 0 => a = Aligned(placement) /\ a >= placement
      /\ placement = 0 => a \div PageSize \in HeapPages \ heap
  BY AddressesAreNew
<1>3. CASE placement # 0
  <2>1. placement' = a + n /\ heap' = heap
    BY <1>3 DEF AllocAligned
  <2>2. placement' \in Nat /\ placement' # 0 /\ placement <= placement' /\ a < placement'
    BY <1>1, <1>2, <1>3, <2>1
  <2>3. ASSUME NEW b, Taken(b, placement, Kept) PROVE Taken(b, placement', Kept')
    <3>1. b \in Nat \ {0} /\ b < placement
      BY <1>3, <2>3 DEF Taken
    <3> QED BY <1>1, <2>2, <3>1 DEF Taken
  <2>4. Taken(a, placement', Kept')
    BY <1>2, <2>2 DEF Taken
  <2> QED BY <1>1, <1>2, <1>3, <2>1, <2>2, <2>3, <2>4
<1>4. CASE placement = 0
  <2>1. /\ placement' = 0
        /\ heap' = heap \cup (a \div PageSize .. a \div PageSize + PagesFor(n) - 1)
    BY <1>4 DEF AllocAligned
  <2>2. a \div PageSize \in a \div PageSize .. a \div PageSize + PagesFor(n) - 1
    <3>1. Aligned(n) \in Nat /\ Aligned(n) >= n /\ Aligned(n) % PageSize = 0
      BY AlignedIs
    <3>2. /\ Aligned(n) \div PageSize \in Nat
          /\ Aligned(n) = (Aligned(n) \div PageSize) * PageSize + (Aligned(n) % PageSize)
      BY <1>0, <3>1, QuotientAndRest
    <3>3. Aligned(n) \div PageSize # 0
      <4>1. Aligned(n) \div PageSize = 0 => (Aligned(n) \div PageSize) * PageSize = 0
        BY <1>0
      <4> QED BY <3>1, <3>2, <4>1
    <3>4. PagesFor(n) \in Nat \ {0}
      BY <3>2, <3>3 DEF PagesFor
    <3> QED BY <1>2, <3>4
  <2>3. a \div PageSize \in heap' /\ heap \subseteq heap' /\ a \div PageSize \notin heap
    BY <1>2, <1>4, <2>1, <2>2
  <2>4. ASSUME wand' = wand \/ (wand = NoWand /\ wand'.page = a \div PageSize),
               NEW b, Taken(b, placement, Kept)
        PROVE  Taken(b, placement', Kept')
    <3>1. b \in Nat \ {0} /\ (b \div PageSize < HeapStart \/ b \div PageSize \in Kept)
      BY <1>4, <2>4 DEF Taken
    <3>2. b \div PageSize \in Kept => b \div PageSize \in Kept'
      BY <2>3, <2>4 DEF Kept
    <3> QED BY <1>4, <2>1, <3>1, <3>2 DEF Taken
  <2>5. ASSUME wand' = wand PROVE Taken(a, placement', Kept')
    <3>1. a \div PageSize \in heap' /\ a \div PageSize \notin others'
      BY <1>1, <2>3
    <3>2. a \div PageSize # wand'.page
      <4>1. CASE wand = NoWand
        <5>1. wand'.page = 0
          BY <2>5, <4>1 DEF NoWand
        <5>2. a \div PageSize \in HeapPages
          BY <1>2, <1>4
        <5> QED BY <1>0, <5>1, <5>2 DEF HeapPages
      <4>2. CASE wand # NoWand
        BY <1>1, <2>3, <2>5, <4>2
      <4> QED BY <4>1, <4>2
    <3>3. a \div PageSize \in Kept'
      BY <3>1, <3>2 DEF Kept
    <3> QED BY <1>2, <1>4, <2>1, <3>3 DEF Taken
  <2> QED BY <1>1, <1>4, <2>1, <2>3, <2>4, <2>5
<1> QED BY <1>3, <1>4

-----------------------------------------------------------------------------
(* Frames.                                                                 *)

\* An entry of a page table.
LEMMA EntryIn ==
  ASSUME NEW pgs, pgs \in [DOMAIN pgs -> [Positions -> Nat]], NEW e \in (DOMAIN pgs) \X Positions
  PROVE  /\ e[1] \in DOMAIN pgs /\ e[2] \in Positions /\ e = <<e[1], e[2]>>
         /\ pgs[e[1]][e[2]] \in Nat
OBVIOUS

\* What one entry gets, in a table or in none.
IsGiven(pgs, new, table, x, f) ==
  /\ DOMAIN new = DOMAIN pgs /\ new \in [DOMAIN new -> [Positions -> Nat]]
  /\ \A e \in (DOMAIN pgs) \X Positions :
       new[e[1]][e[2]] = IF e = <<table, x>> THEN f ELSE pgs[e[1]][e[2]]

\* One entry of one table gets a frame.
LEMMA EntryChanges ==
  ASSUME NEW pgs, pgs \in [DOMAIN pgs -> [Positions -> Nat]], NEW table, NEW x \in Positions,
         NEW f \in Nat, NEW new, new = [pgs EXCEPT ![table][x] = f]
  PROVE  IsGiven(pgs, new, table, x, f)
<1>1. DOMAIN new = DOMAIN pgs
  OBVIOUS
<1>2. ASSUME NEW t \in DOMAIN pgs PROVE new[t] = IF t = table THEN [pgs[t] EXCEPT ![x] = f] ELSE pgs[t]
  OBVIOUS
<1>3. ASSUME NEW t \in DOMAIN pgs, NEW y \in Positions
      PROVE  new[t][y] = IF t = table /\ y = x THEN f ELSE pgs[t][y]
  <2>1. pgs[t] \in [Positions -> Nat]
    OBVIOUS
  <2>2. CASE t = table
    BY <1>2, <2>1, <2>2
  <2>3. CASE t # table
    BY <1>2, <2>3
  <2> QED BY <2>2, <2>3
<1>4. ASSUME NEW t \in DOMAIN pgs PROVE new[t] \in [Positions -> Nat]
  BY <1>2
<1>5. ASSUME NEW e \in (DOMAIN pgs) \X Positions
      PROVE  new[e[1]][e[2]] = IF e = <<table, x>> THEN f ELSE pgs[e[1]][e[2]]
  <2>1. e[1] \in DOMAIN pgs /\ e[2] \in Positions /\ e = <<e[1], e[2]>>
    OBVIOUS
  <2>2. e = <<table, x>> <=> e[1] = table /\ e[2] = x
    BY <2>1
  <2> QED BY <1>3, <2>1, <2>2
<1>6. new \in [DOMAIN new -> [Positions -> Nat]]
  BY <1>1, <1>4
<1> QED BY <1>1, <1>5, <1>6 DEF IsGiven

\* A page gets a frame that is not marked, or is not of the RAM.
LEMMA MapKeepsApart ==
  ASSUME NEW pgs, NEW table, NEW x, NEW f \in Nat, NEW new, IsGiven(pgs, new, table, x, f),
         NEW but, NEW marked, NEW more, NEW wd, ApartIn(pgs, but, marked, wd),
         marked \subseteq more, f \in more \/ f >= FrameCount, f \notin marked \/ f >= FrameCount
  PROVE  ApartIn(new, but, more, wd)
<1>0. FrameCount \in Nat
  BY MemoryAssumption
<1>1. /\ DOMAIN new = DOMAIN pgs /\ new \in [DOMAIN new -> [Positions -> Nat]]
      /\ \A e \in (DOMAIN pgs) \X Positions :
           new[e[1]][e[2]] = IF e = <<table, x>> THEN f ELSE pgs[e[1]][e[2]]
  BY DEF IsGiven
<1> DEFINE Was(e) == pgs[e[1]][e[2]]
           Is(e) == new[e[1]][e[2]]
           H == WithFrame(pgs, but)
           N == WithFrame(new, but)
<1>2. ASSUME NEW e \in N
      PROVE  /\ e = <<table, x>> => Is(e) = f /\ f \notin marked /\ f \in more /\ f < FrameCount
             /\ e # <<table, x>> => Is(e) = Was(e) /\ e \in H
  BY <1>0, <1>1 DEF WithFrame
<1>3. /\ \A e, d \in H : Was(e) = Was(d) => e = d
      /\ \A e \in H : Was(e) \in marked
      /\ wd # NoWand /\ wd.frame < FrameCount =>
           /\ wd.frame \in marked
           /\ \A e \in H : Was(e) # wd.frame
  BY DEF ApartIn
<1> HIDE DEF H, N, Was, Is
<1>4. \A e, d \in N : Is(e) = Is(d) => e = d
  BY <1>2, <1>3
<1>5. \A e \in N : Is(e) \in more
  BY <1>2, <1>3
<1>6. wd # NoWand /\ wd.frame < FrameCount =>
           /\ wd.frame \in more
           /\ \A e \in N : Is(e) # wd.frame
  BY <1>2, <1>3
<1> QED BY <1>4, <1>5, <1>6 DEF ApartIn, N, Is

\* What is not an entry at hand may change.
LEMMA BorrowedMayChange ==
  ASSUME NEW pgs, NEW table, NEW x, NEW f \in Nat, NEW new, IsGiven(pgs, new, table, x, f),
         NEW but, <<table, x>> \in but, NEW marked, NEW wd, ApartIn(pgs, but, marked, wd)
  PROVE  ApartIn(new, but, marked, wd)
<1>1. /\ DOMAIN new = DOMAIN pgs
      /\ \A e \in (DOMAIN pgs) \X Positions :
           new[e[1]][e[2]] = IF e = <<table, x>> THEN f ELSE pgs[e[1]][e[2]]
  BY DEF IsGiven
<1>2. WithFrame(new, but) = WithFrame(pgs, but)
  BY <1>1 DEF WithFrame
<1>3. \A e \in WithFrame(pgs, but) : new[e[1]][e[2]] = pgs[e[1]][e[2]]
  BY <1>1 DEF WithFrame
<1> QED BY <1>2, <1>3 DEF ApartIn

\* The wand borrows an entry, whose frame it notes.
LEMMA TakeKeepsApart ==
  ASSUME NEW pgs, pgs \in [DOMAIN pgs -> [Positions -> Nat]], NEW table, NEW x \in Positions,
         NEW marked, ApartIn(pgs, {}, marked, NoWand),
         NEW wd, wd.frame \in Nat,
         IF table \in DOMAIN pgs THEN wd.frame = pgs[table][x] ELSE wd.frame >= FrameCount
  PROVE  ApartIn(pgs, {<<table, x>>}, marked, wd)
<1> DEFINE H == WithFrame(pgs, {})
           N == WithFrame(pgs, {<<table, x>>})
           At_(e) == pgs[e[1]][e[2]]
<1>1. \A e \in N : e \in H /\ e # <<table, x>>
  BY DEF WithFrame
<1>2. /\ \A e, d \in H : At_(e) = At_(d) => e = d
      /\ \A e \in H : At_(e) \in marked
  BY DEF ApartIn
<1>3. ASSUME wd.frame < FrameCount
      PROVE  \E h \in H : h = <<table, x>> /\ At_(h) = wd.frame
  <2>0. FrameCount \in Nat
    BY MemoryAssumption
  <2>1. table \in DOMAIN pgs
    BY <1>3, <2>0
  <2>2. wd.frame = pgs[table][x]
    BY <2>1
  <2>3. <<table, x>> \in (DOMAIN pgs) \X Positions /\ At_(<<table, x>>) = wd.frame
    BY <2>1, <2>2
  <2>4. <<table, x>> \in H
    BY <1>3, <2>3 DEF WithFrame
  <2> QED BY <2>3, <2>4
<1> HIDE DEF H, N, At_
<1>4. ASSUME wd.frame < FrameCount
      PROVE  wd.frame \in marked /\ \A e \in N : At_(e) # wd.frame
  BY <1>1, <1>2, <1>3, <1>4
<1>5. \A e, d \in N : At_(e) = At_(d) => e = d
  BY <1>1, <1>2
<1>6. \A e \in N : At_(e) \in marked
  BY <1>1, <1>2
<1> QED BY <1>4, <1>5, <1>6 DEF ApartIn, N, At_

\* The entry gets its frame back.
LEMMA PutBackKeepsApart ==
  ASSUME NEW pgs, NEW table, NEW x, NEW marked, NEW wd, wd # NoWand,
         ApartIn(pgs, {<<table, x>>}, marked, wd),
         NEW new, IsGiven(pgs, new, table, x, wd.frame)
  PROVE  ApartIn(new, {}, marked, NoWand)
<1> DEFINE H == WithFrame(pgs, {<<table, x>>})
           N == WithFrame(new, {})
           Was(e) == pgs[e[1]][e[2]]
           Is(e) == new[e[1]][e[2]]
<1>1. /\ DOMAIN new = DOMAIN pgs
      /\ \A e \in (DOMAIN pgs) \X Positions :
           Is(e) = IF e = <<table, x>> THEN wd.frame ELSE Was(e)
  BY DEF IsGiven
<1>2. ASSUME NEW e \in N
      PROVE  /\ e = <<table, x>> => Is(e) = wd.frame /\ wd.frame < FrameCount
             /\ e # <<table, x>> => Is(e) = Was(e) /\ e \in H
  BY <1>1 DEF WithFrame
<1>3. /\ \A e, d \in H : Was(e) = Was(d) => e = d
      /\ \A e \in H : Was(e) \in marked
      /\ wd.frame < FrameCount => wd.frame \in marked /\ \A e \in H : Was(e) # wd.frame
  BY DEF ApartIn
<1> HIDE DEF H, N, Was, Is
<1>4. \A e, d \in N : Is(e) = Is(d) => e = d
  BY <1>2, <1>3
<1>5. \A e \in N : Is(e) \in marked
  BY <1>2, <1>3
<1> QED BY <1>4, <1>5 DEF ApartIn, N, Is

\* A table without frames; the entries but some, before and after.
IsNewTable(pgs, new, a) == a \notin DOMAIN pgs /\ new = With(pgs, a, [e \in Positions |-> NoFrame])
SameEntries(pgs, but, without) == \A e \in (DOMAIN pgs) \X Positions : e \in but <=> e \in without

\* What is known of the tables then.
HasTable(pgs, new, a) ==
  /\ DOMAIN new = DOMAIN pgs \cup {a} /\ new \in [DOMAIN new -> [Positions -> Nat]]
  /\ \A t \in DOMAIN pgs : new[t] = pgs[t]
  /\ new[a] = [e \in Positions |-> NoFrame]

\* A new table has no frames.
LEMMA NewTableKeepsApart ==
  ASSUME NEW pgs, pgs \in [DOMAIN pgs -> [Positions -> Nat]], NEW a,
         NEW but, NEW without, NEW marked, NEW wd, ApartIn(pgs, but, marked, wd),
         SameEntries(pgs, but, without), NEW new, IsNewTable(pgs, new, a)
  PROVE  ApartIn(new, without, marked, wd) /\ HasTable(pgs, new, a)
<1>0. FrameCount \in Nat /\ NoFrame \in Nat /\ NoFrame >= FrameCount
  BY MemoryAssumption DEF NoFrame
<1>5. a \notin DOMAIN pgs /\ new = With(pgs, a, [e \in Positions |-> NoFrame])
  BY DEF IsNewTable
<1>1. /\ DOMAIN new = DOMAIN pgs \cup {a}
      /\ \A t \in DOMAIN pgs : new[t] = pgs[t]
      /\ new[a] = [e \in Positions |-> NoFrame]
  BY <1>5 DEF With
<1>2. new \in [DOMAIN new -> [Positions -> Nat]]
  <2>1. \A t \in DOMAIN new : new[t] \in [Positions -> Nat]
    BY <1>0, <1>1
  <2> QED BY <1>5, <2>1 DEF With
<1>3. WithFrame(new, without) = WithFrame(pgs, but)
  <2>1. ASSUME NEW e \in WithFrame(new, without) PROVE e \in WithFrame(pgs, but)
    <3>1. /\ e \in (DOMAIN new) \X Positions /\ new[e[1]][e[2]] < FrameCount /\ e \notin without
      BY DEF WithFrame
    <3>2. e[1] # a
      <4>1. e[1] = a => new[e[1]][e[2]] = NoFrame
        BY <1>1, <3>1
      <4> QED BY <1>0, <3>1, <4>1
    <3>3. e \in (DOMAIN pgs) \X Positions
      BY <1>1, <3>1, <3>2
    <3> QED BY <1>1, <3>1, <3>3 DEF WithFrame, SameEntries
  <2>2. ASSUME NEW e \in WithFrame(pgs, but) PROVE e \in WithFrame(new, without)
    <3>1. /\ e \in (DOMAIN pgs) \X Positions /\ pgs[e[1]][e[2]] < FrameCount /\ e \notin but
      BY DEF WithFrame
    <3> QED BY <1>1, <3>1 DEF WithFrame, SameEntries
  <2> QED BY <2>1, <2>2
<1>4. \A e \in WithFrame(pgs, but) : new[e[1]][e[2]] = pgs[e[1]][e[2]]
  BY <1>1 DEF WithFrame
<1>6. HasTable(pgs, new, a)
  BY <1>1, <1>2 DEF HasTable
<1>7. ApartIn(new, without, marked, wd)
  BY <1>3, <1>4 DEF ApartIn
<1> QED BY <1>6, <1>7

\* Entries that hold one frame each are as many as the frames.
LEMMA ApartMeansOwn ==
  ASSUME IsFiniteSet(DOMAIN pages), FramesApart, halted \in {"no", "no_hole", "no_frames_free"}
  PROVE  FramesAreOwn
<1> DEFINE used == {pages[e[1]][e[2]] : e \in Mapped}
<1>1. Mapped = WithFrame(pages, Borrowed)
  BY DEF Mapped, WithFrame, Borrowed, Positions
<1>2. /\ \A e, f \in Mapped : pages[e[1]][e[2]] = pages[f[1]][f[2]] => e = f
      /\ \A e \in Mapped : pages[e[1]][e[2]] \in frames
  BY <1>1 DEF FramesApart, ApartIn
<1>3. IsFiniteSet(Mapped)
  <2>1. IsFiniteSet(Positions)
    <3>1. 0 \in Int /\ Entries - 1 \in Int
      BY MemoryAssumption
    <3> QED BY <3>1, FS_Interval, Zenon DEF Positions
  <2>2. IsFiniteSet((DOMAIN pages) \X Positions)
    BY <2>1, FS_Product
  <2>3. Mapped \subseteq (DOMAIN pages) \X Positions
    BY DEF Mapped, Positions
  <2> QED BY <2>2, <2>3, FS_Subset
<1>4. Cardinality(used) = Cardinality(Mapped)
  <2> DEFINE g == [e \in Mapped |-> pages[e[1]][e[2]]]
  <2>1. g \in Bijection(Mapped, used)
    <3>1. g \in [Mapped -> used]
      OBVIOUS
    <3>2. \A e, f \in Mapped : g[e] = g[f] => e = f
      BY <1>2
    <3>3. \A u \in used : \E e \in Mapped : g[e] = u
      OBVIOUS
    <3> HIDE DEF g, used
    <3> QED BY <3>1, <3>2, <3>3 DEF Bijection, Injection, Surjection, IsInjective
  <2> HIDE DEF g, used
  <2> QED BY <1>3, <2>1, FS_Bijection DEF ExistsBijection
<1> QED BY <1>2, <1>4 DEF FramesAreOwn

-----------------------------------------------------------------------------
(* Sequences.                                                              *)

\* What a sequence that is not empty begins with, and goes on with.
LEMMA HeadOfConcat ==
  ASSUME NEW S, NEW s \in Seq(S), s # <<>>, NEW r \in Seq(S)
  PROVE  /\ s \o r # <<>> /\ Head(s \o r) = s[1] /\ Tail(s \o r) = Tail(s) \o r
         /\ s[1] \in S /\ 1 \in DOMAIN s
         /\ Tail(s) \in Seq(S) /\ Len(Tail(s)) = Len(s) - 1
         /\ \A i \in 1 .. Len(s) - 1 : Tail(s)[i] = s[i + 1]
<1>1. /\ Len(s) \in Nat \ {0} /\ s[1] \in S /\ 1 \in DOMAIN s
      /\ Tail(s) \in Seq(S) /\ Len(Tail(s)) = Len(s) - 1
      /\ \A i \in 1 .. Len(s) - 1 : Tail(s)[i] = s[i + 1]
  OBVIOUS
<1>2. /\ s \o r \in Seq(S) /\ Len(s \o r) = Len(s) + Len(r)
      /\ \A i \in 1 .. Len(s) : (s \o r)[i] = s[i]
      /\ \A i \in 1 .. Len(r) : (s \o r)[Len(s) + i] = r[i]
  BY ConcatAt
<1>3. /\ Tail(s) \o r \in Seq(S) /\ Len(Tail(s) \o r) = Len(Tail(s)) + Len(r)
      /\ \A i \in 1 .. Len(Tail(s)) : (Tail(s) \o r)[i] = Tail(s)[i]
      /\ \A i \in 1 .. Len(r) : (Tail(s) \o r)[Len(Tail(s)) + i] = r[i]
  BY <1>1, ConcatAt
<1>4. s \o r # <<>> /\ Head(s \o r) = s[1]
  BY <1>1, <1>2
<1>5. Len(r) \in Nat
  OBVIOUS
<1>6. Tail(s \o r) \in Seq(S) /\ Len(Tail(s \o r)) = Len(s) + Len(r) - 1
  BY <1>1, <1>2, <1>4, <1>5
<1>7. ASSUME NEW i \in 1 .. Len(s) + Len(r) - 1
      PROVE  Tail(s \o r)[i] = (Tail(s) \o r)[i]
  <2>1. Tail(s \o r)[i] = (s \o r)[i + 1]
    BY <1>1, <1>2, <1>5
  <2>2. CASE i <= Len(s) - 1
    <3>1. i \in 1 .. Len(s) - 1 /\ i + 1 \in 1 .. Len(s) /\ i \in 1 .. Len(Tail(s))
      BY <1>1, <2>2
    <3> QED BY <1>1, <1>2, <1>3, <2>1, <3>1
  <2>3. CASE ~(i <= Len(s) - 1)
    <3> DEFINE j == i - (Len(s) - 1)
    <3>1. j \in 1 .. Len(r) /\ i + 1 = Len(s) + j /\ i = Len(Tail(s)) + j
      BY <1>1, <1>5, <2>3
    <3>2. (s \o r)[Len(s) + j] = r[j] /\ (Tail(s) \o r)[Len(Tail(s)) + j] = r[j]
      BY <1>2, <1>3, <3>1
    <3> HIDE DEF j
    <3> QED BY <2>1, <3>1, <3>2
  <2> QED BY <2>2, <2>3
<1>8. Tail(s \o r) = Tail(s) \o r
  <2>1. Len(Tail(s \o r)) = Len(Tail(s) \o r)
    BY <1>1, <1>3, <1>5, <1>6
  <2>2. \A i \in 1 .. Len(Tail(s \o r)) : Tail(s \o r)[i] = (Tail(s) \o r)[i]
    BY <1>6, <1>7
  <2> HIDE <1>7
  <2> QED BY <1>3, <1>6, <2>1, <2>2, SeqEqual
<1> QED BY <1>1, <1>4, <1>8

\* Another thing in place of the first one.
LEMMA HeadReplaced ==
  ASSUME NEW S, NEW s \in Seq(S), s # <<>>, NEW r \in Seq(S), NEW h \in S
  PROVE  /\ <<h>> \o Tail(s \o r) = (<<h>> \o Tail(s)) \o r
         /\ <<h>> \o Tail(s) \in Seq(S) /\ Len(<<h>> \o Tail(s)) = Len(s)
         /\ (<<h>> \o Tail(s))[1] = h
         /\ \A i \in 2 .. Len(s) : (<<h>> \o Tail(s))[i] = s[i]
<1>1. /\ Tail(s) \in Seq(S) /\ Len(Tail(s)) = Len(s) - 1 /\ Len(s) \in Nat \ {0}
      /\ \A i \in 1 .. Len(s) - 1 : Tail(s)[i] = s[i + 1]
      /\ Tail(s \o r) = Tail(s) \o r
  BY HeadOfConcat
<1>2. <<h>> \in Seq(S) /\ Len(<<h>>) = 1 /\ <<h>>[1] = h
  OBVIOUS
<1>3. <<h>> \o Tail(s \o r) = (<<h>> \o Tail(s)) \o r
  BY <1>1, <1>2, ConcatAssociative
<1>4. /\ <<h>> \o Tail(s) \in Seq(S) /\ Len(<<h>> \o Tail(s)) = 1 + Len(Tail(s))
      /\ \A i \in 1 .. 1 : (<<h>> \o Tail(s))[i] = <<h>>[i]
      /\ \A i \in 1 .. Len(Tail(s)) : (<<h>> \o Tail(s))[1 + i] = Tail(s)[i]
  BY <1>1, <1>2, ConcatAt
<1>5. ASSUME NEW i \in 2 .. Len(s) PROVE (<<h>> \o Tail(s))[i] = s[i]
  <2>1. i - 1 \in 1 .. Len(Tail(s)) /\ 1 + (i - 1) = i /\ (i - 1) + 1 = i
    BY <1>1
  <2> QED BY <1>1, <1>4, <2>1
<1> QED BY <1>1, <1>2, <1>3, <1>4, <1>5

-----------------------------------------------------------------------------
(* What the kernel is to do, put together.                                 *)

\* The pages that it gives frames.
TouchesIn(s, program, P) ==
  \A i \in DOMAIN s : \A p \in EveryPage : Touches(s[i], program, p) => p \in P

\* Nothing in it is about the wand.
Plain(s) == \A i \in DOMAIN s : s[i].do \notin {"copy", "take_wand", "put_wand_back"}

\* Two sequences that touch different pages, one after the other.
LEMMA BareConcat ==
  ASSUME NEW items, NEW program, NEW P, NEW Q, P \cap Q = {}, NEW a, NEW b,
         Bare(a, items, program), Bare(b, items, program),
         TouchesIn(a, program, P), TouchesIn(b, program, Q)
  PROVE  Bare(a \o b, items, program) /\ TouchesIn(a \o b, program, P \cup Q)
<1> DEFINE c == a \o b
<1>1. a \in Seq(items) /\ b \in Seq(items)
  BY DEF Bare
<1>2. /\ c \in Seq(items) /\ Len(c) = Len(a) + Len(b)
      /\ \A i \in 1 .. Len(a) : c[i] = a[i]
      /\ \A i \in 1 .. Len(b) : c[Len(a) + i] = b[i]
  BY <1>1, ConcatAt
<1>3. /\ Len(a) \in Nat /\ Len(b) \in Nat
      /\ DOMAIN a = 1 .. Len(a) /\ DOMAIN b = 1 .. Len(b) /\ DOMAIN c = 1 .. Len(a) + Len(b)
  BY <1>1, <1>2
<1> HIDE DEF c
<1>4. ASSUME NEW i \in DOMAIN c
      PROVE  \/ i \in DOMAIN a /\ c[i] = a[i]
             \/ i - Len(a) \in DOMAIN b /\ c[i] = b[i - Len(a)] /\ i > Len(a)
  <2>1. CASE i <= Len(a)
    BY <1>2, <1>3, <2>1
  <2>2. CASE ~(i <= Len(a))
    <3>1. i - Len(a) \in 1 .. Len(b) /\ Len(a) + (i - Len(a)) = i
      BY <1>3, <2>2
    <3>2. c[Len(a) + (i - Len(a))] = b[i - Len(a)]
      BY <1>2, <3>1
    <3> QED BY <1>3, <2>2, <3>1, <3>2
  <2> QED BY <2>1, <2>2
<1>5. \A i \in DOMAIN c : CopyFits(c[i], program)
  BY <1>4 DEF Bare
<1>6. ASSUME NEW i \in DOMAIN c, NEW p \in EveryPage, Touches(c[i], program, p)
      PROVE  p \in P \cup Q /\ (i \in DOMAIN a => p \in P) /\ (i \notin DOMAIN a => p \in Q)
  <2>1. CASE i \in DOMAIN a
    BY <1>2, <1>3, <1>6, <2>1 DEF TouchesIn
  <2>2. CASE i \notin DOMAIN a
    BY <1>4, <1>6, <2>2 DEF TouchesIn
  <2> QED BY <2>1, <2>2
<1>7. ASSUME NEW i \in DOMAIN c, NEW j \in DOMAIN c, NEW p \in EveryPage,
             Touches(c[i], program, p), Touches(c[j], program, p)
      PROVE  i = j
  <2>1. CASE i \in DOMAIN a /\ j \in DOMAIN a
    BY <1>2, <1>3, <1>7, <2>1 DEF Bare, ItemsApart
  <2>2. CASE i \notin DOMAIN a /\ j \notin DOMAIN a
    <3>1. /\ i - Len(a) \in DOMAIN b /\ c[i] = b[i - Len(a)]
          /\ j - Len(a) \in DOMAIN b /\ c[j] = b[j - Len(a)]
      BY <1>4, <2>2
    <3>2. i - Len(a) = j - Len(a)
      BY <1>7, <3>1 DEF Bare, ItemsApart
    <3> QED BY <1>3, <3>2
  <2>3. CASE i \in DOMAIN a <=> j \notin DOMAIN a
    BY <1>6, <1>7, <2>3
  <2> QED BY <2>1, <2>2, <2>3
<1>8. Bare(c, items, program)
  BY <1>2, <1>5, <1>7 DEF Bare, ItemsApart
<1>9. TouchesIn(c, program, P \cup Q)
  BY <1>6 DEF TouchesIn
<1> QED BY <1>8, <1>9 DEF c

\* What has no copies stays without them.
LEMMA PlainConcat ==
  ASSUME NEW S, NEW a \in Seq(S), NEW b \in Seq(S), Plain(a), Plain(b)
  PROVE  Plain(a \o b)
<1>1. /\ a \o b \in Seq(S) /\ Len(a \o b) = Len(a) + Len(b)
      /\ \A i \in 1 .. Len(a) : (a \o b)[i] = a[i]
      /\ \A i \in 1 .. Len(b) : (a \o b)[Len(a) + i] = b[i]
  BY ConcatAt
<1>2. Len(a) \in Nat /\ Len(b) \in Nat
  OBVIOUS
<1>3. ASSUME NEW i \in DOMAIN (a \o b)
      PROVE  (a \o b)[i].do \notin {"copy", "take_wand", "put_wand_back"}
  <2>1. i \in 1 .. Len(a) + Len(b)
    BY <1>1
  <2>2. CASE i <= Len(a)
    BY <1>1, <1>2, <2>1, <2>2 DEF Plain
  <2>3. CASE ~(i <= Len(a))
    <3>1. i - Len(a) \in 1 .. Len(b) /\ Len(a) + (i - Len(a)) = i
      BY <1>2, <2>1, <2>3
    <3>2. (a \o b)[i] = b[i - Len(a)] /\ i - Len(a) \in DOMAIN b
      BY <1>1, <3>1
    <3> QED BY <3>2 DEF Plain
  <2> QED BY <2>2, <2>3
<1> QED BY <1>3 DEF Plain

\* Where nothing is about the wand, it is not taken.
LEMMA PlainWand ==
  ASSUME NEW S, NEW a \in Seq(S), Plain(a)
  PROVE  WandFits(a, NoWand)
<1>1. 0 \in 0 .. Len(a)
  OBVIOUS
<1>2. Copies(a, 0, 0)
  BY DEF Plain, Copies
<1> QED BY <1>1, <1>2 DEF WandFits

\* What comes before the wand is taken does not matter to it.
LEMMA WandConcat ==
  ASSUME NEW S, NEW a \in Seq(S), NEW b \in Seq(S), Plain(a), WandFits(b, NoWand)
  PROVE  WandFits(a \o b, NoWand)
<1> DEFINE c == a \o b
           n == Len(a)
<1>1. /\ c \in Seq(S) /\ Len(c) = n + Len(b)
      /\ \A i \in 1 .. n : c[i] = a[i]
      /\ \A i \in 1 .. Len(b) : c[n + i] = b[i]
  BY ConcatAt
<1>2. n \in Nat /\ Len(b) \in Nat
  OBVIOUS
<1>3. PICK k, m \in 0 .. Len(b) : Copies(b, k, m) /\ (k > 0 => k < m) /\ ~(k = 0 /\ m > 0)
  BY DEF WandFits
<1> DEFINE Moved(i) == IF i = 0 THEN 0 ELSE n + i
<1>4. /\ Moved(k) \in 0 .. Len(c) /\ Moved(m) \in 0 .. Len(c)
      /\ (Moved(k) > 0 => Moved(k) < Moved(m)) /\ ~(Moved(k) = 0 /\ Moved(m) > 0)
  BY <1>1, <1>2, <1>3
<1>5. ASSUME NEW i \in DOMAIN c
      PROVE  /\ c[i].do = "copy" <=> Moved(k) < i /\ i < Moved(m)
             /\ c[i].do = "take_wand" <=> i = Moved(k)
             /\ c[i].do = "put_wand_back" <=> i = Moved(m)
  <2>1. i \in 1 .. n + Len(b)
    BY <1>1
  <2>2. CASE i <= n
    <3>1. c[i] = a[i] /\ i \in DOMAIN a
      BY <1>1, <1>2, <2>1, <2>2
    <3>2. c[i].do \notin {"copy", "take_wand", "put_wand_back"}
      BY <3>1 DEF Plain
    <3>3. ~(Moved(k) < i /\ i < Moved(m)) /\ i # Moved(k) /\ i # Moved(m)
      BY <1>2, <1>3, <2>1, <2>2
    <3> QED BY <3>2, <3>3
  <2>3. CASE ~(i <= n)
    <3>1. i - n \in 1 .. Len(b) /\ n + (i - n) = i
      BY <1>2, <2>1, <2>3
    <3>2. c[i] = b[i - n] /\ i - n \in DOMAIN b
      BY <1>1, <3>1
    <3>3. /\ b[i - n].do = "copy" <=> k < i - n /\ i - n < m
          /\ b[i - n].do = "take_wand" <=> i - n = k
          /\ b[i - n].do = "put_wand_back" <=> i - n = m
      BY <1>3, <3>2 DEF Copies
    <3>4. /\ k < i - n /\ i - n < m <=> Moved(k) < i /\ i < Moved(m)
          /\ i - n = k <=> i = Moved(k)
          /\ i - n = m <=> i = Moved(m)
      BY <1>2, <1>3, <2>1, <3>1, SMTT(30)
    <3> QED BY <3>2, <3>3, <3>4
  <2> QED BY <2>2, <2>3
<1> HIDE DEF Moved, c
<1>6. Copies(c, Moved(k), Moved(m))
  BY <1>5 DEF Copies
<1>7. WandFits(c, NoWand)
  BY <1>4, <1>6 DEF WandFits
<1> QED BY <1>7 DEF c

\* A call for each page of a sequence in which none is twice.
LEMMA OnPagesIsBare ==
  ASSUME NEW what \in {"get_page", "map"}, NEW s \in Seq(Nat), IsInjective(s), NEW items,
         [do : {what}, page : ToSet(s)] \subseteq items, NEW program
  PROVE  /\ Bare(OnPages(what, s), items, program) /\ Plain(OnPages(what, s))
         /\ TouchesIn(OnPages(what, s), program, IF what = "map" THEN ToSet(s) ELSE {})
<1> DEFINE c == OnPages(what, s)
<1>1. /\ Len(s) \in Nat /\ DOMAIN s = 1 .. Len(s)
      /\ c = [i \in 1 .. Len(s) |-> [do |-> what, page |-> s[i]]]
  BY DEF OnPages
<1>2. \A i \in 1 .. Len(s) : s[i] \in ToSet(s)
  BY <1>1 DEF ToSet
<1>3. \A i \in 1 .. Len(s) : c[i] \in items /\ c[i].do = what /\ c[i].page = s[i]
  BY <1>1, <1>2
<1>4. c \in Seq(items) /\ DOMAIN c = 1 .. Len(s)
  BY <1>1, <1>3
<1> HIDE DEF c
<1>5. \A i \in DOMAIN c : CopyFits(c[i], program)
  BY <1>3, <1>4 DEF CopyFits
<1>6. ASSUME NEW i \in DOMAIN c, NEW p \in EveryPage, Touches(c[i], program, p)
      PROVE  what = "map" /\ p = s[i]
  BY <1>3, <1>4, <1>6 DEF Touches
<1>7. \A i, j \in DOMAIN c : s[i] = s[j] => i = j
  BY <1>1, <1>4 DEF IsInjective
<1>8. Bare(c, items, program)
  BY <1>4, <1>5, <1>6, <1>7 DEF Bare, ItemsApart
<1>9. Plain(c)
  BY <1>3, <1>4 DEF Plain
<1>10. TouchesIn(c, program, IF what = "map" THEN ToSet(s) ELSE {})
  BY <1>2, <1>4, <1>6 DEF TouchesIn
<1> QED BY <1>8, <1>9, <1>10 DEF c

\* A thing that gives no page a frame.
LEMMA SingleIsBare ==
  ASSUME NEW items, NEW item \in items, item.do \notin {"map", "identity_map", "copy"}, NEW program
  PROVE  /\ Bare(<<item>>, items, program) /\ TouchesIn(<<item>>, program, {})
         /\ item.do \notin {"take_wand", "put_wand_back"} => Plain(<<item>>)
<1>1. <<item>> \in Seq(items) /\ DOMAIN <<item>> = {1} /\ <<item>>[1] = item
  OBVIOUS
<1>2. CopyFits(item, program) /\ \A p \in EveryPage : ~Touches(item, program, p)
  BY DEF CopyFits, Touches
<1> QED BY <1>1, <1>2 DEF Bare, ItemsApart, TouchesIn, Plain

\* Nothing can be done.
LEMMA NothingIsBare ==
  ASSUME NEW items, NEW program
  PROVE  /\ Bare(<<>>, items, program) /\ TouchesIn(<<>>, program, {}) /\ Plain(<<>>)
         /\ <<>> \in Seq(items)
BY DEF Bare, ItemsApart, TouchesIn, Plain

\* A function of the first naturals is a sequence.
LEMMA IsSequence ==
  ASSUME NEW S, NEW n \in Nat, NEW c \in [1 .. n -> S]
  PROVE  c \in Seq(S) /\ Len(c) = n /\ DOMAIN c = 1 .. n
OBVIOUS

\* Where a segment begins and ends.
LEMMA SegmentIs ==
  ASSUME NEW program \in AllPrograms, NEW i \in DOMAIN program.segments
  PROVE  LET s == program.segments[i]
         IN  /\ s.virt \in Nat /\ s.memsz \in Nat \ {0}
             /\ s.virt \div PageSize \in Nat /\ (s.virt + s.memsz - 1) \div PageSize \in Nat
             /\ SegmentPages(s) \subseteq TaskPages /\ SegmentPages(s) \subseteq EveryPage
             /\ s \in ToSet(program.segments)
<1> DEFINE g == program.segments
           s == g[i]
           Segment == [virt : Nat, filesz : Nat, memsz : Nat \ {0}]
<1>1. g \in Seq(Segment)
  BY LayoutAssumption
<1>0. i \in DOMAIN g
  OBVIOUS
<1> HIDE DEF g, Segment
<1>2. g[i] \in Segment
  BY <1>0, <1>1
<1> HIDE DEF s
<1>3. s.virt \in Nat /\ s.memsz \in Nat \ {0}
  BY <1>2 DEF s, Segment
<1>4. s.virt + s.memsz - 1 \in Nat /\ PageSize \in Nat \ {0}
  BY <1>3, MemoryAssumption
<1>5. s.virt \div PageSize \in Nat
  BY <1>3, <1>4, QuotientAndRest
<1>6. (s.virt + s.memsz - 1) \div PageSize \in Nat
  BY <1>4, QuotientAndRest
<1>7. s \in ToSet(g)
  BY DEF ToSet, s, g
<1>8. SegmentPages(s) \subseteq TaskPages
  BY <1>7 DEF TaskPages, g
<1>9. TaskPages \subseteq EveryPage
  BY LayoutAssumption DEF EveryPage
<1> QED BY <1>3, <1>5, <1>6, <1>7, <1>8, <1>9 DEF s, g

\* The copies of an image.
LEMMA CopiesAreBare ==
  ASSUME NEW program \in AllPrograms,
         NEW c, c = [i \in DOMAIN program.segments |->
                       [do |-> "copy", segment |-> i, copied |-> 0]]
  PROVE  /\ Bare(c, TaskItem, program)
         /\ TouchesIn(c, program, UNION {SegmentPages(s) : s \in ToSet(program.segments)})
         /\ \A i \in DOMAIN c : c[i].do = "copy"
<1> DEFINE g == program.segments
<1>1. /\ g \in Seq([virt : Nat, filesz : Nat, memsz : Nat \ {0}])
      /\ \A i \in DOMAIN g : \A j \in DOMAIN g \ {i} : SegmentPages(g[i]) \cap SegmentPages(g[j]) = {}
  BY LayoutAssumption
<1>2. Len(g) \in Nat /\ DOMAIN g = 1 .. Len(g)
  BY <1>1
<1>3. \A i \in DOMAIN g : /\ g[i].virt \in Nat /\ g[i].memsz \in Nat \ {0}
                         /\ g[i].virt \div PageSize \in Nat
                         /\ (g[i].virt + g[i].memsz - 1) \div PageSize \in Nat
  BY SegmentIs
<1>4. \A i \in 1 .. Len(g) : c[i] \in TaskItem /\ c[i].do = "copy" /\ c[i].segment = i /\ c[i].copied = 0
  BY <1>2 DEF TaskItem
<1>5. c \in Seq(TaskItem) /\ DOMAIN c = 1 .. Len(g)
  <2>1. c = [i \in 1 .. Len(g) |-> [do |-> "copy", segment |-> i, copied |-> 0]]
    BY <1>2
  <2> HIDE DEF g
  <2>2. \A i \in 1 .. Len(g) : [do |-> "copy", segment |-> i, copied |-> 0] \in TaskItem
    BY <1>2 DEF TaskItem
  <2>3. c \in [1 .. Len(g) -> TaskItem]
    BY Zenon, <2>1, <2>2
  <2>4. Len(g) \in Nat
    BY <1>2
  <2>5. c \in Seq(TaskItem) /\ Len(c) = Len(g) /\ DOMAIN c = 1 .. Len(g)
    BY <2>3, <2>4, IsSequence
  <2> QED BY <2>5
<1> HIDE DEF g
<1>6. ASSUME NEW i \in DOMAIN c PROVE CopyFits(c[i], program)
  <2>1. c[i].segment \in DOMAIN g /\ c[i].copied = 0 /\ c[i].segment = i
    BY <1>2, <1>4, <1>5
  <2>2. c[i].copied < g[c[i].segment].memsz
    BY <1>3, <2>1
  <2> QED BY <2>1, <2>2 DEF CopyFits, g
<1>7. ASSUME NEW i \in DOMAIN c, NEW p \in EveryPage, Touches(c[i], program, p)
      PROVE  p \in SegmentPages(g[i])
  <2>1. /\ (g[i].virt + c[i].copied) \div PageSize <= p
        /\ p <= (g[i].virt + g[i].memsz - 1) \div PageSize
    BY <1>4, <1>5, <1>7 DEF Touches, g
  <2>2. g[i].virt + c[i].copied = g[i].virt
    BY <1>2, <1>3, <1>4, <1>5
  <2>3. /\ p \in Nat /\ g[i].virt \div PageSize \in Nat
        /\ (g[i].virt + g[i].memsz - 1) \div PageSize \in Nat
    <3>1. p \in Nat
      BY DEF EveryPage
    <3> QED BY <1>2, <1>3, <1>5, <3>1
  <2> QED BY <2>1, <2>2, <2>3 DEF SegmentPages
<1>8. Bare(c, TaskItem, program)
  <2>1. ASSUME NEW i \in DOMAIN c, NEW j \in DOMAIN c, NEW p \in EveryPage,
               Touches(c[i], program, p), Touches(c[j], program, p)
        PROVE  i = j
    <3>1. p \in SegmentPages(g[i]) /\ p \in SegmentPages(g[j])
      BY <1>7, <2>1
    <3> QED BY <1>1, <1>2, <1>5, <3>1
  <2>2. \A i \in DOMAIN c : CopyFits(c[i], program)
    BY <1>6
  <2>3. ItemsApart(c, program)
    BY <2>1 DEF ItemsApart
  <2> QED BY <1>5, <2>2, <2>3 DEF Bare
<1>9. TouchesIn(c, program, UNION {SegmentPages(s) : s \in ToSet(g)})
  <2>1. \A i \in DOMAIN g : g[i] \in ToSet(g)
    BY DEF ToSet
  <2> QED BY <1>2, <1>5, <1>7, <2>1 DEF TouchesIn
<1>10. \A i \in DOMAIN c : c[i].do = "copy"
  BY <1>4, <1>5
<1> QED BY <1>8, <1>9, <1>10 DEF g

\* The parts of what MakeTask does: none gives a page a frame that another does.
LEMMA AfterCloneFits ==
  ASSUME NEW program \in AllPrograms
  PROVE  /\ Bare(AfterClone(program), TaskItem, program)
         /\ WandFits(AfterClone(program), NoWand)
<1> DEFINE g == program.segments
           A == IF program.kind = "idle" THEN <<>> ELSE OnPages("map", TaskStack)
           B == <<[do |-> "stack", size |-> TaskKernelStack]>>
           C == IF program.kind = "idle" THEN <<>> ELSE <<Do("arguments")>>
           D == OnPages("map", TaskHeap)
           K == [i \in DOMAIN g |-> [do |-> "copy", segment |-> i, copied |-> 0]]
           W == IF program.kind = "elf" THEN <<Do("take_wand")>> \o K \o <<Do("put_wand_back")>>
                ELSE <<>>
           Image_ == UNION {SegmentPages(s) : s \in ToSet(g)}
<1>0. /\ TaskStack \in Seq(Nat) /\ TaskHeap \in Seq(Nat) /\ IsInjective(TaskStack \o TaskHeap)
      /\ TaskKernelStack \in Nat
      /\ \A i \in DOMAIN g :
           SegmentPages(g[i]) \cap (ToSet(TaskStack) \cup ToSet(TaskHeap)) = {}
  BY LayoutAssumption, MemoryAssumption
<1>1. /\ IsInjective(TaskStack) /\ IsInjective(TaskHeap)
      /\ ToSet(TaskStack) \cap ToSet(TaskHeap) = {}
  <2> DEFINE c == TaskStack \o TaskHeap
  <2>1. /\ c \in Seq(Nat) /\ Len(c) = Len(TaskStack) + Len(TaskHeap)
        /\ \A i \in 1 .. Len(TaskStack) : c[i] = TaskStack[i]
        /\ \A i \in 1 .. Len(TaskHeap) : c[Len(TaskStack) + i] = TaskHeap[i]
    BY <1>0, ConcatAt
  <2>2. /\ Len(TaskStack) \in Nat /\ Len(TaskHeap) \in Nat
        /\ DOMAIN TaskStack = 1 .. Len(TaskStack) /\ DOMAIN TaskHeap = 1 .. Len(TaskHeap)
        /\ DOMAIN c = 1 .. Len(TaskStack) + Len(TaskHeap)
    BY <1>0, <2>1
  <2>3. \A i, j \in DOMAIN c : c[i] = c[j] => i = j
    BY <1>0 DEF IsInjective
  <2> HIDE DEF c
  <2>4. IsInjective(TaskStack)
    BY <2>1, <2>2, <2>3 DEF IsInjective
  <2>5. ASSUME NEW i \in DOMAIN TaskHeap, NEW j \in DOMAIN TaskHeap, TaskHeap[i] = TaskHeap[j]
        PROVE  i = j
    <3>0. /\ i \in 1 .. Len(TaskHeap) /\ j \in 1 .. Len(TaskHeap)
          /\ Len(TaskStack) + i \in DOMAIN c /\ Len(TaskStack) + j \in DOMAIN c
      BY <2>2
    <3>1. c[Len(TaskStack) + i] = c[Len(TaskStack) + j]
      BY <2>1, <2>5, <3>0
    <3>2. Len(TaskStack) + i = Len(TaskStack) + j
      BY <2>3, <3>0, <3>1
    <3> QED BY <2>2, <3>2
  <2>6. ASSUME NEW i \in DOMAIN TaskStack, NEW j \in DOMAIN TaskHeap, TaskStack[i] = TaskHeap[j]
        PROVE  FALSE
    <3>0. /\ i \in 1 .. Len(TaskStack) /\ j \in 1 .. Len(TaskHeap)
          /\ i \in DOMAIN c /\ Len(TaskStack) + j \in DOMAIN c
      BY <2>2
    <3>1. c[i] = c[Len(TaskStack) + j]
      BY <2>1, <2>6, <3>0
    <3>2. i = Len(TaskStack) + j
      BY <2>3, <3>0, <3>1
    <3> QED BY <2>2, <3>0, <3>2
  <2> QED BY <2>4, <2>5, <2>6 DEF IsInjective, ToSet
<1>2. Image_ \cap (ToSet(TaskStack) \cup ToSet(TaskHeap)) = {}
  BY <1>0 DEF ToSet
<1>3. /\ Bare(A, TaskItem, program) /\ TouchesIn(A, program, ToSet(TaskStack)) /\ Plain(A)
  <2>1. CASE program.kind = "idle"
    <3>1. A = <<>>
      BY <2>1
    <3>2. /\ Bare(<<>>, TaskItem, program) /\ TouchesIn(<<>>, program, ToSet(TaskStack))
          /\ Plain(<<>>)
      BY NothingIsBare DEF TouchesIn
    <3> QED BY <3>1, <3>2
  <2>2. CASE program.kind # "idle"
    <3>1. [do : {"map"}, page : ToSet(TaskStack)] \subseteq TaskItem
      BY DEF TaskItem
    <3>2. /\ Bare(OnPages("map", TaskStack), TaskItem, program) /\ Plain(OnPages("map", TaskStack))
          /\ TouchesIn(OnPages("map", TaskStack), program,
                       IF "map" = "map" THEN ToSet(TaskStack) ELSE {})
      BY <1>0, <1>1, <3>1, OnPagesIsBare
    <3> QED BY <2>2, <3>2
  <2> QED BY <2>1, <2>2
<1>4. /\ Bare(B, TaskItem, program) /\ TouchesIn(B, program, {}) /\ Plain(B)
  <2> DEFINE item == [do |-> "stack", size |-> TaskKernelStack]
  <2>1. item \in TaskItem /\ item.do = "stack"
    BY DEF TaskItem
  <2> HIDE DEF item
  <2>2. /\ Bare(<<item>>, TaskItem, program) /\ TouchesIn(<<item>>, program, {})
        /\ item.do \notin {"take_wand", "put_wand_back"} => Plain(<<item>>)
    BY <2>1, SingleIsBare
  <2> QED BY <2>1, <2>2 DEF item
<1>5. /\ Bare(C, TaskItem, program) /\ TouchesIn(C, program, {}) /\ Plain(C)
  <2> DEFINE item == Do("arguments")
  <2>1. item \in TaskItem /\ item.do = "arguments"
    BY DEF TaskItem, Do
  <2> HIDE DEF item
  <2>2. /\ Bare(<<item>>, TaskItem, program) /\ TouchesIn(<<item>>, program, {})
        /\ item.do \notin {"take_wand", "put_wand_back"} => Plain(<<item>>)
    BY <2>1, SingleIsBare
  <2>3. /\ Bare(<<item>>, TaskItem, program) /\ TouchesIn(<<item>>, program, {}) /\ Plain(<<item>>)
    BY <2>1, <2>2
  <2>4. /\ Bare(<<>>, TaskItem, program) /\ TouchesIn(<<>>, program, {}) /\ Plain(<<>>)
    BY NothingIsBare
  <2>5. C = <<>> \/ C = <<item>>
    BY DEF item
  <2> HIDE DEF C
  <2> QED BY <2>3, <2>4, <2>5
<1>6. /\ Bare(D, TaskItem, program) /\ TouchesIn(D, program, ToSet(TaskHeap)) /\ Plain(D)
  <2>1. [do : {"map"}, page : ToSet(TaskHeap)] \subseteq TaskItem
    BY DEF TaskItem
  <2>2. /\ Bare(D, TaskItem, program) /\ Plain(D)
        /\ TouchesIn(D, program, IF "map" = "map" THEN ToSet(TaskHeap) ELSE {})
    BY <1>0, <1>1, <2>1, OnPagesIsBare
  <2> QED BY <2>2
<1>7. /\ Bare(K, TaskItem, program) /\ TouchesIn(K, program, Image_)
      /\ \A i \in DOMAIN K : K[i].do = "copy"
  BY CopiesAreBare
<1>8. /\ Bare(W, TaskItem, program) /\ TouchesIn(W, program, Image_) /\ WandFits(W, NoWand)
  <2> DEFINE T == <<Do("take_wand")>>
             P == <<Do("put_wand_back")>>
  <2> HIDE DEF K, Image_
  <2>1. CASE program.kind # "elf"
    <3>1. W = <<>>
      BY <2>1
    <3>2. /\ Bare(<<>>, TaskItem, program) /\ TouchesIn(<<>>, program, Image_)
          /\ Plain(<<>>) /\ <<>> \in Seq(TaskItem)
      BY NothingIsBare DEF TouchesIn
    <3>3. WandFits(<<>>, NoWand)
      BY <3>2, PlainWand
    <3> QED BY <3>1, <3>2, <3>3
  <2>2. CASE program.kind = "elf"
    <3>1. W = (T \o K) \o P
      BY <2>2
    <3>2. Bare(T, TaskItem, program) /\ TouchesIn(T, program, {})
      <4> DEFINE item == Do("take_wand")
      <4>1. item \in TaskItem /\ item.do = "take_wand"
        BY DEF TaskItem, Do
      <4> HIDE DEF item
      <4>2. Bare(<<item>>, TaskItem, program) /\ TouchesIn(<<item>>, program, {})
        BY <4>1, SingleIsBare
      <4> QED BY <4>2 DEF item
    <3>3. Bare(P, TaskItem, program) /\ TouchesIn(P, program, {})
      <4> DEFINE item == Do("put_wand_back")
      <4>1. item \in TaskItem /\ item.do = "put_wand_back"
        BY DEF TaskItem, Do
      <4> HIDE DEF item
      <4>2. Bare(<<item>>, TaskItem, program) /\ TouchesIn(<<item>>, program, {})
        BY <4>1, SingleIsBare
      <4> QED BY <4>2 DEF item
    <3>4. /\ T \in Seq(TaskItem) /\ Len(T) = 1 /\ T[1].do = "take_wand"
          /\ P \in Seq(TaskItem) /\ Len(P) = 1 /\ P[1].do = "put_wand_back"
      BY <3>2, <3>3 DEF Bare, Do
    <3>5. K \in Seq(TaskItem)
      BY <1>7 DEF Bare
    <3> HIDE DEF T, P
    <3>6. Bare(T \o K, TaskItem, program) /\ TouchesIn(T \o K, program, {} \cup Image_)
      BY <1>7, <3>2, BareConcat
    <3>7. /\ Bare((T \o K) \o P, TaskItem, program)
          /\ TouchesIn((T \o K) \o P, program, ({} \cup Image_) \cup {})
      BY <3>3, <3>6, BareConcat
    <3>8. ({} \cup Image_) \cup {} = Image_
      OBVIOUS
    <3> DEFINE n == Len(K)
               U == (T \o K) \o P
    <3>9. /\ T \o K \in Seq(TaskItem) /\ Len(T \o K) = 1 + n
          /\ \A i \in 1 .. 1 : (T \o K)[i] = T[i]
          /\ \A i \in 1 .. n : (T \o K)[1 + i] = K[i]
      <4>1. /\ T \o K \in Seq(TaskItem) /\ Len(T \o K) = Len(T) + Len(K)
            /\ \A i \in 1 .. Len(T) : (T \o K)[i] = T[i]
            /\ \A i \in 1 .. Len(K) : (T \o K)[Len(T) + i] = K[i]
        BY <3>4, <3>5, ConcatAt, SMTT(30)
      <4> QED BY <3>4, <4>1
    <3>10. /\ U \in Seq(TaskItem) /\ Len(U) = (1 + n) + 1
           /\ \A i \in 1 .. 1 + n : U[i] = (T \o K)[i]
           /\ \A i \in 1 .. 1 : U[1 + n + i] = P[i]
      BY <3>4, <3>9, ConcatAt
    <3>11. n \in Nat /\ DOMAIN K = 1 .. n /\ DOMAIN U = 1 .. n + 2
      BY <3>5, <3>10
    <3>12. U[1].do = "take_wand" /\ U[n + 2].do = "put_wand_back"
      BY <3>4, <3>9, <3>10, <3>11
    <3>13. ASSUME NEW i \in 2 .. n + 1 PROVE U[i].do = "copy"
      <4>1. i - 1 \in 1 .. n /\ 1 + (i - 1) = i /\ i \in 1 .. 1 + n
        BY <3>11
      <4>2. U[i] = (T \o K)[i]
        BY <3>10, <4>1
      <4>3. (T \o K)[1 + (i - 1)] = K[i - 1] /\ i - 1 \in DOMAIN K
        BY <3>9, <3>11, <4>1
      <4>4. U[i] = K[i - 1]
        BY <4>1, <4>2, <4>3
      <4> HIDE DEF U
      <4> QED BY <1>7, <4>3, <4>4
    <3> HIDE DEF U, n
    <3>14. Copies(U, 1, n + 2)
      <4>1. ASSUME NEW i \in 1 .. n + 2 PROVE i = 1 \/ i = n + 2 \/ i \in 2 .. n + 1
        BY <3>11
      <4> QED BY <3>11, <3>12, <3>13, <4>1 DEF Copies
    <3>15. WandFits(U, NoWand)
      <4>1. 1 \in 0 .. Len(U) /\ n + 2 \in 0 .. Len(U) /\ 1 < n + 2
        BY <3>10, <3>11
      <4> QED BY <3>14, <4>1 DEF WandFits
    <3> QED BY <3>1, <3>7, <3>8, <3>15 DEF U
  <2> QED BY <2>1, <2>2
<1> HIDE DEF A, B, C, D, W, Image_
<1>9. /\ A \in Seq(TaskItem) /\ B \in Seq(TaskItem) /\ C \in Seq(TaskItem) /\ D \in Seq(TaskItem)
      /\ W \in Seq(TaskItem)
  BY <1>3, <1>4, <1>5, <1>6, <1>8 DEF Bare
<1>10. /\ Bare(A \o B, TaskItem, program) /\ TouchesIn(A \o B, program, ToSet(TaskStack) \cup {})
       /\ Plain(A \o B) /\ A \o B \in Seq(TaskItem)
  <2>1. /\ Bare(A \o B, TaskItem, program) /\ TouchesIn(A \o B, program, ToSet(TaskStack) \cup {})
    BY <1>3, <1>4, BareConcat
  <2>2. Plain(A \o B)
    BY <1>3, <1>4, <1>9, PlainConcat
  <2> QED BY <2>1, <2>2 DEF Bare
<1>11. /\ Bare(A \o B \o C, TaskItem, program)
       /\ TouchesIn(A \o B \o C, program, (ToSet(TaskStack) \cup {}) \cup {})
       /\ Plain(A \o B \o C) /\ A \o B \o C \in Seq(TaskItem)
  <2>1. /\ Bare(A \o B \o C, TaskItem, program)
        /\ TouchesIn(A \o B \o C, program, (ToSet(TaskStack) \cup {}) \cup {})
    BY <1>5, <1>10, BareConcat
  <2>2. Plain(A \o B \o C)
    BY <1>5, <1>9, <1>10, PlainConcat
  <2> QED BY <2>1, <2>2 DEF Bare
<1> DEFINE V == A \o B \o C \o D
           pages_ == ((ToSet(TaskStack) \cup {}) \cup {}) \cup ToSet(TaskHeap)
<1>12. /\ Bare(V, TaskItem, program) /\ TouchesIn(V, program, pages_)
       /\ Plain(V) /\ V \in Seq(TaskItem)
  <2>0. ((ToSet(TaskStack) \cup {}) \cup {}) \cap ToSet(TaskHeap) = {}
    BY <1>1
  <2>1. /\ Bare(V, TaskItem, program) /\ TouchesIn(V, program, pages_)
    BY <1>6, <1>11, <2>0, BareConcat
  <2>2. Plain(V)
    BY <1>6, <1>9, <1>11, PlainConcat
  <2> QED BY <2>1, <2>2 DEF Bare
<1>13. pages_ \cap Image_ = {}
  BY <1>2
<1> HIDE DEF V, pages_
<1>14. Bare(V \o W, TaskItem, program)
  BY <1>8, <1>12, <1>13, BareConcat
<1>15. WandFits(V \o W, NoWand)
  BY <1>8, <1>9, <1>12, WandConcat
<1>16. AfterClone(program) = V \o W
  BY DEF AfterClone, V, A, B, C, D, W
<1> QED BY <1>14, <1>15, <1>16

\* Tables to be made, and pages to be mapped, up to the heap's end.
LowOnly(s) ==
  \A i \in DOMAIN s : s[i].do \in {"get_page", "identity_map", "map"} /\ s[i].page < HeapEnd

\* Two sequences that stay below the end of the heap.
LEMMA LowConcat ==
  ASSUME NEW S, NEW a \in Seq(S), NEW b \in Seq(S), LowOnly(a), LowOnly(b)
  PROVE  LowOnly(a \o b)
<1>1. /\ a \o b \in Seq(S) /\ Len(a \o b) = Len(a) + Len(b)
      /\ \A i \in 1 .. Len(a) : (a \o b)[i] = a[i]
      /\ \A i \in 1 .. Len(b) : (a \o b)[Len(a) + i] = b[i]
  BY ConcatAt
<1>2. Len(a) \in Nat /\ Len(b) \in Nat
  OBVIOUS
<1>3. ASSUME NEW i \in DOMAIN (a \o b)
      PROVE  /\ (a \o b)[i].do \in {"get_page", "identity_map", "map"}
             /\ (a \o b)[i].page < HeapEnd
  <2>1. i \in 1 .. Len(a) + Len(b)
    BY <1>1
  <2>2. CASE i <= Len(a)
    <3>1. (a \o b)[i] = a[i] /\ i \in DOMAIN a
      BY <1>1, <1>2, <2>1, <2>2
    <3> QED BY <3>1 DEF LowOnly
  <2>3. CASE ~(i <= Len(a))
    <3>1. i - Len(a) \in 1 .. Len(b) /\ Len(a) + (i - Len(a)) = i
      BY <1>2, <2>1, <2>3
    <3>2. (a \o b)[i] = b[i - Len(a)] /\ i - Len(a) \in DOMAIN b
      BY <1>1, <3>1
    <3> QED BY <3>2 DEF LowOnly
  <2> QED BY <2>2, <2>3
<1> QED BY <1>3 DEF LowOnly

\* Until paging; what comes behind does not matter.
LEMMA UnpagedConcat ==
  ASSUME NEW S, NEW a \in Seq(S), NEW b \in Seq(S), Unpaged(a) \/ (LowOnly(a) /\ Unpaged(b))
  PROVE  Unpaged(a \o b)
<1> DEFINE c == a \o b
           Low(x) == x.do \in {"get_page", "identity_map", "map"} /\ x.page < HeapEnd
<1>1. /\ c \in Seq(S) /\ Len(c) = Len(a) + Len(b)
      /\ \A i \in 1 .. Len(a) : c[i] = a[i]
      /\ \A i \in 1 .. Len(b) : c[Len(a) + i] = b[i]
  BY ConcatAt
<1>2. /\ Len(a) \in Nat /\ Len(b) \in Nat /\ DOMAIN a = 1 .. Len(a) /\ DOMAIN b = 1 .. Len(b)
      /\ DOMAIN c = 1 .. Len(a) + Len(b)
  BY <1>1
<1>3. CASE Unpaged(a)
  <2>1. PICK k \in DOMAIN a : a[k].do = "paging" /\ \A i \in 1 .. k - 1 : Low(a[i])
    BY <1>3 DEF Unpaged
  <2> HIDE DEF c, Low
  <2>2. k \in DOMAIN c /\ c[k].do = "paging"
    BY <1>1, <1>2, <2>1
  <2>3. \A i \in 1 .. k - 1 : Low(c[i])
    <3>1. ASSUME NEW i \in 1 .. k - 1 PROVE Low(c[i])
      <4>1. i \in 1 .. Len(a)
        BY <1>2, <2>1
      <4> QED BY <1>1, <2>1, <4>1
    <3> QED BY <3>1
  <2> QED BY <2>2, <2>3 DEF Unpaged, Low, c
<1>4. CASE LowOnly(a) /\ Unpaged(b)
  <2>1. PICK k \in DOMAIN b : b[k].do = "paging" /\ \A i \in 1 .. k - 1 : Low(b[i])
    BY <1>4 DEF Unpaged
  <2>0. \A i \in DOMAIN a : Low(a[i])
    BY <1>4 DEF LowOnly
  <2> HIDE DEF c, Low
  <2>2. Len(a) + k \in DOMAIN c /\ c[Len(a) + k].do = "paging"
    BY <1>1, <1>2, <2>1
  <2>3. ASSUME NEW i \in 1 .. Len(a) + k - 1 PROVE Low(c[i])
    <3>1. CASE i <= Len(a)
      <4>1. i \in 1 .. Len(a)
        BY <1>2, <2>1, <3>1
      <4> QED BY <1>1, <1>2, <2>0, <4>1
    <3>2. CASE ~(i <= Len(a))
      <4>1. i - Len(a) \in 1 .. k - 1 /\ i - Len(a) \in 1 .. Len(b) /\ Len(a) + (i - Len(a)) = i
        BY <1>2, <2>1, <3>2
      <4>2. c[i] = b[i - Len(a)]
        BY <1>1, <4>1
      <4> QED BY <2>1, <4>1, <4>2
    <3> QED BY <3>1, <3>2
  <2>4. \A i \in 1 .. (Len(a) + k) - 1 : Low(c[i])
    BY <2>3
  <2>5. \E q \in DOMAIN c : c[q].do = "paging" /\ \A i \in 1 .. q - 1 : Low(c[i])
    BY <2>2, <2>4
  <2> QED BY <2>5 DEF Unpaged, Low, c
<1> QED BY <1>3, <1>4

\* What comes behind does not matter to the identity mapping, if it has none.
NoIdentity(s) == \A i \in DOMAIN s : s[i].do # "identity_map"

\* What follows the identity mapping does not matter to it.
LEMMA IdentityConcat ==
  ASSUME NEW S, NEW a \in Seq(S), NEW b \in Seq(S), NEW marked,
         IdentityFits(a, marked), NoIdentity(b)
  PROVE  IdentityFits(a \o b, marked)
<1> DEFINE c == a \o b
<1>1. /\ c \in Seq(S) /\ Len(c) = Len(a) + Len(b)
      /\ \A i \in 1 .. Len(a) : c[i] = a[i]
      /\ \A i \in 1 .. Len(b) : c[Len(a) + i] = b[i]
  BY ConcatAt
<1>2. /\ Len(a) \in Nat /\ Len(b) \in Nat /\ DOMAIN a = 1 .. Len(a) /\ DOMAIN b = 1 .. Len(b)
      /\ DOMAIN c = 1 .. Len(a) + Len(b)
  BY <1>1
<1> HIDE DEF c
<1>3. ASSUME NEW i \in DOMAIN c, c[i].do = "identity_map"
      PROVE  /\ marked \subseteq 0 .. c[i].page - 1
             /\ \A j \in 1 .. i - 1 : c[j].do = "get_page"
  <2>1. i <= Len(a)
    <3>1. CASE ~(i <= Len(a))
      <4>1. i - Len(a) \in 1 .. Len(b) /\ Len(a) + (i - Len(a)) = i
        BY <1>2, <3>1
      <4>2. c[i] = b[i - Len(a)] /\ i - Len(a) \in DOMAIN b
        BY <1>1, <1>2, <4>1
      <4> QED BY <1>3, <4>2 DEF NoIdentity
    <3> QED BY <3>1
  <2>2. i \in 1 .. Len(a) /\ i \in DOMAIN a /\ c[i] = a[i]
    BY <1>1, <1>2, <2>1
  <2>3. /\ marked \subseteq 0 .. a[i].page - 1
        /\ \A j \in 1 .. i - 1 : a[j].do = "get_page"
    BY <1>3, <2>2 DEF IdentityFits
  <2>4. \A j \in 1 .. i - 1 : j \in 1 .. Len(a)
    BY <1>2, <2>2
  <2> QED BY <1>1, <2>2, <2>3, <2>4
<1>4. IdentityFits(c, marked)
  BY <1>3 DEF IdentityFits
<1> QED BY <1>4 DEF c

\* What the kernel does before it has a task.
FirstSteps == KernelSteps \o <<[do |-> "stack", size |-> TaskKernelStack]>>

\* The pages mapped to themselves are below the heap, and the first is one.
LEMMA IdentityPagesAre ==
  /\ IdentityPages \subseteq 0 .. HeapStart - 1
  /\ \A n \in ModuleSizes : PlacementEnd(n) \in Nat \ {0}
  /\ ModuleSizes # {} => 0 \in IdentityPages
<1>0. /\ PageSize \in Nat \ {0} /\ Entries \in Nat \ {0} /\ HeapStart \in Nat \ {0}
      /\ HeapEnd \in Nat /\ HeapEnd - 1 \in Nat /\ HeapObject \in Nat
      /\ KernelEnd \in Nat /\ BitmapSize \in Nat /\ ModuleSizes \subseteq Nat
  BY MemoryAssumption, LayoutAssumption
<1>1. IdentityPages \subseteq 0 .. HeapStart - 1
  BY DEF IdentityPages
<1>2. ASSUME NEW n \in ModuleSizes PROVE PlacementEnd(n) \in Nat \ {0}
  <2> DEFINE a == Aligned(KernelEnd + n + BitmapSize)
             t == (HeapEnd - 1) \div Entries + 1
  <2>1. a \in Nat
    <3>1. KernelEnd + n + BitmapSize \in Nat
      BY <1>0
    <3> QED BY <3>1, AlignedIs
  <2>2. DirectorySize \in Nat \ {0}
    BY <1>0 DEF DirectorySize
  <2>3. a + DirectorySize \in Nat \ {0}
    BY <2>1, <2>2
  <2>4. Aligned(a + DirectorySize) \in Nat /\ Aligned(a + DirectorySize) >= a + DirectorySize
    BY <2>3, AlignedIs
  <2>5. t \in Nat
    BY <1>0, QuotientAndRest
  <2>6. PageSize * t \in Nat
    <3> HIDE DEF t
    <3> QED BY <1>0, <2>5
  <2> HIDE DEF a, t
  <2>7. Aligned(a + DirectorySize) + PageSize * t + HeapObject \in Nat \ {0}
    BY <1>0, <2>3, <2>4, <2>6
  <2> QED BY <2>7 DEF PlacementEnd, a, t
<1>3. ASSUME NEW n \in ModuleSizes PROVE 0 \in IdentityPages
  <2>1. 0 * PageSize < PlacementEnd(n)
    BY <1>0, <1>2
  <2>2. 0 \in 0 .. HeapStart - 1
    BY <1>0
  <2> QED BY <2>1, <2>2 DEF IdentityPages
<1> QED BY <1>1, <1>2, <1>3

\* setPaging, and the stacks that follow it, can be done.
LEMMA FirstStepsFit ==
  ASSUME ModuleSizes # {}
  PROVE  /\ Bare(FirstSteps, KernelItem, Initial) /\ Unpaged(FirstSteps)
         /\ TouchesIn(FirstSteps, Initial, KernelPages)
         /\ WandFits(FirstSteps, NoWand) /\ IdentityFits(FirstSteps, {})
         /\ KernelSteps \in Seq(KernelItem)
<1> DEFINE A == OnPages("get_page", HeapInOrder)
           i0 == [do |-> "identity_map", page |-> 0]
           B == <<i0>>
           C == OnPages("map", HeapInOrder)
           D == <<Do("paging"), [do |-> "stack", size |-> TaskKernelStack]>>
           E == OnPages("map", KernelStack)
           F == <<[do |-> "stack", size |-> TaskKernelStack]>>
<1>0. /\ HeapStart \in Nat \ {0} /\ HeapEnd \in Nat /\ HeapStart < HeapEnd
      /\ KernelStack \in Seq(Nat) /\ IsInjective(KernelStack)
      /\ ToSet(KernelStack) \subseteq HeapEnd .. Tables * Entries - 1
      /\ TaskKernelStack \in Nat
      /\ IdentityPages \subseteq 0 .. HeapStart - 1 /\ 0 \in IdentityPages
  BY LayoutAssumption, MemoryAssumption, IdentityPagesAre
<1>1. /\ HeapInOrder \in Seq(Nat) /\ IsInjective(HeapInOrder) /\ ToSet(HeapInOrder) = HeapPages
  <2> DEFINE n == HeapEnd - HeapStart
  <2>1. n \in Nat /\ HeapInOrder = [i \in 1 .. n |-> HeapStart + i - 1]
    BY <1>0 DEF HeapInOrder
  <2>2. HeapInOrder \in [1 .. n -> Nat]
    BY <1>0, <2>1
  <2>3. HeapInOrder \in Seq(Nat) /\ Len(HeapInOrder) = n /\ DOMAIN HeapInOrder = 1 .. n
    BY <2>1, <2>2, IsSequence
  <2>4. \A i \in 1 .. n : HeapInOrder[i] = HeapStart + i - 1
    BY <2>1
  <2>5. IsInjective(HeapInOrder)
    BY <1>0, <2>1, <2>3, <2>4 DEF IsInjective
  <2>6. ASSUME NEW p \in HeapPages PROVE p \in ToSet(HeapInOrder)
    <3>1. p - HeapStart + 1 \in 1 .. n /\ HeapStart + (p - HeapStart + 1) - 1 = p
      BY <1>0 DEF HeapPages
    <3> QED BY <2>3, <2>4, <3>1 DEF ToSet
  <2>7. ASSUME NEW i \in 1 .. n PROVE HeapInOrder[i] \in HeapPages
    BY <1>0, <2>4 DEF HeapPages
  <2> QED BY <2>3, <2>5, <2>6, <2>7 DEF ToSet
<1>2. Bare(A, KernelItem, Initial) /\ TouchesIn(A, Initial, {}) /\ Plain(A)
  <2>1. [do : {"get_page"}, page : ToSet(HeapInOrder)] \subseteq KernelItem
    BY <1>1 DEF KernelItem
  <2>2. /\ Bare(A, KernelItem, Initial) /\ Plain(A)
        /\ TouchesIn(A, Initial, IF "get_page" = "map" THEN ToSet(HeapInOrder) ELSE {})
    BY <1>1, <2>1, OnPagesIsBare
  <2> QED BY <2>2
<1>3. Bare(B, KernelItem, Initial) /\ TouchesIn(B, Initial, IdentityPages) /\ Plain(B)
  <2>1. i0 \in KernelItem /\ i0.do = "identity_map"
    BY <1>0 DEF KernelItem
  <2> HIDE DEF i0
  <2>2. B \in Seq(KernelItem) /\ DOMAIN B = {1} /\ B[1] = i0
    BY <2>1
  <2>3. CopyFits(i0, Initial) /\ \A p \in EveryPage : Touches(i0, Initial, p) => p \in IdentityPages
    BY <2>1 DEF CopyFits, Touches
  <2> HIDE DEF B
  <2> QED BY <2>1, <2>2, <2>3 DEF Bare, ItemsApart, TouchesIn, Plain
<1>4. Bare(C, KernelItem, Initial) /\ TouchesIn(C, Initial, HeapPages) /\ Plain(C)
  <2>1. [do : {"map"}, page : ToSet(HeapInOrder)] \subseteq KernelItem
    BY <1>1 DEF KernelItem
  <2>2. /\ Bare(C, KernelItem, Initial) /\ Plain(C)
        /\ TouchesIn(C, Initial, IF "map" = "map" THEN ToSet(HeapInOrder) ELSE {})
    BY <1>1, <2>1, OnPagesIsBare
  <2> QED BY <1>1, <2>2
<1>5. Bare(F, KernelItem, Initial) /\ TouchesIn(F, Initial, {}) /\ Plain(F)
  <2> DEFINE item == [do |-> "stack", size |-> TaskKernelStack]
  <2>1. item \in KernelItem /\ item.do = "stack"
    BY DEF KernelItem
  <2> HIDE DEF item
  <2>2. /\ Bare(<<item>>, KernelItem, Initial) /\ TouchesIn(<<item>>, Initial, {})
        /\ item.do \notin {"take_wand", "put_wand_back"} => Plain(<<item>>)
    BY <2>1, SingleIsBare
  <2> QED BY <2>1, <2>2 DEF item
<1> DEFINE G == <<Do("paging")>>
<1>6. Bare(G, KernelItem, Initial) /\ TouchesIn(G, Initial, {}) /\ Plain(G)
  <2> DEFINE item == Do("paging")
  <2>1. item \in KernelItem /\ item.do = "paging"
    BY DEF KernelItem, Do
  <2> HIDE DEF item
  <2>2. /\ Bare(<<item>>, KernelItem, Initial) /\ TouchesIn(<<item>>, Initial, {})
        /\ item.do \notin {"take_wand", "put_wand_back"} => Plain(<<item>>)
    BY <2>1, SingleIsBare
  <2> QED BY <2>1, <2>2 DEF item
<1>7. /\ D = G \o F /\ Unpaged(G)
  <2>1. D = G \o F
    OBVIOUS
  <2>2. G \in Seq(KernelItem) /\ DOMAIN G = {1} /\ G[1] = Do("paging") /\ 1 .. 1 - 1 = {}
    BY <1>6 DEF Bare
  <2>3. Unpaged(G)
    BY <2>2 DEF Unpaged, Do
  <2> QED BY <2>1, <2>3
<1>8. Bare(E, KernelItem, Initial) /\ TouchesIn(E, Initial, ToSet(KernelStack)) /\ Plain(E)
  <2>1. [do : {"map"}, page : ToSet(KernelStack)] \subseteq KernelItem
    BY DEF KernelItem
  <2>2. /\ Bare(E, KernelItem, Initial) /\ Plain(E)
        /\ TouchesIn(E, Initial, IF "map" = "map" THEN ToSet(KernelStack) ELSE {})
    BY <1>0, <2>1, OnPagesIsBare
  <2> QED BY <2>2
<1>9. LowOnly(A) /\ LowOnly(B) /\ LowOnly(C)
  <2>1. \A what : \A i \in DOMAIN OnPages(what, HeapInOrder) :
          /\ i \in DOMAIN HeapInOrder
          /\ OnPages(what, HeapInOrder)[i].do = what
          /\ OnPages(what, HeapInOrder)[i].page = HeapInOrder[i]
    BY DEF OnPages
  <2>2. \A i \in DOMAIN HeapInOrder : HeapInOrder[i] < HeapEnd
    <3>1. \A i \in DOMAIN HeapInOrder : HeapInOrder[i] \in HeapPages
      BY <1>1 DEF ToSet
    <3> QED BY <1>0, <3>1 DEF HeapPages
  <2>3. DOMAIN B = {1} /\ B[1].do = "identity_map" /\ B[1].page = 0
    OBVIOUS
  <2>4. LowOnly(B)
    BY <1>0, <2>3 DEF LowOnly
  <2> HIDE DEF A, C
  <2>5. LowOnly(A)
    BY <2>1, <2>2 DEF LowOnly, A
  <2>6. LowOnly(C)
    BY <2>1, <2>2 DEF LowOnly, C
  <2> QED BY <2>4, <2>5, <2>6
<1> HIDE DEF A, B, C, D, E, F, G, i0
<1>10. /\ A \in Seq(KernelItem) /\ B \in Seq(KernelItem) /\ C \in Seq(KernelItem)
       /\ E \in Seq(KernelItem) /\ F \in Seq(KernelItem) /\ G \in Seq(KernelItem)
  BY <1>2, <1>3, <1>4, <1>5, <1>6, <1>8 DEF Bare
<1> DEFINE AB == A \o B
           ABC == AB \o C
           ABCD == ABC \o D
           ABCDE == ABCD \o E
<1>11. Bare(AB, KernelItem, Initial) /\ TouchesIn(AB, Initial, {} \cup IdentityPages) /\ Plain(AB)
  <2>1. Bare(AB, KernelItem, Initial) /\ TouchesIn(AB, Initial, {} \cup IdentityPages)
    BY <1>2, <1>3, BareConcat
  <2> QED BY <1>2, <1>3, <1>10, <2>1, PlainConcat
<1>12. AB \in Seq(KernelItem) /\ LowOnly(AB)
  <2>1. LowOnly(AB)
    BY <1>9, <1>10, LowConcat
  <2> QED BY <1>11, <2>1 DEF Bare
<1> HIDE DEF AB
<1>13. /\ Bare(ABC, KernelItem, Initial) /\ Plain(ABC)
       /\ TouchesIn(ABC, Initial, ({} \cup IdentityPages) \cup HeapPages)
  <2>0. ({} \cup IdentityPages) \cap HeapPages = {}
    BY <1>0 DEF HeapPages
  <2>1. Bare(ABC, KernelItem, Initial) /\ TouchesIn(ABC, Initial, ({} \cup IdentityPages) \cup HeapPages)
    BY <1>4, <1>11, <2>0, BareConcat
  <2> QED BY <1>4, <1>10, <1>11, <1>12, <2>1, PlainConcat
<1>14. ABC \in Seq(KernelItem) /\ LowOnly(ABC)
  <2>1. LowOnly(ABC)
    BY <1>9, <1>10, <1>12, LowConcat
  <2> QED BY <1>13, <2>1 DEF Bare
<1> HIDE DEF ABC
<1>15. Bare(D, KernelItem, Initial) /\ TouchesIn(D, Initial, {} \cup {}) /\ Plain(D) /\ Unpaged(D)
  <2>1. Bare(G \o F, KernelItem, Initial) /\ TouchesIn(G \o F, Initial, {} \cup {})
    BY <1>5, <1>6, BareConcat
  <2>2. Plain(G \o F)
    BY <1>5, <1>6, <1>10, PlainConcat
  <2>3. Unpaged(G \o F)
    BY <1>7, <1>10, UnpagedConcat
  <2> QED BY <1>7, <2>1, <2>2, <2>3
<1>16. D \in Seq(KernelItem)
  BY <1>15 DEF Bare
<1> DEFINE P1 == (({} \cup IdentityPages) \cup HeapPages) \cup ({} \cup {})
<1>17. Bare(ABCD, KernelItem, Initial) /\ Plain(ABCD) /\ TouchesIn(ABCD, Initial, P1)
  <2>1. Bare(ABCD, KernelItem, Initial) /\ TouchesIn(ABCD, Initial, P1)
    BY <1>13, <1>15, BareConcat
  <2> QED BY <1>13, <1>14, <1>15, <1>16, <2>1, PlainConcat
<1>18. ABCD \in Seq(KernelItem) /\ Unpaged(ABCD)
  <2>1. Unpaged(ABCD)
    BY <1>14, <1>15, <1>16, UnpagedConcat
  <2> QED BY <1>17, <2>1 DEF Bare
<1> HIDE DEF ABCD
<1>19. P1 \cap ToSet(KernelStack) = {} /\ P1 \cup ToSet(KernelStack) = KernelPages
  <2>1. P1 = IdentityPages \cup HeapPages
    OBVIOUS
  <2>2. (IdentityPages \cup HeapPages) \cap ToSet(KernelStack) = {}
    BY <1>0 DEF HeapPages
  <2> QED BY <2>1, <2>2 DEF KernelPages
<1> HIDE DEF P1
<1>20. /\ Bare(ABCDE, KernelItem, Initial) /\ Plain(ABCDE)
       /\ TouchesIn(ABCDE, Initial, P1 \cup ToSet(KernelStack))
  <2>1. Bare(ABCDE, KernelItem, Initial) /\ TouchesIn(ABCDE, Initial, P1 \cup ToSet(KernelStack))
    BY <1>8, <1>17, <1>19, BareConcat
  <2> QED BY <1>8, <1>10, <1>17, <1>18, <2>1, PlainConcat
<1>21. ABCDE \in Seq(KernelItem) /\ Unpaged(ABCDE)
  <2>1. Unpaged(ABCDE)
    BY <1>10, <1>18, UnpagedConcat
  <2> QED BY <1>20, <2>1 DEF Bare
<1> HIDE DEF ABCDE
<1>22. FirstSteps = ABCDE \o F /\ KernelSteps = ABCDE
  BY DEF FirstSteps, KernelSteps, ABCDE, ABCD, ABC, AB, A, B, C, D, E, F, i0
<1>23. /\ Bare(ABCDE \o F, KernelItem, Initial)
       /\ TouchesIn(ABCDE \o F, Initial, (P1 \cup ToSet(KernelStack)) \cup {})
  BY <1>5, <1>20, BareConcat
<1>24. Plain(ABCDE \o F) /\ Unpaged(ABCDE \o F)
  <2>1. Plain(ABCDE \o F)
    BY <1>5, <1>10, <1>20, <1>21, PlainConcat
  <2>2. Unpaged(ABCDE \o F)
    BY <1>10, <1>21, UnpagedConcat
  <2> QED BY <2>1, <2>2
<1>25. (P1 \cup ToSet(KernelStack)) \cup {} = KernelPages
  BY <1>19
<1>26. ABCDE \o F \in Seq(KernelItem)
  BY <1>23 DEF Bare
<1>27. WandFits(ABCDE \o F, NoWand)
  BY <1>24, <1>26, PlainWand
<1>28. NoIdentity(C) /\ NoIdentity(D) /\ NoIdentity(E) /\ NoIdentity(F) /\ NoIdentity(A)
  <2>1. NoIdentity(A)
    BY DEF NoIdentity, A, OnPages
  <2>2. NoIdentity(C)
    BY DEF NoIdentity, C, OnPages
  <2>3. NoIdentity(E)
    BY DEF NoIdentity, E, OnPages
  <2>4. NoIdentity(F)
    BY DEF NoIdentity, F
  <2>5. NoIdentity(D)
    BY DEF NoIdentity, D, Do
  <2> QED BY <2>1, <2>2, <2>3, <2>4, <2>5
<1>29. IdentityFits(AB, {})
  <2>1. /\ AB \in Seq(KernelItem) /\ Len(AB) = Len(A) + Len(B)
        /\ \A i \in 1 .. Len(A) : AB[i] = A[i]
        /\ \A i \in 1 .. Len(B) : AB[Len(A) + i] = B[i]
    BY <1>10, ConcatAt DEF AB
  <2>2. Len(B) = 1 /\ Len(A) \in Nat /\ DOMAIN A = 1 .. Len(A) /\ DOMAIN AB = 1 .. Len(A) + 1
    <3>1. Len(B) = 1
      BY DEF B
    <3> QED BY <1>10, <2>1, <3>1
  <2>3. \A i \in 1 .. Len(A) : AB[i].do = "get_page"
    <3>1. \A i \in DOMAIN A : A[i].do = "get_page"
      BY DEF A, OnPages
    <3> QED BY <2>1, <2>2, <3>1
  <2>4. ASSUME NEW i \in DOMAIN AB, AB[i].do = "identity_map"
        PROVE  /\ {} \subseteq 0 .. AB[i].page - 1
               /\ \A j \in 1 .. i - 1 : AB[j].do = "get_page"
    <3>1. \A j \in 1 .. i - 1 : j \in 1 .. Len(A)
      BY <2>2
    <3> QED BY <2>3, <3>1
  <2> QED BY <2>4 DEF IdentityFits
<1>30. IdentityFits(ABC, {})
  BY <1>10, <1>12, <1>28, <1>29, IdentityConcat DEF ABC
<1>31. IdentityFits(ABCD, {})
  BY <1>14, <1>16, <1>28, <1>30, IdentityConcat DEF ABCD
<1>32. IdentityFits(ABCDE, {})
  BY <1>10, <1>18, <1>28, <1>31, IdentityConcat DEF ABCDE
<1>33. IdentityFits(ABCDE \o F, {})
  BY <1>10, <1>21, <1>28, <1>32, IdentityConcat
<1> QED BY <1>21, <1>22, <1>23, <1>24, <1>25, <1>27, <1>33

-----------------------------------------------------------------------------
(* What is left for later.                                                 *)

\* What may be to do once there is a directory.
TodoItem ==
  KernelItem \cup TaskItem \cup DeviceItem
    \cup [do : {"clone"}, program : TaskPrograms] \cup [do : {"switch"}]

\* CreateTask is a clone and what comes after it.
LEMMA MakeTaskIs ==
  ASSUME NEW program \in AllPrograms
  PROVE  /\ AfterClone(program) \in Seq(TaskItem) /\ AfterClone(program) \in Seq(TodoItem)
         /\ MakeTask(program) \in Seq(TodoItem)
         /\ \A u \in Seq(TodoItem) :
              /\ AfterClone(program) \o u \in Seq(TodoItem)
              /\ MakeTask(program) \o u
                   = <<[do |-> "clone", program |-> program]>> \o (AfterClone(program) \o u)
<1> DEFINE c == <<[do |-> "clone", program |-> program]>>
           a == AfterClone(program)
<1>1. a \in Seq(TaskItem)
  BY AfterCloneFits DEF Bare
<1>2. a \in Seq(TodoItem)
  <2>1. TaskItem \subseteq TodoItem
    BY DEF TodoItem
  <2> HIDE DEF a
  <2> QED BY <1>1, <2>1
<1>3. c \in Seq(TodoItem)
  <2>1. [do |-> "clone", program |-> program] \in TodoItem
    BY DEF TodoItem, TaskPrograms
  <2> QED BY <2>1
<1>4. MakeTask(program) = c \o a
  BY DEF MakeTask
<1> HIDE DEF a, c
<1>5. c \o a \in Seq(TodoItem)
  BY <1>2, <1>3
<1>6. \A u \in Seq(TodoItem) : a \o u \in Seq(TodoItem) /\ (c \o a) \o u = c \o (a \o u)
  BY <1>2, <1>3, ConcatAssociative
<1> QED BY <1>1, <1>2, <1>4, <1>5, <1>6 DEF a, c

\* Nothing flattened is nothing.
LEMMA FlattenNothing == FlattenSeq(<<>>) = <<>>
<1>1. <<>> \in Seq({}) /\ <<>> \in Seq(Seq({}))
  OBVIOUS
<1>2. FlattenSeq(<<>>) \in Seq({})
  BY <1>1, FlattenSeqCons
<1> QED BY <1>2

\* The tasks of the boot, one after the other.
LEMMA RestIs ==
  /\ Rest(Len(BootPrograms) + 1) = <<Do("switch")>>
  /\ \A j \in 1 .. Len(BootPrograms) :
       /\ BootPrograms[j] \in AllPrograms
       /\ Rest(j) = MakeTask(BootPrograms[j]) \o Rest(j + 1)
  /\ \A j \in 1 .. Len(BootPrograms) + 1 : Rest(j) \in Seq(TodoItem)
<1> DEFINE n == Len(BootPrograms)
           b(j) == [i \in 1 .. n + 1 - j |-> MakeTask(BootPrograms[j + i - 1])]
           w == <<Do("switch")>>
<1>1. n \in Nat /\ BootPrograms \in Seq(AllPrograms)
      /\ \A j \in 1 .. n : BootPrograms[j] \in AllPrograms
  BY LayoutAssumption
<1>2. w \in Seq(TodoItem)
  BY DEF TodoItem, Do
<1>3. \A j \in 1 .. n : MakeTask(BootPrograms[j]) \in Seq(TodoItem)
  BY <1>1, MakeTaskIs
<1>4. \A j \in 1 .. n + 1 : Rest(j) = FlattenSeq(b(j)) \o w
  BY DEF Rest
<1> HIDE DEF n
<1>5. ASSUME NEW j \in 1 .. n + 1
      PROVE  b(j) \in Seq(Seq(TodoItem)) /\ Len(b(j)) = n + 1 - j
             /\ \A i \in 1 .. n + 1 - j : b(j)[i] = MakeTask(BootPrograms[j + i - 1])
  <2>1. n + 1 - j \in Nat
    BY <1>1
  <2>2. ASSUME NEW i \in 1 .. n + 1 - j PROVE MakeTask(BootPrograms[j + i - 1]) \in Seq(TodoItem)
    BY <1>1, <1>3
  <2>3. b(j) \in [1 .. n + 1 - j -> Seq(TodoItem)]
    BY <2>2
  <2>4. b(j) \in Seq(Seq(TodoItem)) /\ Len(b(j)) = n + 1 - j
    BY <2>1, <2>3, IsSequence, ZenonT(40)
  <2> QED BY <2>4
<1>6. Rest(n + 1) = w
  <2>1. b(n + 1) = <<>>
    BY <1>1, <1>5
  <2>2. FlattenSeq(b(n + 1)) = <<>>
    BY <2>1, FlattenNothing
  <2> HIDE DEF b, w
  <2>3. n + 1 \in 1 .. n + 1 /\ <<>> \o w = w
    BY <1>1, <1>2
  <2> QED BY <1>4, <2>2, <2>3
<1>7. ASSUME NEW j \in 1 .. n
      PROVE  /\ FlattenSeq(b(j)) = MakeTask(BootPrograms[j]) \o FlattenSeq(b(j + 1))
             /\ FlattenSeq(b(j + 1)) \in Seq(TodoItem)
  <2> DEFINE x == MakeTask(BootPrograms[j])
             t == b(j + 1)
             u == <<x>> \o t
  <2>1. /\ j \in 1 .. n + 1 /\ j + 1 \in 1 .. n + 1 /\ n + 1 - (j + 1) = n - j
        /\ n - j \in Nat /\ n + 1 - j = 1 + (n - j)
    BY <1>1
  <2>2. /\ t \in Seq(Seq(TodoItem)) /\ Len(t) = n - j
        /\ \A i \in 1 .. n - j : t[i] = MakeTask(BootPrograms[j + 1 + i - 1])
    <3> HIDE DEF b
    <3> QED BY <1>5, <2>1
  <2>3. x \in Seq(TodoItem) /\ <<x>> \in Seq(Seq(TodoItem)) /\ Len(<<x>>) = 1 /\ <<x>>[1] = x
    BY <1>3
  <2> HIDE DEF t, x, b
  <2>4. /\ u \in Seq(Seq(TodoItem)) /\ Len(u) = 1 + (n - j)
        /\ \A i \in 1 .. 1 : u[i] = <<x>>[i]
        /\ \A i \in 1 .. n - j : u[1 + i] = t[i]
    BY <2>2, <2>3, ConcatAt
  <2>5. /\ b(j) \in Seq(Seq(TodoItem)) /\ Len(b(j)) = 1 + (n - j)
        /\ \A i \in 1 .. n + 1 - j : b(j)[i] = MakeTask(BootPrograms[j + i - 1])
    BY <1>5, <2>1
  <2>6. ASSUME NEW i \in 1 .. Len(b(j)) PROVE b(j)[i] = u[i]
    <3>1. CASE i = 1
      <4>1. 1 \in 1 .. n + 1 - j /\ j + 1 - 1 = j
        BY <1>1
      <4>2. b(j)[1] = x
        BY <2>5, <4>1 DEF x
      <4> QED BY <2>3, <2>4, <3>1, <4>2
    <3>2. CASE i # 1
      <4>1. i - 1 \in 1 .. n - j /\ 1 + (i - 1) = i /\ j + 1 + (i - 1) - 1 = j + i - 1
            /\ i \in 1 .. n + 1 - j
        BY <2>1, <2>5, <3>2
      <4>2. u[i] = t[i - 1] /\ t[i - 1] = MakeTask(BootPrograms[j + i - 1])
        BY <2>2, <2>4, <4>1
      <4> QED BY <2>5, <4>1, <4>2
    <3> QED BY <3>1, <3>2
  <2>7. b(j) = u
    <3>1. Len(b(j)) = Len(u) /\ \A i \in 1 .. Len(b(j)) : b(j)[i] = u[i]
      BY <2>4, <2>5, <2>6
    <3> HIDE DEF u
    <3> QED BY <2>4, <2>5, <3>1, SeqEqual
  <2>8. FlattenSeq(u) = x \o FlattenSeq(t) /\ FlattenSeq(t) \in Seq(TodoItem)
    BY <2>2, <2>3, FlattenSeqCons
  <2> QED BY <2>7, <2>8 DEF x, t
<1>8. \A j \in 2 .. n + 1 : FlattenSeq(b(j)) \in Seq(TodoItem)
  <2> HIDE DEF b
  <2>1. ASSUME NEW j \in 2 .. n + 1 PROVE FlattenSeq(b(j)) \in Seq(TodoItem)
    <3>1. j - 1 \in 1 .. n /\ (j - 1) + 1 = j
      BY <1>1
    <3> QED BY <1>7, <3>1
  <2> QED BY <2>1
<1> HIDE DEF b, w
<1>9. ASSUME NEW j \in 1 .. n
      PROVE  /\ Rest(j) = MakeTask(BootPrograms[j]) \o Rest(j + 1)
             /\ Rest(j) \in Seq(TodoItem)
  <2>1. j \in 1 .. n + 1 /\ j + 1 \in 1 .. n + 1 /\ j + 1 \in 2 .. n + 1
    BY <1>1
  <2>2. FlattenSeq(b(j + 1)) \in Seq(TodoItem) /\ MakeTask(BootPrograms[j]) \in Seq(TodoItem)
    BY <1>3, <1>7
  <2>3. (MakeTask(BootPrograms[j]) \o FlattenSeq(b(j + 1))) \o w
          = MakeTask(BootPrograms[j]) \o (FlattenSeq(b(j + 1)) \o w)
    BY <1>2, <2>2, ConcatAssociative, SMTT(30)
  <2>4. Rest(j) = MakeTask(BootPrograms[j]) \o Rest(j + 1)
    BY <1>4, <1>7, <2>1, <2>3
  <2>5. FlattenSeq(b(j + 1)) \o w \in Seq(TodoItem)
    BY <1>2, <2>2
  <2>6. (FlattenSeq(b(j + 1)) \o w) \in Seq(TodoItem) /\ Rest(j + 1) = FlattenSeq(b(j + 1)) \o w
    BY <1>4, <2>1, <2>5
  <2>7. MakeTask(BootPrograms[j]) \o Rest(j + 1) \in Seq(TodoItem)
    <3>1. \A x, y \in Seq(TodoItem) : x \o y \in Seq(TodoItem)
      OBVIOUS
    <3>2. MakeTask(BootPrograms[j]) \in Seq(TodoItem) /\ Rest(j + 1) \in Seq(TodoItem)
      BY <2>2, <2>6
    <3> QED BY Zenon, <3>1, <3>2
  <2> QED BY <2>4, <2>7
<1>10. ASSUME NEW j \in 1 .. n + 1 PROVE Rest(j) \in Seq(TodoItem)
  <2>1. CASE j = n + 1
    BY <1>2, <1>6, <2>1
  <2>2. CASE j # n + 1
    <3>1. j \in 1 .. n
      BY <1>1, <2>2
    <3> QED BY <1>9, <3>1
  <2> QED BY <2>1, <2>2
<1> QED BY <1>1, <1>6, <1>9, <1>10 DEF n, w

\* Nothing is left, or the switch at the end of the boot, or a task to be made.
LEMMA RestsAre ==
  ASSUME NEW r \in Rests
  PROVE  /\ r \in Seq(TodoItem)
         /\ \/ r = <<>>
            \/ r = <<Do("switch")>>
            \/ \E program \in AllPrograms, u \in Rests :
                 /\ r = <<[do |-> "clone", program |-> program]>> \o (AfterClone(program) \o u)
                 /\ AfterClone(program) \o u \in Seq(TodoItem) /\ u \in Seq(TodoItem)
<1> DEFINE n == Len(BootPrograms)
           Task(program, u) ==
             /\ r = <<[do |-> "clone", program |-> program]>> \o (AfterClone(program) \o u)
             /\ AfterClone(program) \o u \in Seq(TodoItem) /\ u \in Seq(TodoItem)
<1>0. n \in Nat
  BY LayoutAssumption
<1>1. CASE r = <<>>
  BY <1>1
<1>2. ASSUME NEW j \in 1 .. n + 1, r = Rest(j)
      PROVE  /\ r \in Seq(TodoItem)
             /\ \/ r = <<Do("switch")>>
                \/ \E program \in AllPrograms, u \in Rests : Task(program, u)
  <2>1. r \in Seq(TodoItem)
    BY <1>2, RestIs
  <2>2. CASE j = n + 1
    BY <1>2, <2>1, <2>2, RestIs
  <2>3. CASE j # n + 1
    <3>1. j \in 1 .. n /\ j + 1 \in 1 .. n + 1
      BY <1>0, <2>3
    <3> HIDE DEF n
    <3>2. /\ BootPrograms[j] \in AllPrograms /\ Rest(j + 1) \in Seq(TodoItem)
          /\ r = MakeTask(BootPrograms[j]) \o Rest(j + 1)
      BY <1>2, <3>1, RestIs DEF n
    <3>3. Rest(j + 1) \in Rests
      BY <3>1 DEF Rests, n
    <3>4. Task(BootPrograms[j], Rest(j + 1))
      BY <3>2, MakeTaskIs
    <3> HIDE DEF Task
    <3> QED BY <2>1, <3>2, <3>3, <3>4
  <2> QED BY <2>2, <2>3
<1>3. ASSUME NEW program \in Programs, r = MakeTask(program)
      PROVE  r \in Seq(TodoItem) /\ \E p \in AllPrograms, u \in Rests : Task(p, u)
  <2>1. program \in AllPrograms /\ <<>> \in Rests /\ <<>> \in Seq(TodoItem)
    BY DEF AllPrograms, Rests
  <2>2. r \in Seq(TodoItem) /\ r \o <<>> = r
    <3>1. r \in Seq(TodoItem)
      BY <1>3, <2>1, MakeTaskIs
    <3> QED BY <3>1
  <2>3. Task(program, <<>>)
    BY <1>3, <2>1, <2>2, MakeTaskIs
  <2> HIDE DEF Task
  <2> QED BY <2>1, <2>2, <2>3
<1>4. r = <<>> \/ (\E j \in 1 .. n + 1 : r = Rest(j)) \/ \E program \in Programs : r = MakeTask(program)
  BY DEF Rests
<1>5. <<>> \in Seq(TodoItem)
  OBVIOUS
<1> QED BY <1>1, <1>2, <1>3, <1>4, <1>5

\* What is left for later: nothing, the switch, or a task and what follows it.
CanBeLater(rest) ==
  \/ rest = <<>>
  \/ rest = <<Do("switch")>>
  \/ \E program \in AllPrograms, u \in Rests :
       /\ rest = <<[do |-> "clone", program |-> program]>> \o (AfterClone(program) \o u)
       /\ AfterClone(program) \o u \in Seq(TodoItem) /\ u \in Seq(TodoItem)

\* What the kernel is at is at the head of what it does, or one of the others.
LEMMA DoingIs ==
  ASSUME NEW s, NEW rest, Doing(s, rest)
  PROVE  /\ s \in Seq(Items) /\ s \in Seq(TodoItem) /\ rest \in Seq(TodoItem)
         /\ s = <<>> => todo = rest
         /\ s # <<>> =>
              /\ todo # <<>> /\ Head(todo) = s[1] /\ Tail(todo) = Tail(s) \o rest
              /\ s[1] \in Items /\ 1 \in DOMAIN s
         /\ tasks = <<>> => rest = <<[do |-> "clone", program |-> Initial]>> \o Rest(1)
                              /\ Rest(1) \in Seq(TodoItem) /\ Rest(1) \in Rests
         /\ tasks # <<>> => CanBeLater(rest)
<1>1. s \in Seq(Items) /\ todo = s \o rest /\ rest \in Later
  BY DEF Doing, ItemsFit, Bare
<1>2. s \in Seq(TodoItem)
  <2>1. Items \subseteq TodoItem
    BY DEF Items, TodoItem
  <2> QED BY <1>1, <2>1
<1>3. Rest(1) \in Seq(TodoItem) /\ Rest(1) \in Rests
  <2>1. 1 \in 1 .. Len(BootPrograms) + 1
    BY LayoutAssumption
  <2> QED BY <2>1, RestIs DEF Rests
<1>4. tasks = <<>> => rest = <<[do |-> "clone", program |-> Initial]>> \o Rest(1)
  BY <1>1 DEF Later, FirstRest
<1>5. tasks # <<>> => rest \in Rests
  BY <1>1 DEF Later
<1>6. rest \in Seq(TodoItem)
  <2>1. CASE tasks = <<>>
    <3>1. [do |-> "clone", program |-> Initial] \in TodoItem
      BY DEF TodoItem, TaskPrograms
    <3>2. \A x \in TodoItem, t \in Seq(TodoItem) : <<x>> \o t \in Seq(TodoItem)
      OBVIOUS
    <3> QED BY Zenon, <1>3, <1>4, <2>1, <3>1, <3>2
  <2>2. CASE tasks # <<>>
    BY <1>5, <2>2, RestsAre
  <2> QED BY <2>1, <2>2
<1>7. ASSUME s # <<>>
      PROVE  /\ todo # <<>> /\ Head(todo) = s[1] /\ Tail(todo) = Tail(s) \o rest
             /\ s[1] \in Items /\ 1 \in DOMAIN s
  <2>1. s[1] \in Items /\ 1 \in DOMAIN s
    BY <1>1, <1>7
  <2> QED BY <1>1, <1>2, <1>6, <1>7, <2>1, HeadOfConcat
<1>8. s = <<>> => todo = rest
  BY <1>1, <1>6
<1>9. tasks # <<>> => CanBeLater(rest)
  BY <1>5, RestsAre DEF CanBeLater
<1> QED BY <1>1, <1>2, <1>3, <1>4, <1>6, <1>7, <1>8, <1>9

\* What is neither a clone nor the switch belongs to what it is doing.
LEMMA AtHand ==
  ASSUME TodoFits, todo # <<>>, Head(todo).do \notin {"clone", "switch"}
  PROVE  \E s, rest : Doing(s, rest) /\ s # <<>>
<1>1. PICK s, rest : Doing(s, rest)
  BY DEF TodoFits
<1>2. ASSUME s = <<>> PROVE FALSE
  <2>1. todo = rest
    BY <1>1, <1>2, DoingIs
  <2>2. \A x, t : t \in Seq(TodoItem) => Head(<<x>> \o t) = x
    OBVIOUS
  <2>3. CASE tasks = <<>>
    <3>1. rest = <<[do |-> "clone", program |-> Initial]>> \o Rest(1) /\ Rest(1) \in Seq(TodoItem)
      BY <1>1, <2>3, DoingIs
    <3>2. Head(rest) = [do |-> "clone", program |-> Initial]
      BY Zenon, <2>2, <3>1
    <3> QED BY <2>1, <3>2
  <2>4. CASE tasks # <<>>
    <3>1. CASE rest = <<>>
      BY <2>1, <3>1
    <3>2. CASE rest = <<Do("switch")>>
      BY <2>1, <3>2 DEF Do
    <3>3. ASSUME NEW program, NEW u,
                 rest = <<[do |-> "clone", program |-> program]>> \o (AfterClone(program) \o u),
                 AfterClone(program) \o u \in Seq(TodoItem)
          PROVE  FALSE
      <4>1. Head(rest) = [do |-> "clone", program |-> program]
        BY Zenon, <2>2, <3>3
      <4> QED BY <2>1, <4>1
    <3>4. CanBeLater(rest)
      BY <1>1, <2>4, DoingIs
    <3> QED BY <3>1, <3>2, <3>3, <3>4 DEF CanBeLater
  <2> QED BY <2>3, <2>4
<1> QED BY <1>1, <1>2

-----------------------------------------------------------------------------
(* Going on with it.                                                       *)

\* The first thing is done, or another in its place gives no more pages a frame.
GoesOn(u, k, s, program) ==
  /\ Len(u) = Len(s) - k
  /\ \A i \in DOMAIN u :
       /\ i + k \in DOMAIN s /\ u[i].do = s[i + k].do
       /\ i + k # 1 => u[i] = s[i + k]
       /\ \A p \in EveryPage : Touches(u[i], program, p) => Touches(s[i + k], program, p)

\* What is left when the first thing is done.
LEMMA TailGoesOn ==
  ASSUME NEW S, NEW s \in Seq(S), s # <<>>, NEW program
  PROVE  Tail(s) \in Seq(S) /\ GoesOn(Tail(s), 1, s, program)
<1>1. /\ Len(s) \in Nat \ {0} /\ Tail(s) \in Seq(S) /\ Len(Tail(s)) = Len(s) - 1
      /\ \A i \in 1 .. Len(s) - 1 : Tail(s)[i] = s[i + 1]
      /\ DOMAIN s = 1 .. Len(s) /\ DOMAIN Tail(s) = 1 .. Len(s) - 1
  OBVIOUS
<1>2. \A i \in DOMAIN Tail(s) : i + 1 \in DOMAIN s /\ Tail(s)[i] = s[i + 1]
  BY <1>1
<1> QED BY <1>1, <1>2 DEF GoesOn

\* Another thing in place of the first, that touches no more pages.
LEMMA HeadGoesOn ==
  ASSUME NEW S, NEW s \in Seq(S), s # <<>>, NEW program, NEW h \in S, h.do = s[1].do,
         \A p \in EveryPage : Touches(h, program, p) => Touches(s[1], program, p)
  PROVE  /\ <<h>> \o Tail(s) \in Seq(S) /\ GoesOn(<<h>> \o Tail(s), 0, s, program)
         /\ (<<h>> \o Tail(s))[1] = h
         /\ \A r \in Seq(S) : <<h>> \o Tail(s \o r) = (<<h>> \o Tail(s)) \o r
<1> DEFINE u == <<h>> \o Tail(s)
<1>1. <<>> \in Seq(S)
  OBVIOUS
<1>2. /\ u \in Seq(S) /\ Len(u) = Len(s) /\ u[1] = h
      /\ \A i \in 2 .. Len(s) : u[i] = s[i]
  BY <1>1, HeadReplaced
<1>3. /\ Len(s) \in Nat \ {0} /\ DOMAIN s = 1 .. Len(s)
  OBVIOUS
<1>4. \A r \in Seq(S) : <<h>> \o Tail(s \o r) = u \o r
  BY HeadReplaced
<1> HIDE DEF u
<1>5. DOMAIN u = 1 .. Len(s)
  BY <1>2
<1>6. ASSUME NEW i \in DOMAIN u
      PROVE  /\ i + 0 \in DOMAIN s /\ u[i].do = s[i + 0].do
             /\ i + 0 # 1 => u[i] = s[i + 0]
             /\ \A p \in EveryPage : Touches(u[i], program, p) => Touches(s[i + 0], program, p)
  <2>1. i + 0 = i /\ i \in DOMAIN s
    BY <1>3, <1>5
  <2>2. CASE i = 1
    BY <1>2, <2>1, <2>2
  <2>3. CASE i # 1
    <3>1. u[i] = s[i]
      BY <1>2, <1>3, <1>5, <2>3
    <3> QED BY <2>1, <2>3, <3>1
  <2> QED BY <2>2, <2>3
<1>7. GoesOn(u, 0, s, program)
  BY <1>2, <1>3, <1>6 DEF GoesOn
<1> QED BY <1>2, <1>4, <1>7 DEF u

\* What is left can still be done.
LEMMA BareGoesOn ==
  ASSUME NEW items, NEW program, NEW s, Bare(s, items, program), s # <<>>,
         NEW k \in {0, 1}, NEW u \in Seq(items), GoesOn(u, k, s, program),
         k = 0 => CopyFits(u[1], program)
  PROVE  Bare(u, items, program)
<1>1. /\ s \in Seq(items) /\ ItemsApart(s, program)
      /\ \A i \in DOMAIN s : CopyFits(s[i], program)
  BY DEF Bare
<1>2. ASSUME NEW i \in DOMAIN u PROVE CopyFits(u[i], program)
  <2>0. i \in Nat \ {0} /\ i + k \in DOMAIN s
    BY DEF GoesOn
  <2>1. CASE i + k = 1
    <3>1. i = 1 /\ k = 0
      BY <2>0, <2>1
    <3> QED BY <3>1
  <2>2. CASE i + k # 1
    <3>1. u[i] = s[i + k]
      BY <2>2 DEF GoesOn
    <3> QED BY <1>1, <2>0, <3>1
  <2> QED BY <2>1, <2>2
<1>3. ASSUME NEW i \in DOMAIN u, NEW j \in DOMAIN u, NEW p \in EveryPage,
             Touches(u[i], program, p), Touches(u[j], program, p)
      PROVE  i = j
  <2>1. /\ i + k \in DOMAIN s /\ Touches(s[i + k], program, p)
        /\ j + k \in DOMAIN s /\ Touches(s[j + k], program, p)
    BY <1>3 DEF GoesOn
  <2>2. i + k = j + k
    BY <1>1, <2>1 DEF ItemsApart
  <2>3. i \in Nat /\ j \in Nat
    OBVIOUS
  <2> QED BY <2>2, <2>3
<1> QED BY <1>2, <1>3 DEF Bare, ItemsApart

\* The wand is taken, used and put back, in this order.
LEMMA WandGoesOn ==
  ASSUME NEW S, NEW s \in Seq(S), s # <<>>, NEW k \in {0, 1}, NEW u \in Seq(S), NEW program,
         GoesOn(u, k, s, program), NEW wd, NEW new, WandFits(s, wd)
  PROVE  /\ s[1].do = "take_wand" => wd = NoWand
         /\ s[1].do \in {"copy", "put_wand_back"} => wd # NoWand
         /\ s[1].do = "take_wand" /\ k = 1 /\ new # NoWand => WandFits(u, new)
         /\ s[1].do = "put_wand_back" /\ k = 1 => WandFits(u, NoWand)
         /\ s[1].do \notin {"take_wand", "put_wand_back"} => WandFits(u, wd)
<1>1. PICK a, b \in 0 .. Len(s) : /\ Copies(s, a, b)
                                  /\ a > 0 => a < b
                                  /\ wd # NoWand <=> a = 0 /\ b > 0
  BY DEF WandFits
<1>2. /\ Len(s) \in Nat \ {0} /\ DOMAIN s = 1 .. Len(s) /\ 1 \in DOMAIN s
      /\ Len(u) \in Nat /\ DOMAIN u = 1 .. Len(u) /\ Len(u) = Len(s) - k
  BY DEF GoesOn
<1>3. /\ s[1].do = "copy" <=> a < 1 /\ 1 < b
      /\ s[1].do = "take_wand" <=> 1 = a
      /\ s[1].do = "put_wand_back" <=> 1 = b
  BY <1>1, <1>2 DEF Copies
<1> DEFINE Moved(x) == IF x <= k THEN 0 ELSE x - k
<1>4. ASSUME k = 0 \/ TRUE PROVE Moved(a) \in 0 .. Len(u) /\ Moved(b) \in 0 .. Len(u)
  BY <1>1, <1>2
<1>5. ASSUME k = 0 => a # 0 \/ TRUE PROVE Copies(u, Moved(a), Moved(b))
  <2>1. ASSUME NEW i \in DOMAIN u
        PROVE  /\ u[i].do = "copy" <=> Moved(a) < i /\ i < Moved(b)
               /\ u[i].do = "take_wand" <=> i = Moved(a)
               /\ u[i].do = "put_wand_back" <=> i = Moved(b)
    <3>1. i + k \in DOMAIN s /\ u[i].do = s[i + k].do /\ i \in Nat \ {0}
      BY <1>2 DEF GoesOn
    <3>2. /\ s[i + k].do = "copy" <=> a < i + k /\ i + k < b
          /\ s[i + k].do = "take_wand" <=> i + k = a
          /\ s[i + k].do = "put_wand_back" <=> i + k = b
      BY <1>1, <3>1 DEF Copies
    <3>3. /\ a < i + k /\ i + k < b <=> Moved(a) < i /\ i < Moved(b)
          /\ i + k = a <=> i = Moved(a)
          /\ i + k = b <=> i = Moved(b)
      BY <1>1, <1>2, <3>1, SMTT(30)
    <3> QED BY <3>1, <3>2, <3>3
  <2> HIDE DEF Moved
  <2> QED BY <2>1 DEF Copies
<1>6. s[1].do = "take_wand" => wd = NoWand
  BY <1>1, <1>3
<1>7. s[1].do \in {"copy", "put_wand_back"} => wd # NoWand
  BY <1>1, <1>3
<1>8. ASSUME NEW w, Moved(a) > 0 => Moved(a) < Moved(b), w # NoWand <=> Moved(a) = 0 /\ Moved(b) > 0
      PROVE  WandFits(u, w)
  <2> HIDE DEF Moved
  <2> QED BY <1>4, <1>5, <1>8 DEF WandFits
<1>9. ASSUME s[1].do = "take_wand", k = 1, new # NoWand PROVE WandFits(u, new)
  BY <1>1, <1>3, <1>8, <1>9
<1>10. ASSUME s[1].do = "put_wand_back", k = 1 PROVE WandFits(u, NoWand)
  BY <1>1, <1>3, <1>8, <1>10
<1>11. ASSUME s[1].do \notin {"take_wand", "put_wand_back"} PROVE WandFits(u, wd)
  BY <1>1, <1>3, <1>8, <1>11
<1> QED BY <1>6, <1>7, <1>9, <1>10, <1>11

\* Paging is still to come, unless it is what was done.
LEMMA UnpagedGoesOn ==
  ASSUME NEW S, NEW s \in Seq(S), s # <<>>, NEW k \in {0, 1}, NEW u \in Seq(S), NEW program,
         GoesOn(u, k, s, program), Unpaged(s)
  PROVE  /\ s[1].do = "paging" \/ (/\ s[1].do \in {"get_page", "identity_map", "map"}
                                   /\ s[1].page < HeapEnd)
         /\ s[1].do # "paging" /\ (k = 0 => u[1].page < HeapEnd) => Unpaged(u)
<1>1. PICK q \in DOMAIN s : /\ s[q].do = "paging"
                            /\ \A i \in 1 .. q - 1 : /\ s[i].do \in {"get_page", "identity_map", "map"}
                                                     /\ s[i].page < HeapEnd
  BY DEF Unpaged
<1>2. /\ Len(s) \in Nat \ {0} /\ DOMAIN s = 1 .. Len(s) /\ 1 \in DOMAIN s
      /\ Len(u) \in Nat /\ DOMAIN u = 1 .. Len(u) /\ Len(u) = Len(s) - k
  BY DEF GoesOn
<1>3. q # 1 => 1 \in 1 .. q - 1
  BY <1>2
<1>4. ASSUME s[1].do # "paging", k = 0 => u[1].page < HeapEnd
      PROVE  Unpaged(u)
  <2>1. q - k \in DOMAIN u /\ (q - k) + k = q /\ q # 1
    BY <1>1, <1>2, <1>4
  <2>2. u[q - k].do = "paging"
    <3>1. u[q - k].do = s[(q - k) + k].do
      BY <2>1 DEF GoesOn
    <3> QED BY <1>1, <2>1, <3>1
  <2>3. ASSUME NEW i \in 1 .. (q - k) - 1
        PROVE  u[i].do \in {"get_page", "identity_map", "map"} /\ u[i].page < HeapEnd
    <3>1. i + k \in 1 .. q - 1 /\ i \in DOMAIN u
      BY <1>2, <2>1, SMTT(30)
    <3>2. u[i].do = s[i + k].do /\ (i + k # 1 => u[i] = s[i + k])
      BY <3>1 DEF GoesOn
    <3>3. CASE i + k # 1
      BY <1>1, <3>1, <3>2, <3>3
    <3>4. CASE i + k = 1
      <4>1. i = 1 /\ k = 0
        BY <3>1, <3>4
      <4> QED BY <1>1, <1>4, <3>1, <3>2, <4>1
    <3> QED BY <3>3, <3>4
  <2>4. \E x \in DOMAIN u : /\ u[x].do = "paging"
                            /\ \A i \in 1 .. x - 1 : /\ u[i].do \in {"get_page", "identity_map", "map"}
                                                     /\ u[i].page < HeapEnd
    BY <2>1, <2>2, <2>3
  <2> QED BY <2>4 DEF Unpaged
<1> QED BY <1>1, <1>3, <1>4

\* The identity mapping still takes the first frames, in order.
LEMMA IdentityGoesOn ==
  ASSUME NEW S, NEW s \in Seq(S), s # <<>>, NEW k \in {0, 1}, NEW u \in Seq(S), NEW program,
         GoesOn(u, k, s, program), NEW marked, IdentityFits(s, marked), NEW more
  PROVE  /\ k = 1 => IdentityFits(u, marked)
         /\ k = 1 /\ s[1].do # "get_page" => IdentityFits(u, more)
         /\ k = 0 /\ s[1].do \notin {"get_page", "identity_map"} => IdentityFits(u, more)
         /\ k = 0 /\ s[1].do = "identity_map" /\ more \subseteq 0 .. u[1].page - 1 =>
              IdentityFits(u, more)
         /\ s[1].do = "identity_map" => marked \subseteq 0 .. s[1].page - 1
<1>1. /\ Len(s) \in Nat \ {0} /\ DOMAIN s = 1 .. Len(s) /\ 1 \in DOMAIN s
      /\ Len(u) \in Nat /\ DOMAIN u = 1 .. Len(u) /\ Len(u) = Len(s) - k
  BY DEF GoesOn
<1>2. \A i \in DOMAIN s : s[i].do = "identity_map" =>
         /\ marked \subseteq 0 .. s[i].page - 1
         /\ \A j \in 1 .. i - 1 : s[j].do = "get_page"
  BY DEF IdentityFits
<1>3. ASSUME NEW i \in DOMAIN u, u[i].do = "identity_map", i + k # 1
      PROVE  /\ s[1].do = "get_page" /\ marked \subseteq 0 .. u[i].page - 1
             /\ k = 1 => \A j \in 1 .. i - 1 : u[j].do = "get_page"
  <2>1. i + k \in DOMAIN s /\ u[i] = s[i + k] /\ i \in Nat \ {0}
    BY <1>1, <1>3 DEF GoesOn
  <2>2. /\ marked \subseteq 0 .. u[i].page - 1
        /\ \A j \in 1 .. (i + k) - 1 : s[j].do = "get_page"
    BY <1>2, <1>3, <2>1
  <2>3. 1 \in 1 .. (i + k) - 1
    BY <1>3, <2>1
  <2>4. ASSUME NEW j \in 1 .. i - 1 PROVE u[j].do = "get_page"
    <3>1. j \in DOMAIN u /\ j + k \in 1 .. (i + k) - 1
      BY <1>1, <2>1
    <3> QED BY <2>2, <3>1 DEF GoesOn
  <2> QED BY <2>2, <2>3, <2>4
<1>4. ASSUME k = 1 PROVE IdentityFits(u, marked)
  <2>1. \A i \in DOMAIN u : i + k # 1
    BY <1>1, <1>4
  <2> QED BY <1>3, <1>4, <2>1 DEF IdentityFits
<1>5. ASSUME k = 1, s[1].do # "get_page" PROVE IdentityFits(u, more)
  <2>1. \A i \in DOMAIN u : i + k # 1
    BY <1>1, <1>5
  <2> QED BY <1>3, <1>5, <2>1 DEF IdentityFits
<1>6. ASSUME NEW i \in DOMAIN u, k = 0, i + k = 1 PROVE i = 1 /\ u[1].do = s[1].do
  <2>1. i = 1 /\ i + k = 1
    BY <1>1, <1>6
  <2> QED BY <2>1, <1>6 DEF GoesOn
<1>7. ASSUME k = 0, s[1].do \notin {"get_page", "identity_map"} PROVE IdentityFits(u, more)
  <2>1. \A i \in DOMAIN u : u[i].do # "identity_map"
    BY <1>3, <1>6, <1>7
  <2> QED BY <2>1 DEF IdentityFits
<1>8. ASSUME k = 0, s[1].do = "identity_map", more \subseteq 0 .. u[1].page - 1
      PROVE  IdentityFits(u, more)
  <2>1. \A i \in DOMAIN u : u[i].do = "identity_map" => i = 1
    BY <1>3, <1>6, <1>8
  <2>2. 1 .. 1 - 1 = {}
    OBVIOUS
  <2> QED BY <1>8, <2>1, <2>2 DEF IdentityFits
<1>9. s[1].do = "identity_map" => marked \subseteq 0 .. s[1].page - 1
  BY <1>1, <1>2
<1> QED BY <1>4, <1>5, <1>7, <1>8, <1>9

-----------------------------------------------------------------------------
(* Pages.                                                                  *)

\* Where pages are in the tables; those of the kernel and of tasks are pages.
LEMMA EveryPageIs ==
  /\ \A p \in EveryPage : /\ p \in Nat /\ p \div Entries \in AllTables /\ p % Entries \in Positions
                          /\ p = (p \div Entries) * Entries + (p % Entries)
  /\ KernelPages \subseteq EveryPage /\ TaskPages \subseteq EveryPage
  /\ HeapPages \subseteq KernelPages /\ IdentityPages \subseteq KernelPages
  /\ \A s \in DevicePages : ToSet(s) \subseteq EveryPage
<1>0. /\ Entries \in Nat \ {0} /\ Tables \in Nat /\ HeapStart \in Nat \ {0} /\ HeapEnd \in Nat
      /\ HeapStart < HeapEnd /\ HeapEnd <= Tables * Entries
      /\ ToSet(KernelStack) \subseteq HeapEnd .. Tables * Entries - 1
  BY MemoryAssumption, LayoutAssumption
<1> DEFINE n == Tables * Entries
<1>1. n \in Nat
  BY <1>0, ProductOrder
<1>2. ASSUME NEW p \in EveryPage
      PROVE  /\ p \in Nat /\ p \div Entries \in AllTables /\ p % Entries \in Positions
             /\ p = (p \div Entries) * Entries + (p % Entries)
  <2>1. p \in Nat /\ p < Tables * Entries
    BY <1>1 DEF EveryPage
  <2>2. p \div Entries < Tables
    BY <1>0, <2>1, QuotientBelow
  <2>3. /\ p \div Entries \in Nat /\ p % Entries \in 0 .. Entries - 1
        /\ p = (p \div Entries) * Entries + (p % Entries)
    BY <1>0, <2>1, QuotientAndRest
  <2> QED BY <1>0, <2>1, <2>2, <2>3 DEF AllTables, Positions
<1>3. KernelPages \subseteq EveryPage
  <2>1. IdentityPages \subseteq 0 .. HeapStart - 1
    BY IdentityPagesAre
  <2>2. EveryPage = 0 .. n - 1 /\ HeapEnd <= n /\ ToSet(KernelStack) \subseteq HeapEnd .. n - 1
    BY <1>0 DEF EveryPage
  <2>3. HeapStart \in Nat \ {0} /\ HeapEnd \in Nat /\ HeapStart < HeapEnd
    BY <1>0
  <2> HIDE DEF n
  <2>4. IdentityPages \subseteq EveryPage
    BY <1>1, <2>1, <2>2, <2>3
  <2>5. HeapPages \subseteq EveryPage
    BY <1>1, <2>2, <2>3 DEF HeapPages
  <2>6. ToSet(KernelStack) \subseteq EveryPage
    BY <1>1, <2>2, <2>3
  <2> QED BY <2>4, <2>5, <2>6 DEF KernelPages
<1>4. TaskPages \subseteq EveryPage /\ \A s \in DevicePages : ToSet(s) \subseteq EveryPage
  BY LayoutAssumption DEF EveryPage
<1>5. HeapPages \subseteq KernelPages /\ IdentityPages \subseteq KernelPages
  BY DEF KernelPages
<1> QED BY <1>2, <1>3, <1>4, <1>5

\* A page is at a place of its own.
LEMMA PlacesOfPages ==
  ASSUME NEW p \in EveryPage, NEW q \in EveryPage,
         p \div Entries = q \div Entries, p % Entries = q % Entries
  PROVE  p = q
<1>1. /\ p = (p \div Entries) * Entries + (p % Entries)
      /\ q = (q \div Entries) * Entries + (q % Entries)
  BY EveryPageIs
<1> QED BY <1>1

\* What is still to be copied of a segment.
LEMMA CopyIs ==
  ASSUME NEW program \in TaskPrograms, NEW item \in TaskItem, item.do = "copy",
         CopyFits(item, program)
  PROVE  LET s == program.segments[item.segment]
         IN  /\ s.virt \in Nat /\ s.memsz \in Nat \ {0} /\ item.copied \in Nat
             /\ item.copied < s.memsz
             /\ (s.virt + item.copied) \div PageSize \in SegmentPages(s)
             /\ \A p \in EveryPage : Touches(item, program, p) =>
                  /\ p \in SegmentPages(s) /\ (s.virt + item.copied) \div PageSize <= p
             /\ Touches(item, program, (s.virt + item.copied) \div PageSize)
             /\ SegmentPages(s) \subseteq TaskPages
<1> DEFINE s == program.segments[item.segment]
           first == (s.virt + item.copied) \div PageSize
           last == (s.virt + s.memsz - 1) \div PageSize
<1>0. PageSize \in Nat \ {0}
  BY MemoryAssumption
<1>1. program \in AllPrograms
  <2>1. item.segment \in DOMAIN program.segments
    BY DEF CopyFits
  <2>2. DOMAIN Initial.segments = {}
    BY DEF Initial
  <2> QED BY <2>1, <2>2 DEF TaskPrograms
<1>2. item.segment \in DOMAIN program.segments /\ item.copied < s.memsz
  BY DEF CopyFits
<1>3. /\ s.virt \in Nat /\ s.memsz \in Nat \ {0}
      /\ s.virt \div PageSize \in Nat /\ last \in Nat
      /\ SegmentPages(s) \subseteq TaskPages
  BY <1>1, <1>2, SegmentIs
<1>4. item.copied \in Nat
  BY DEF TaskItem
<1> HIDE DEF s
<1>5. /\ s.virt + item.copied \in Nat /\ s.virt + s.memsz - 1 \in Nat
      /\ s.virt <= s.virt + item.copied /\ s.virt + item.copied <= s.virt + s.memsz - 1
  BY <1>2, <1>3, <1>4
<1>6. first \in Nat
  BY <1>0, <1>5, QuotientAndRest
<1>7. s.virt \div PageSize <= first
  BY <1>0, <1>3, <1>5, QuotientOrder
<1>8. first <= last
  BY <1>0, <1>5, QuotientOrder
<1>9. Touches(item, program, first)
  BY <1>6, <1>8 DEF Touches, s
<1> HIDE DEF first, last
<1>10. first \in SegmentPages(s)
  BY <1>3, <1>6, <1>7, <1>8 DEF SegmentPages, last
<1>11. ASSUME NEW p \in EveryPage, Touches(item, program, p)
       PROVE  p \in SegmentPages(s) /\ first <= p
  <2>1. first <= p /\ p <= last
    BY <1>11 DEF Touches, s, first, last
  <2>2. p \in Nat
    BY EveryPageIs
  <2> QED BY <1>3, <1>6, <1>7, <2>1, <2>2 DEF SegmentPages, last
<1> QED BY <1>2, <1>3, <1>4, <1>9, <1>10, <1>11 DEF s, first

\* What is done for a task gives frames to its pages.
LEMMA TaskTouches ==
  ASSUME NEW program \in TaskPrograms, NEW item \in TaskItem \cup DeviceItem, CopyFits(item, program),
         NEW p \in EveryPage, Touches(item, program, p)
  PROVE  p \in TaskPages
<1>1. CASE item.do = "map"
  <2>1. item.page \in ToSet(TaskStack) \cup ToSet(TaskHeap)
    BY <1>1 DEF TaskItem, DeviceItem
  <2>2. p = item.page
    BY <1>1 DEF Touches
  <2> QED BY <2>1, <2>2 DEF TaskPages
<1>2. CASE item.do = "copy"
  <2>1. item \in TaskItem
    BY <1>2 DEF DeviceItem
  <2> QED BY <1>2, <2>1, CopyIs
<1>3. CASE item.do \notin {"map", "copy"}
  <2>1. item.do # "identity_map"
    BY DEF TaskItem, DeviceItem
  <2> QED BY <1>3, <2>1 DEF Touches
<1> QED BY <1>1, <1>2, <1>3

\* The program at hand, and the last of the tasks.
LEMMA ProgramIs ==
  ASSUME TasksFit
  PROVE  /\ TaskProgram \in TaskPrograms
         /\ tasks # <<>> => Len(tasks) \in DOMAIN tasks /\ Last(tasks) = tasks[Len(tasks)]
<1>1. tasks \in Seq([directory : Nat, program : TaskPrograms])
  BY DEF TasksFit
<1>2. Initial \in TaskPrograms
  BY DEF TaskPrograms
<1>3. tasks # <<>> => Len(tasks) \in DOMAIN tasks /\ Last(tasks) = tasks[Len(tasks)]
  BY <1>1 DEF Last
<1>4. \A i \in DOMAIN tasks : tasks[i].program \in TaskPrograms
  <2> DEFINE Task == [directory : Nat, program : TaskPrograms]
  <2>1. \A i \in DOMAIN tasks : tasks[i] \in Task
    <3>1. tasks \in Seq(Task)
      BY <1>1
    <3> HIDE DEF Task
    <3> QED BY <3>1
  <2> QED BY <2>1
<1> QED BY <1>2, <1>3, <1>4 DEF TaskProgram

\* The page that is at hand.
LEMMA PageIs ==
  ASSUME TasksFit, NEW s, NEW rest, Doing(s, rest), s # <<>>,
         s[1].do \in {"get_page", "identity_map", "map", "copy", "device"}
  PROVE  /\ PageAtHand \in EveryPage
         /\ tasks = <<>> => PageAtHand \in KernelPages
         /\ s[1].do # "copy" => PageAtHand = s[1].page
         /\ s[1].do \in {"map", "copy"} => Touches(s[1], TaskProgram, PageAtHand)
         /\ s[1].do = "device" => tasks # <<>> /\ PageAtHand \in Devices
         /\ s[1].do = "identity_map" => PageAtHand \in IdentityPages /\ tasks = <<>>
         /\ s[1].do = "copy" =>
              /\ tasks # <<>> /\ TaskProgram = Last(tasks).program /\ PageAtHand \in TaskPages
              /\ LET g == TaskProgram.segments[s[1].segment]
                 IN  PageAtHand = (g.virt + s[1].copied) \div PageSize
<1>1. s[1] \in Items /\ Head(todo) = s[1] /\ 1 \in DOMAIN s
  BY DoingIs
<1>2. CASE s[1].do # "copy"
  <2>1. PageAtHand = s[1].page
    BY <1>1, <1>2 DEF PageAtHand
  <2>2. CASE tasks = <<>>
    <3>1. s[1] \in KernelItem
      BY <1>1, <2>2 DEF Items
    <3>2. s[1].do \in {"get_page", "identity_map", "map"}
      BY <3>1, <1>2 DEF KernelItem
    <3>3. s[1].page \in KernelPages /\ (s[1].do = "identity_map" => s[1].page \in IdentityPages)
      BY <3>1, <3>2 DEF KernelItem, KernelPages
    <3> QED BY <1>2, <2>1, <2>2, <3>2, <3>3, EveryPageIs DEF Touches
  <2>3. CASE tasks # <<>>
    <3>1. s[1] \in TaskItem \cup DeviceItem
      BY <1>1, <2>3 DEF Items
    <3>2. /\ s[1].do \in {"map", "device"} /\ s[1].page \in TaskPages \cup Devices
          /\ s[1].do = "device" => s[1].page \in Devices
      BY <3>1, <1>2 DEF TaskItem, DeviceItem, TaskPages
    <3>3. Devices \subseteq EveryPage
      BY EveryPageIs DEF Devices
    <3> QED BY <1>2, <2>1, <2>3, <3>2, <3>3, EveryPageIs DEF Touches
  <2> QED BY <2>2, <2>3
<1>3. CASE s[1].do = "copy"
  <2>1. tasks # <<>> /\ s[1] \in TaskItem
    <3>1. tasks = <<>> => s[1] \in KernelItem
      BY <1>1 DEF Items
    <3>2. s[1] \notin KernelItem
      BY <1>3 DEF KernelItem
    <3>3. s[1] \notin DeviceItem
      BY <1>3 DEF DeviceItem
    <3> QED BY <1>1, <3>1, <3>2, <3>3 DEF Items
  <2>2. TaskProgram = Last(tasks).program /\ TaskProgram \in TaskPrograms
    BY <2>1, ProgramIs DEF TaskProgram
  <2>3. PageAtHand = (TaskProgram.segments[s[1].segment].virt + s[1].copied) \div PageSize
    BY <1>1, <1>3, <2>2 DEF PageAtHand
  <2>4. CopyFits(s[1], TaskProgram)
    BY <1>1 DEF Doing, ItemsFit, Bare
  <2>5. Touches(s[1], TaskProgram, PageAtHand) /\ PageAtHand \in TaskPages
    BY <1>3, <2>1, <2>2, <2>3, <2>4, CopyIs
  <2> QED BY <1>3, <2>1, <2>2, <2>3, <2>5, EveryPageIs, Zenon
<1> QED BY <1>2, <1>3

\* What a page has in a directory.
LEMMA FrameIs ==
  ASSUME SpacesFit, NEW d \in DOMAIN directories, NEW p \in EveryPage
  PROVE  /\ TableOf(d, p) = directories[d].tables[p \div Entries]
         /\ TableOf(d, p) \in {0} \cup DOMAIN pages
         /\ FrameOf(d, p) = Frame(pages, directories[d].tables[p \div Entries], p)
         /\ FrameOf(d, p) \in Nat
         /\ directories[d].tables \in [AllTables -> {0} \cup DOMAIN pages]
         /\ directories[d].physicals \in [AllTables -> Nat]
<1>1. p \div Entries \in AllTables /\ p % Entries \in Positions
  BY EveryPageIs
<1>2. directories[d] \in Directory(DOMAIN pages)
  BY DEF SpacesFit
<1>3. /\ directories[d].tables \in [AllTables -> {0} \cup DOMAIN pages]
      /\ directories[d].physicals \in [AllTables -> Nat]
  BY <1>2 DEF Directory
<1>4. TableOf(d, p) = directories[d].tables[p \div Entries] /\ TableOf(d, p) \in {0} \cup DOMAIN pages
  BY <1>1, <1>3 DEF TableOf
<1>5. FrameOf(d, p) = Frame(pages, directories[d].tables[p \div Entries], p)
  BY <1>4 DEF FrameOf, Frame
<1>6. FrameOf(d, p) \in Nat
  <2>1. CASE TableOf(d, p) = 0
    BY <2>1, MemoryAssumption DEF FrameOf, NoFrame
  <2>2. CASE TableOf(d, p) # 0
    <3>1. pages[TableOf(d, p)] \in [Positions -> Nat]
      BY <1>4, <2>2 DEF SpacesFit
    <3> QED BY <1>1, <2>2, <3>1 DEF FrameOf
  <2> QED BY <2>1, <2>2
<1> QED BY <1>3, <1>4, <1>5, <1>6

\* A physical address is a number.
LEMMA PhysicalIs ==
  ASSUME AllocationFits, SpacesFit, NEW n \in Nat \ {0}, NEW a \in Addresses(n)
  PROVE  Physical(a) \in Nat
<1>0. PageSize \in Nat \ {0}
  BY MemoryAssumption
<1>1. CASE placement # 0
  BY <1>1, AddressesAreNew DEF Physical
<1>2. CASE placement = 0
  <2>1. a \in Nat /\ a \div PageSize \in EveryPage
    BY <1>2, AddressesAreNew, EveryPageIs
  <2>2. FrameOf(kernel, a \div PageSize) \in Nat
    BY <2>1, FrameIs DEF SpacesFit
  <2>3. a % PageSize \in Nat
    BY <1>0, <2>1, QuotientAndRest
  <2> DEFINE f == FrameOf(kernel, a \div PageSize)
             r == a % PageSize
  <2>4. Physical(a) = f * PageSize + r
    BY <1>2 DEF Physical, PhysAddr
  <2> HIDE DEF f, r
  <2>5. f \in Nat /\ r \in Nat
    BY <2>2, <2>3 DEF f, r
  <2>6. f * PageSize \in Nat
    BY <1>0, <2>5
  <2> QED BY <2>4, <2>5, <2>6
<1> QED BY <1>1, <1>2

\* What is left still finds its pages without frames.
LEMMA UnmappedGoesOn ==
  ASSUME NEW s, NEW k, NEW u, NEW program, GoesOn(u, k, s, program), NEW pgs, NEW tables,
         ItemsUnmapped(s, program, pgs, tables)
  PROVE  ItemsUnmapped(u, program, pgs, tables)
BY DEF GoesOn, ItemsUnmapped

\* What is to be done goes on, one thing after the other.
LEMMA TodoGoesOn ==
  ASSUME NEW s, NEW rest, Doing(s, rest), s # <<>>, NEW k \in {0, 1}, NEW u \in Seq(Items),
         GoesOn(u, k, s, TaskProgram), todo' = u \o rest, tasks' = tasks,
         k = 0 => CopyFits(u[1], TaskProgram),
         ItemsUnmapped(u, TaskProgram, pages', directories'[target'].tables),
         WandFits(u, wand'), IdentityFits(u, frames'),
         placement' # 0 => Unpaged(u) /\ PlacementFits'
  PROVE  TodoFits'
<1>1. Bare(s, Items, TaskProgram) /\ rest \in Later
  BY DEF Doing, ItemsFit
<1>2. Bare(u, Items, TaskProgram)
  BY <1>1, BareGoesOn
<1>3. Items' = Items /\ TaskProgram' = TaskProgram /\ Later' = Later
  BY DEF Items, TaskProgram, Later
<1>4. DevicesFit(u)
  BY DEF Doing, ItemsFit, DevicesFit, GoesOn
<1>6. ItemsFit(u)'
  BY <1>2, <1>3, <1>4 DEF ItemsFit
<1>5. Doing(u, rest)'
  BY <1>1, <1>3, <1>6 DEF Doing
<1> QED BY <1>5 DEF TodoFits

\* The first thing is done, and gives no page a frame.
LEMMA DoneKeepsTodo ==
  ASSUME NEW s, NEW rest, Doing(s, rest), s # <<>>, Done,
         UNCHANGED <<tasks, directories, pages, target, frames>>,
         placement' = 0 \/ (placement' = placement /\ kernel' = kernel /\ s[1].do # "paging"),
         WandFits(s, wand) => WandFits(Tail(s), wand')
  PROVE  TodoFits'
<1> DEFINE u == Tail(s)
<1>1. s \in Seq(Items) /\ Tail(todo) = u \o rest
  BY DoingIs
<1>2. u \in Seq(Items) /\ GoesOn(u, 1, s, TaskProgram)
  BY <1>1, TailGoesOn
<1>3. /\ ItemsUnmapped(s, TaskProgram, pages, directories[target].tables)
      /\ WandFits(s, wand) /\ IdentityFits(s, frames)
      /\ placement # 0 => Unpaged(s) /\ PlacementFits
  BY DEF Doing, ItemsFit
<1>4. ItemsUnmapped(u, TaskProgram, pages, directories[target].tables)
  BY <1>2, <1>3, UnmappedGoesOn
<1>5. IdentityFits(u, frames)
  BY <1>1, <1>2, <1>3, IdentityGoesOn
<1>6. ASSUME placement' # 0 PROVE Unpaged(u) /\ PlacementFits'
  <2>1. placement' = placement /\ kernel' = kernel /\ s[1].do # "paging" /\ placement # 0
    BY <1>6
  <2>2. Unpaged(u)
    <3> HIDE DEF u
    <3>1. 1 \in {0, 1} /\ Unpaged(s) /\ s \in Seq(Items) /\ u \in Seq(Items)
      BY <1>1, <1>2, <1>3, <2>1
    <3>2. s[1].do # "paging" /\ (1 = 0 => u[1].page < HeapEnd) => Unpaged(u)
      BY <1>2, <3>1, UnpagedGoesOn
    <3> QED BY <2>1, <3>2
  <2>3. TablesMade' = TablesMade
    BY <2>1 DEF TablesMade
  <2>4. PlacementFits'
    BY <1>3, <2>1, <2>3 DEF PlacementFits
  <2> QED BY <2>2, <2>4
<1>7. todo' = u \o rest
  BY <1>1 DEF Done
<1>8. /\ ItemsUnmapped(u, TaskProgram, pages', directories'[target'].tables)
      /\ WandFits(u, wand') /\ IdentityFits(u, frames') /\ tasks' = tasks
  BY <1>3, <1>4, <1>5
<1>9. 1 \in {0, 1} /\ (1 = 0 => CopyFits(u[1], TaskProgram)) /\ u \in Seq(Items)
      /\ (placement' # 0 => Unpaged(u) /\ PlacementFits')
  BY <1>2, <1>6
<1> HIDE DEF u
<1> QED BY <1>2, <1>7, <1>8, <1>9, TodoGoesOn

-----------------------------------------------------------------------------
(* Steps.                                                                  *)

\* Everything fits, once there is a directory.
Working ==
  AllocationFits /\ SpacesFit /\ TablesApart /\ KernelStaysOut /\ TasksFit /\ TodoFits

\* What is allocated may become a table or a directory.
LEMMA AllocationGoesOn ==
  ASSUME AllocationFits, NEW n \in Nat \ {0}, NEW a \in Addresses(n), AllocAligned(n, a),
         others' = others, wand' = wand,
         DOMAIN pages' \cup DOMAIN directories' \subseteq
           (DOMAIN pages \cup DOMAIN directories) \cup {a}
  PROVE  AllocationFits'
<1>1. /\ placement' \in Nat /\ others' \subseteq heap' /\ heap \subseteq heap'
      /\ placement' # 0 => heap' = {}
      /\ \A b : Taken(b, placement, Kept) => Taken(b, placement', Kept')
      /\ Taken(a, placement', Kept')
  BY AllocAlignedTakes
<1>2. /\ wand \in [page : Nat, frame : Nat]
      /\ wand # NoWand => wand.page \in (heap \ others) \cap HeapPages
      /\ \A b \in DOMAIN pages \cup DOMAIN directories : Taken(b, placement, Kept)
  BY DEF AllocationFits
<1>3. \A b \in DOMAIN pages' \cup DOMAIN directories' : Taken(b, placement', Kept')
  BY <1>1, <1>2
<1>4. wand' # NoWand => wand'.page \in (heap' \ others') \cap HeapPages
  BY <1>1, <1>2
<1> QED BY <1>1, <1>2, <1>3, <1>4 DEF AllocationFits

\* Steps that allocate nothing.
LEMMA AllocationStays ==
  ASSUME AllocationFits, UNCHANGED <<placement, heap, others, wand, directories>>,
         DOMAIN pages' = DOMAIN pages
  PROVE  AllocationFits'
<1>1. Kept' = Kept
  BY DEF Kept
<1> QED BY <1>1 DEF AllocationFits

\* Steps that change no directory and no table.
LEMMA SpacesStay ==
  ASSUME SpacesFit, TablesApart, KernelStaysOut, UNCHANGED <<directories, pages, kernel>>
  PROVE  SpacesFit' /\ TablesApart' /\ KernelStaysOut'
BY DEF SpacesFit, TablesApart, KernelStaysOut

\* Steps that make no task and switch to none.
LEMMA TasksStay ==
  ASSUME TasksFit, UNCHANGED <<tasks, directories, kernel, target, active>>,
         placement' = 0 <=> placement = 0
  PROVE  TasksFit'
BY DEF TasksFit

\* Steps that give no page a frame.
LEMMA FramesStay ==
  ASSUME FramesApart, UNCHANGED <<pages, frames, wand, directories, active>>
  PROVE  FramesApart'
<1>1. Borrowed' = Borrowed
  BY DEF Borrowed, TableOf
<1> QED BY <1>1 DEF FramesApart

\* A step is about what the kernel is at.
LEMMA StepIs ==
  ASSUME Working, NEW what, Step(what), what \notin {"clone", "switch"}
  PROVE  \E s, rest : Doing(s, rest) /\ s # <<>> /\ s[1].do = what /\ Head(todo) = s[1]
<1>1. todo # <<>> /\ Head(todo).do = what
  BY DEF Step
<1>2. PICK s, rest : Doing(s, rest) /\ s # <<>>
  BY <1>1, AtHand DEF Working
<1>3. Head(todo) = s[1]
  BY <1>2, DoingIs
<1> QED BY <1>1, <1>2, <1>3

\* The first loop of setPaging.
LEMMA GetPageKeeps ==
  ASSUME Working, FramesApart, GetPage
  PROVE  Working' /\ FramesApart' /\ halted' = "no"
<1>1. /\ Step("get_page") /\ Done
      /\ UNCHANGED <<allocation, spaces, making, frames, others, memory, halted>>
  BY DEF GetPage, OnPage
<1>2. UNCHANGED <<placement, placed, heap, directories, pages, kernel, active, tasks, cores, target,
                  wand, frames, others, memory, halted>>
  BY <1>1 DEF allocation, spaces, making
<1>3. PICK s, rest : Doing(s, rest) /\ s # <<>> /\ s[1].do = "get_page"
  BY <1>1, StepIs
<1>4. s \in Seq(Items)
  BY <1>3, DoingIs
<1>5. WandFits(s, wand) => WandFits(Tail(s), wand')
  <2>1. Tail(s) \in Seq(Items) /\ GoesOn(Tail(s), 1, s, TaskProgram)
    BY <1>3, <1>4, TailGoesOn
  <2>2. 1 \in {0, 1} /\ s[1].do \notin {"take_wand", "put_wand_back"}
    BY <1>3
  <2>3. WandFits(s, wand) => WandFits(Tail(s), wand)
    BY <1>3, <1>4, <2>1, <2>2, WandGoesOn
  <2> QED BY <1>2, <2>3
<1>6. TodoFits'
  BY <1>1, <1>2, <1>3, <1>5, DoneKeepsTodo
<1>7. AllocationFits'
  BY <1>2, AllocationStays DEF Working
<1>8. SpacesFit' /\ TablesApart' /\ KernelStaysOut'
  BY <1>2, SpacesStay DEF Working
<1>9. TasksFit'
  BY <1>2, TasksStay DEF Working
<1>10. FramesApart'
  BY <1>2, FramesStay
<1>11. halted' = "no"
  BY <1>1, <1>2 DEF Step
<1> QED BY <1>6, <1>7, <1>8, <1>9, <1>10, <1>11 DEF Working

\* What is placed stays below the kernel's heap, and in the RAM.
LEMMA PlacementIsLow ==
  ASSUME PlacementFits, placement \in Nat
  PROVE  /\ placement + HeapObject <= HeapStart * PageSize
         /\ \E n \in ModuleSizes : placement + HeapObject <= PlacementEnd(n)
         /\ placement <= HeapStart * PageSize
<1>0. /\ PageSize \in Nat \ {0} /\ Entries \in Nat \ {0} /\ HeapEnd - 1 \in Nat /\ HeapObject \in Nat
      /\ HeapStart \in Nat /\ ModuleSizes \subseteq Nat
      /\ \A n \in ModuleSizes : PlacementEnd(n) <= HeapStart * PageSize
  BY MemoryAssumption, LayoutAssumption, SMTT(30)
<1> DEFINE t == (HeapEnd - 1) \div Entries
           c == Cardinality(TablesMade)
<1>1. PICK n \in ModuleSizes : placement <= PlacementBase(n) + PageSize * c
  BY DEF PlacementFits
<1>2. t \in Nat
  BY <1>0, QuotientAndRest
<1>3. c \in Nat /\ c <= t + 1
  <2>1. LowTables = 0 .. t
    BY DEF LowTables
  <2> HIDE DEF t
  <2>2. IsFiniteSet(LowTables) /\ Cardinality(LowTables) = t - 0 + 1
    BY <1>2, <2>1, FS_Interval
  <2>3. TablesMade \subseteq LowTables
    BY DEF PlacementFits
  <2>4. /\ IsFiniteSet(TablesMade) /\ Cardinality(TablesMade) <= Cardinality(LowTables)
        /\ Cardinality(TablesMade) \in Nat
    BY <2>2, <2>3, FS_Subset, FS_CardinalityType
  <2> QED BY <1>2, <2>2, <2>4
<1>4. PlacementBase(n) \in Nat
  <2>1. KernelEnd + n + BitmapSize \in Nat
    BY <1>0, MemoryAssumption
  <2>2. Aligned(KernelEnd + n + BitmapSize) \in Nat
    BY <2>1, AlignedIs
  <2>3. Aligned(KernelEnd + n + BitmapSize) + DirectorySize \in Nat
    BY <1>0, <2>2 DEF DirectorySize
  <2> QED BY <2>3, AlignedIs DEF PlacementBase
<1>5. PlacementEnd(n) = PlacementBase(n) + PageSize * (t + 1) + HeapObject
  BY DEF PlacementEnd, PlacementBase
<1> HIDE DEF t, c
<1>6. /\ c * PageSize \in Nat /\ c * PageSize <= (t + 1) * PageSize /\ (t + 1) * PageSize \in Nat
  BY <1>0, <1>2, <1>3, ProductOrder
<1>7. PageSize * c = c * PageSize /\ PageSize * (t + 1) = (t + 1) * PageSize
  BY <1>0, <1>2, <1>3
<1>8. placement + HeapObject <= PlacementEnd(n) /\ PlacementEnd(n) \in Nat
  <2> DEFINE x == c * PageSize
             y == (t + 1) * PageSize
  <2>1. x \in Nat /\ y \in Nat /\ x <= y /\ placement <= PlacementBase(n) + x
        /\ PlacementEnd(n) = PlacementBase(n) + y + HeapObject
    BY <1>1, <1>5, <1>6, <1>7
  <2> HIDE DEF x, y
  <2> QED BY <1>0, <1>4, <2>1
<1>9. HeapStart * PageSize \in Nat
  BY <1>0, ProductOrder
<1> DEFINE e == HeapStart * PageSize
<1>10. e \in Nat /\ PlacementEnd(n) <= e
  BY <1>0, <1>9
<1> HIDE DEF e
<1>11. placement + HeapObject <= e /\ placement <= e
  BY <1>0, <1>8, <1>10
<1> QED BY <1>8, <1>11 DEF e

\* Steps that do not take the wand or put it back.
LEMMA WandStays ==
  ASSUME NEW s, NEW rest, Doing(s, rest), s # <<>>,
         s[1].do \notin {"take_wand", "put_wand_back"}
  PROVE  WandFits(Tail(s), wand)
<1>1. s \in Seq(Items) /\ WandFits(s, wand)
  BY DoingIs DEF Doing, ItemsFit
<1>2. Tail(s) \in Seq(Items) /\ GoesOn(Tail(s), 1, s, TaskProgram)
  BY <1>1, TailGoesOn
<1>3. 1 \in {0, 1}
  OBVIOUS
<1> QED BY <1>1, <1>2, <1>3, WandGoesOn

\* The wand is taken, or put back.
LEMMA WandChanges ==
  ASSUME NEW s, NEW rest, Doing(s, rest), s # <<>>
  PROVE  /\ s[1].do = "take_wand" => wand = NoWand
         /\ s[1].do = "take_wand" => \A new : new # NoWand => WandFits(Tail(s), new)
         /\ s[1].do = "put_wand_back" => wand # NoWand
         /\ s[1].do = "put_wand_back" => WandFits(Tail(s), NoWand)
<1> DEFINE u == Tail(s)
<1>1. s \in Seq(Items)
  BY DoingIs
<1>2. WandFits(s, wand)
  BY DEF Doing, ItemsFit
<1>3. u \in Seq(Items) /\ GoesOn(u, 1, s, TaskProgram)
  BY <1>1, TailGoesOn
<1>4. 1 \in {0, 1} /\ 1 = 1
  OBVIOUS
<1> HIDE DEF u
<1>5. ASSUME NEW new
      PROVE  /\ s[1].do = "take_wand" => wand = NoWand
             /\ s[1].do \in {"copy", "put_wand_back"} => wand # NoWand
             /\ s[1].do = "take_wand" /\ 1 = 1 /\ new # NoWand => WandFits(u, new)
             /\ s[1].do = "put_wand_back" /\ 1 = 1 => WandFits(u, NoWand)
  BY <1>1, <1>2, <1>3, <1>4, WandGoesOn
<1> QED BY <1>4, <1>5 DEF u

\* Before paging the kernel does nothing else.
LEMMA PlacementIs ==
  ASSUME NEW s, NEW rest, Doing(s, rest), placement # 0
  PROVE  /\ s # <<>>
         /\ s[1].do = "paging" \/ (/\ s[1].do \in {"get_page", "identity_map", "map"}
                                   /\ s[1].page < HeapEnd)
         /\ PlacementFits
<1>1. Unpaged(s) /\ PlacementFits /\ s \in Seq(Items)
  BY DoingIs DEF Doing, ItemsFit
<1>2. s # <<>>
  BY <1>1 DEF Unpaged
<1>3. Tail(s) \in Seq(Items) /\ GoesOn(Tail(s), 1, s, TaskProgram) /\ 1 \in {0, 1}
  BY <1>1, <1>2, TailGoesOn
<1> QED BY <1>1, <1>2, <1>3, UnpagedGoesOn

\* A stack of the kernel.
LEMMA AllocateStackKeeps ==
  ASSUME Working, FramesApart, AllocateStack
  PROVE  Working' /\ FramesApart' /\ halted' = "no"
<1>1. /\ Step("stack") /\ Done
      /\ UNCHANGED <<spaces, making, frames, others, memory, halted>>
      /\ \E a \in Addresses(Head(todo).size) : AllocAligned(Head(todo).size, a)
  BY DEF AllocateStack
<1>2. UNCHANGED <<directories, pages, kernel, active, tasks, cores, target, wand, frames, others,
                  memory, halted>>
  BY <1>1 DEF spaces, making
<1>3. PICK s, rest : Doing(s, rest) /\ s # <<>> /\ s[1].do = "stack" /\ Head(todo) = s[1]
  BY <1>1, StepIs
<1>4. Head(todo).size \in Nat \ {0}
  <2>1. s[1] \in Items
    BY <1>3, DoingIs
  <2>2. s[1] \in KernelItem \/ s[1] \in TaskItem \/ s[1] \in DeviceItem
    BY <2>1 DEF Items
  <2>3. s[1].size = TaskKernelStack
    BY <1>3, <2>2 DEF KernelItem, TaskItem, DeviceItem
  <2> QED BY <1>3, <2>3, MemoryAssumption
<1>5. PICK a \in Addresses(Head(todo).size) : AllocAligned(Head(todo).size, a)
  BY <1>1
<1>6. placement = 0
  BY <1>3, PlacementIs
<1>7. placement' = 0
  BY <1>5, <1>6 DEF AllocAligned
<1>8. WandFits(Tail(s), wand')
  BY <1>2, <1>3, WandStays
<1>9. TodoFits'
  BY <1>1, <1>2, <1>3, <1>7, <1>8, DoneKeepsTodo
<1>10. AllocationFits'
  BY <1>2, <1>4, <1>5, AllocationGoesOn DEF Working
<1>11. SpacesFit' /\ TablesApart' /\ KernelStaysOut'
  BY <1>2, SpacesStay DEF Working
<1>12. TasksFit'
  BY <1>2, <1>6, <1>7, TasksStay DEF Working
<1>13. FramesApart'
  BY <1>2, FramesStay
<1>14. halted' = "no"
  BY <1>1, <1>2 DEF Step
<1> QED BY <1>9, <1>10, <1>11, <1>12, <1>13, <1>14 DEF Working

\* load_task_argv gives no page a frame.
LEMMA LoadArgumentsKeeps ==
  ASSUME Working, FramesApart, LoadArguments
  PROVE  Working' /\ FramesApart' /\ halted' = "no"
<1>1. Step("arguments") /\ Done /\ UNCHANGED <<allocation, spaces, making, frames, others, halted>>
  BY DEF LoadArguments
<1>2. UNCHANGED <<placement, placed, heap, directories, pages, kernel, active, tasks, cores, target,
                  wand, frames, others, halted>>
  BY <1>1 DEF allocation, spaces, making
<1>3. PICK s, rest : Doing(s, rest) /\ s # <<>> /\ s[1].do = "arguments"
  BY <1>1, StepIs
<1>4. WandFits(Tail(s), wand')
  BY <1>2, <1>3, WandStays
<1>5. TodoFits'
  BY <1>1, <1>2, <1>3, <1>4, DoneKeepsTodo
<1>6. AllocationFits'
  BY <1>2, AllocationStays DEF Working
<1>7. SpacesFit' /\ TablesApart' /\ KernelStaysOut'
  BY <1>2, SpacesStay DEF Working
<1>8. TasksFit'
  BY <1>2, TasksStay DEF Working
<1>9. FramesApart'
  BY <1>2, FramesStay
<1>10. halted' = "no"
  BY <1>1, <1>2 DEF Step
<1> QED BY <1>5, <1>6, <1>7, <1>8, <1>9, <1>10 DEF Working

\* setPaging comes before the first task, and makes the kernel's directory the active one.
LEMMA SetPagingKeeps ==
  ASSUME Working, FramesApart, SetPaging
  PROVE  Working' /\ FramesApart' /\ halted' = "no"
<1>1. /\ Step("paging") /\ Done /\ active' = kernel /\ placement' = 0
      /\ UNCHANGED <<making, frames, directories, pages, kernel, heap, others, memory, halted>>
  BY DEF SetPaging
<1>2. UNCHANGED <<heap, directories, pages, kernel, tasks, cores, target, wand, frames, others, halted>>
  BY <1>1 DEF making
<1>3. PICK s, rest : Doing(s, rest) /\ s # <<>> /\ s[1].do = "paging"
  BY <1>1, StepIs
<1>4. WandFits(Tail(s), wand')
  BY <1>2, <1>3, WandStays
<1>5. TodoFits'
  BY <1>1, <1>2, <1>3, <1>4, DoneKeepsTodo
<1>6. tasks = <<>>
  <2>1. s[1] \in Items
    BY <1>3, DoingIs
  <2>2. s[1] \notin TaskItem \cup DeviceItem
    BY <1>3 DEF TaskItem, DeviceItem
  <2> QED BY <2>1, <2>2 DEF Items
<1>7. wand = NoWand
  <2>0. s \in Seq(Items) /\ WandFits(s, wand)
    BY <1>3, DoingIs DEF Doing, ItemsFit
  <2>1. PICK k, m \in 0 .. Len(s) : Copies(s, k, m) /\ (wand # NoWand <=> k = 0 /\ m > 0)
    BY <2>0 DEF WandFits
  <2>2. m > 0 => m \in DOMAIN s /\ s[m].do = "put_wand_back"
    BY <2>0, <2>1 DEF Copies
  <2>3. \A i \in DOMAIN s : s[i] \in KernelItem
    <3>1. s \in Seq(KernelItem)
      BY <1>6, <2>0 DEF Items
    <3> HIDE DEF KernelItem
    <3> QED BY <3>1
  <2>4. \A x \in KernelItem : x.do # "put_wand_back"
    BY DEF KernelItem
  <2> QED BY <2>1, <2>2, <2>3, <2>4
<1>8. AllocationFits'
  <2>1. Kept' = Kept
    BY <1>2 DEF Kept
  <2>2. ASSUME NEW b, Taken(b, placement, Kept) PROVE Taken(b, placement', Kept')
    <3>0. PageSize \in Nat \ {0} /\ HeapStart \in Nat \ {0}
      BY MemoryAssumption
    <3>1. CASE placement = 0
      BY <1>1, <2>1, <2>2, <3>1
    <3>2. CASE placement # 0
      <4>1. b \in Nat \ {0} /\ b < placement
        BY <2>2, <3>2 DEF Taken
      <4>2. placement <= HeapStart * PageSize /\ placement \in Nat
        <5>1. PlacementFits /\ placement \in Nat
          BY <1>3, <3>2, PlacementIs DEF Working, AllocationFits
        <5> QED BY <5>1, PlacementIsLow
      <4>3. b < HeapStart * PageSize
        <5>1. HeapStart * PageSize \in Nat
          BY <3>0, ProductOrder
        <5> DEFINE e == HeapStart * PageSize
        <5> HIDE DEF e
        <5> QED BY <4>1, <4>2, <5>1 DEF e
      <4>4. b \div PageSize < HeapStart
        BY <3>0, <4>1, <4>3, QuotientBelow
      <4> QED BY <1>1, <4>1, <4>4 DEF Taken
    <3> QED BY <3>1, <3>2
  <2>3. \A b \in DOMAIN pages \cup DOMAIN directories : Taken(b, placement, Kept)
    BY DEF Working, AllocationFits
  <2> QED BY <1>1, <1>2, <2>2, <2>3 DEF Working, AllocationFits
<1>9. SpacesFit' /\ TablesApart' /\ KernelStaysOut'
  BY <1>2, SpacesStay DEF Working
<1>10. TasksFit'
  BY <1>1, <1>2 DEF Working, TasksFit, SpacesFit
<1>11. FramesApart'
  BY <1>2, <1>7 DEF FramesApart, Borrowed
<1>12. halted' = "no"
  BY <1>1, <1>2 DEF Step
<1> QED BY <1>5, <1>8, <1>9, <1>10, <1>11, <1>12 DEF Working

-----------------------------------------------------------------------------
(* Steps that map pages.                                                   *)

\* The directory that is changed is there.
LEMMA TargetIs ==
  ASSUME SpacesFit, TasksFit
  PROVE  target \in DOMAIN directories
<1>1. CASE tasks = <<>>
  BY <1>1 DEF SpacesFit, TasksFit
<1>2. CASE tasks # <<>>
  <2>1. Len(tasks) \in DOMAIN tasks /\ Last(tasks) = tasks[Len(tasks)]
    BY <1>2, ProgramIs
  <2> QED BY <1>2, <2>1 DEF TasksFit
<1> QED BY <1>1, <1>2

\* freeFrame returns a frame that is not marked.
LEMMA FreeFrameIs ==
  ASSUME FreeFrames # {}
  PROVE  FreeFrame \in Nat /\ FreeFrame \notin frames
<1>1. FreeFrames \subseteq Nat
  BY DEF FreeFrames
<1>2. \E f \in FreeFrames : \A g \in FreeFrames : f <= g
  BY <1>1, LeastElement
<1>3. FreeFrame \in FreeFrames
  BY <1>2 DEF FreeFrame, Min
<1> QED BY <1>1, <1>3 DEF FreeFrames

\* An entry gets a frame, and the directories stay.
LEMMA MapKeepsSpaces ==
  ASSUME SpacesFit, TablesApart, KernelStaysOut, NEW table, NEW x \in Positions, NEW f \in Nat,
         pages' = [pages EXCEPT ![table][x] = f], UNCHANGED <<directories, kernel>>
  PROVE  SpacesFit' /\ TablesApart' /\ KernelStaysOut' /\ DOMAIN pages' = DOMAIN pages
<1>1. pages \in [DOMAIN pages -> [Positions -> Nat]]
  BY DEF SpacesFit
<1>2. IsGiven(pages, pages', table, x, f)
  BY <1>1, EntryChanges
<1>3. DOMAIN pages' = DOMAIN pages /\ pages' \in [DOMAIN pages' -> [Positions -> Nat]]
  BY <1>2 DEF IsGiven
<1>4. SpacesFit'
  BY <1>3 DEF SpacesFit
<1>5. TablesApart' /\ KernelStaysOut'
  BY DEF TablesApart, KernelStaysOut
<1> QED BY <1>3, <1>4, <1>5

\* Another page keeps its frame.
SameFrame(pgs, new, other, p) == Frame(new, other, p) = Frame(pgs, other, p)

\* A page whose table or place in it is another keeps its frame.
LEMMA OtherPagesStay ==
  ASSUME NEW pgs, NEW table, NEW x, NEW f, NEW new, IsGiven(pgs, new, table, x, f),
         NEW other \in {0} \cup DOMAIN pgs, NEW p \in EveryPage,
         other = 0 \/ other # table \/ p % Entries # x
  PROVE  SameFrame(pgs, new, other, p)
<1>1. p % Entries \in Positions
  BY EveryPageIs
<1>2. CASE other = 0
  BY <1>2 DEF Frame, SameFrame
<1>3. CASE other # 0
  <2>2. <<other, p % Entries>> \in (DOMAIN pgs) \X Positions /\ <<other, p % Entries>> # <<table, x>>
    BY <1>1, <1>3
  <2>3. \A e \in (DOMAIN pgs) \X Positions :
           new[e[1]][e[2]] = IF e = <<table, x>> THEN f ELSE pgs[e[1]][e[2]]
    BY DEF IsGiven
  <2>4. new[other][p % Entries] = pgs[other][p % Entries]
    BY <2>2, <2>3
  <2> QED BY <1>3, <2>4 DEF Frame, SameFrame
<1> QED BY <1>2, <1>3

\* A page of the target is mapped, and what is left to do has others.
LEMMA MapKeepsUnmapped ==
  ASSUME SpacesFit, TablesApart, TasksFit, NEW s, NEW rest, Doing(s, rest), s # <<>>,
         NEW k \in {0, 1}, NEW u \in Seq(Items), GoesOn(u, k, s, TaskProgram),
         NEW page \in EveryPage, Touches(s[1], TaskProgram, page),
         k = 0 => ~Touches(u[1], TaskProgram, page),
         TableOf(target, page) # 0, NEW f, NEW new,
         IsGiven(pages, new, TableOf(target, page), page % Entries, f)
  PROVE  ItemsUnmapped(u, TaskProgram, new, directories[target].tables)
<1> DEFINE tables == directories[target].tables
<1>1. /\ ItemsUnmapped(s, TaskProgram, pages, tables) /\ ItemsApart(s, TaskProgram)
      /\ 1 \in DOMAIN s
  BY DoingIs DEF Doing, ItemsFit, Bare
<1>2. ItemsUnmapped(u, TaskProgram, pages, tables)
  BY <1>1, UnmappedGoesOn
<1>3. target \in DOMAIN directories
  BY TargetIs
<1>4. ASSUME NEW i \in DOMAIN u, NEW p \in EveryPage, Touches(u[i], TaskProgram, p)
      PROVE  Frame(new, tables[p \div Entries], p) \in {NoFrame, 0}
  <2>1. p # page
    <3>1. ASSUME p = page PROVE FALSE
      <4>1. i + k \in DOMAIN s /\ Touches(s[i + k], TaskProgram, page)
        BY <1>4, <3>1 DEF GoesOn
      <4>2. i + k = 1
        BY <1>1, <4>1 DEF ItemsApart
      <4>3. i = 1 /\ k = 0
        BY <4>2
      <4> QED BY <1>4, <3>1, <4>3
    <3> QED BY <3>1
  <2>2. /\ tables[p \div Entries] \in {0} \cup DOMAIN pages
        /\ tables[page \div Entries] = TableOf(target, page)
        /\ p \div Entries \in AllTables /\ page \div Entries \in AllTables
        /\ page % Entries \in Positions /\ p % Entries \in Positions
    <3>1. TableOf(target, p) = tables[p \div Entries] /\ TableOf(target, p) \in {0} \cup DOMAIN pages
      BY <1>3, FrameIs
    <3>2. TableOf(target, page) = tables[page \div Entries]
      BY <1>3, FrameIs
    <3> QED BY <3>1, <3>2, EveryPageIs
  <2>3. \/ tables[p \div Entries] = 0 \/ tables[p \div Entries] # TableOf(target, page)
        \/ p % Entries # page % Entries
    <3>1. ASSUME tables[p \div Entries] = tables[page \div Entries], tables[p \div Entries] # 0
          PROVE  p \div Entries = page \div Entries
      BY <1>3, <2>2, <3>1 DEF TablesApart
    <3>2. ASSUME p \div Entries = page \div Entries, p % Entries = page % Entries PROVE FALSE
      BY <2>1, <3>2, PlacesOfPages
    <3> QED BY <2>2, <3>1, <3>2
  <2> DEFINE other == tables[p \div Entries]
             x == page % Entries
             table == TableOf(target, page)
  <2>5. /\ other \in {0} \cup DOMAIN pages
        /\ other = 0 \/ other # table \/ p % Entries # x
        /\ IsGiven(pages, new, table, x, f)
    BY <2>2, <2>3
  <2> HIDE DEF other, x, table
  <2>6. SameFrame(pages, new, other, p)
    BY <2>5, OtherPagesStay
  <2>7. Frame(pages, other, p) \in {NoFrame, 0}
    BY <1>2, <1>4 DEF ItemsUnmapped, other
  <2> QED BY <2>6, <2>7 DEF other, SameFrame
<1> QED BY <1>4 DEF ItemsUnmapped

\* allocAnyFrame, for the heap, a stack or a task.
LEMMA MapPageKeeps ==
  ASSUME Working, FramesApart, MapPage
  PROVE  Working' /\ FramesApart' /\ halted' = "no"
<1> DEFINE page == PageAtHand
           table == TableOf(target, page)
           x == page % Entries
           f == FreeFrame
<1>1. /\ Step("map") /\ Done /\ table # 0
      /\ IsUnmapped(target, page) /\ FreeFrames # {}
      /\ frames' = frames \cup {f}
      /\ pages' = [pages EXCEPT ![table][x] = f]
      /\ UNCHANGED <<placement, placed, heap, directories, kernel, active, others, tasks, cores,
                     target, halted, wand>>
  BY DEF MapPage, OnPage, AllocAnyFrame, Map, SetFrame, allocation
<1>2. PICK s, rest : Doing(s, rest) /\ s # <<>> /\ s[1].do = "map"
  BY <1>1, StepIs
<1>3. page \in EveryPage /\ Touches(s[1], TaskProgram, page)
  BY <1>2, PageIs DEF Working
<1>4. x \in Positions
  BY <1>3, EveryPageIs
<1>5. f \in Nat /\ f \notin frames
  BY <1>1, FreeFrameIs
<1>6. s \in Seq(Items) /\ Tail(todo) = Tail(s) \o rest
  BY <1>2, DoingIs
<1>7. Tail(s) \in Seq(Items) /\ GoesOn(Tail(s), 1, s, TaskProgram)
  BY <1>2, <1>6, TailGoesOn
<1> DEFINE u == Tail(s)
<1> HIDE DEF page, table, x, f, u
<1>8. SpacesFit' /\ TablesApart' /\ KernelStaysOut' /\ DOMAIN pages' = DOMAIN pages
  BY <1>1, <1>4, <1>5, MapKeepsSpaces DEF Working
<1>15. IsGiven(pages, pages', table, x, f)
  <2>1. pages \in [DOMAIN pages -> [Positions -> Nat]]
    BY DEF Working, SpacesFit
  <2> QED BY <1>1, <1>4, <1>5, <2>1, EntryChanges
<1>9. AllocationFits'
  BY <1>1, <1>8, AllocationStays DEF Working
<1>10. TasksFit'
  BY <1>1, TasksStay DEF Working
<1>11. FramesApart'
  <2>1. Borrowed' = Borrowed
    BY <1>1 DEF Borrowed, TableOf
  <2>3. frames \subseteq frames' /\ f \in frames'
    BY <1>1
  <2>4. ApartIn(pages, Borrowed, frames, wand)
    BY DEF FramesApart
  <2>5. ApartIn(pages', Borrowed, frames', wand)
    BY <1>5, <1>15, <2>3, <2>4, MapKeepsApart
  <2> QED BY <1>1, <2>1, <2>5 DEF FramesApart
<1>12. ItemsUnmapped(u, TaskProgram, pages', directories[target].tables)
  <2>1. 1 \in {0, 1} /\ (1 = 0 => ~Touches(u[1], TaskProgram, page)) /\ u \in Seq(Items)
        /\ GoesOn(u, 1, s, TaskProgram)
    BY <1>7 DEF u
  <2>2. TableOf(target, page) # 0 /\ IsGiven(pages, pages', TableOf(target, page), page % Entries, f)
    BY <1>1, <1>15 DEF table, x
  <2> QED BY <1>2, <1>3, <1>5, <2>1, <2>2, MapKeepsUnmapped DEF Working
<1>13. TodoFits'
  <2>1. 1 \in {0, 1} /\ (1 = 0 => CopyFits(u[1], TaskProgram)) /\ u \in Seq(Items)
        /\ GoesOn(u, 1, s, TaskProgram)
    BY <1>7 DEF u
  <2>2. todo' = u \o rest
    BY <1>1, <1>6 DEF Done, u
  <2>3. WandFits(u, wand')
    BY <1>1, <1>2, WandStays DEF u
  <2>4. IdentityFits(u, frames')
    <3>1. IdentityFits(s, frames)
      BY <1>2 DEF Doing, ItemsFit
    <3>2. s[1].do # "get_page"
      BY <1>2
    <3> QED BY <1>2, <1>6, <2>1, <3>1, <3>2, IdentityGoesOn
  <2>5. placement' # 0 => Unpaged(u) /\ PlacementFits'
    <3>1. ASSUME placement # 0 PROVE Unpaged(u) /\ PlacementFits
      <4>1. Unpaged(s) /\ PlacementFits
        BY <1>2, <3>1 DEF Doing, ItemsFit
      <4>2. s[1].do # "paging" /\ (1 = 0 => u[1].page < HeapEnd) => Unpaged(u)
        BY <1>2, <1>6, <2>1, <4>1, UnpagedGoesOn
      <4> QED BY <1>2, <4>1, <4>2
    <3>2. PlacementFits => PlacementFits'
      <4>1. TablesMade' = TablesMade
        BY <1>1 DEF TablesMade
      <4> QED BY <1>1, <4>1 DEF PlacementFits
    <3> QED BY <1>1, <3>1, <3>2
  <2>6. ItemsUnmapped(u, TaskProgram, pages', directories'[target'].tables) /\ tasks' = tasks
    BY <1>1, <1>12
  <2> QED BY <1>2, <2>1, <2>2, <2>3, <2>4, <2>5, <2>6, TodoGoesOn
<1>14. halted' = "no"
  BY <1>1 DEF Step
<1> QED BY <1>8, <1>9, <1>10, <1>11, <1>13, <1>14 DEF Working

\* The Heap object is below the end of what is placed.
LEMMA HeapObjectFits ==
  ASSUME NEW n \in ModuleSizes
  PROVE  HeapObject <= PlacementEnd(n)
<1> DEFINE a == Aligned(Aligned(KernelEnd + n + BitmapSize) + DirectorySize)
           t == (HeapEnd - 1) \div Entries + 1
<1>0. /\ PageSize \in Nat \ {0} /\ Entries \in Nat \ {0} /\ HeapEnd - 1 \in Nat /\ HeapObject \in Nat
      /\ KernelEnd + n + BitmapSize \in Nat /\ DirectorySize \in Nat
  <2>1. /\ PageSize \in Nat \ {0} /\ Entries \in Nat \ {0} /\ HeapEnd \in Nat /\ HeapObject \in Nat
        /\ KernelEnd \in Nat /\ BitmapSize \in Nat /\ HeapStart \in Nat /\ ModuleSizes \subseteq Nat
    BY MemoryAssumption
  <2>2. HeapStart < HeapEnd
    BY LayoutAssumption
  <2>3. HeapEnd - 1 \in Nat
    BY <2>1, <2>2
  <2>4. KernelEnd + n + BitmapSize \in Nat
    BY <2>1
  <2>5. DirectorySize \in Nat
    BY <2>1 DEF DirectorySize
  <2> QED BY <2>1, <2>3, <2>4, <2>5
<1>1. Aligned(KernelEnd + n + BitmapSize) \in Nat
  BY <1>0, AlignedIs
<1>2. a \in Nat
  <2>1. Aligned(KernelEnd + n + BitmapSize) + DirectorySize \in Nat
    BY <1>0, <1>1
  <2> QED BY <2>1, AlignedIs
<1>3. t \in Nat
  BY <1>0, QuotientAndRest
<1> HIDE DEF a, t
<1>4. PageSize * t \in Nat
  BY <1>0, <1>3
<1>5. PlacementEnd(n) = a + PageSize * t + HeapObject
  BY DEF PlacementEnd, a, t
<1> QED BY <1>0, <1>2, <1>4, <1>5

\* A page of a device gets a frame outside the RAM.
LEMMA MapDeviceKeeps ==
  ASSUME Working, FramesApart, MapDevice
  PROVE  Working' /\ FramesApart' /\ halted' = "no"
<1> DEFINE page == PageAtHand
           table == TableOf(target, page)
           x == page % Entries
           f == Head(todo).frame
<1>1. /\ Step("device") /\ Done /\ table # 0
      /\ pages' = [pages EXCEPT ![table][x] = f]
      /\ UNCHANGED <<placement, placed, heap, tasks, cores, target, wand, frames, directories, kernel,
                     active, others, memory, halted>>
  BY DEF MapDevice, OnPage, Map, allocation, making
<1>2. PICK s, rest : Doing(s, rest) /\ s # <<>> /\ s[1].do = "device" /\ Head(todo) = s[1]
  BY <1>1, StepIs
<1>3. page \in EveryPage
  BY <1>2, PageIs DEF Working
<1>4. x \in Positions
  BY <1>3, EveryPageIs
<1>5. s \in Seq(Items) /\ Tail(todo) = Tail(s) \o rest /\ s[1] \in Items /\ 1 \in DOMAIN s
  BY <1>2, DoingIs
<1>6. f \in Nat /\ f >= FrameCount /\ tasks # <<>>
  <2>1. s[1] \notin KernelItem /\ s[1] \notin TaskItem
    BY <1>2 DEF KernelItem, TaskItem
  <2>2. s[1] \in DeviceItem /\ tasks # <<>>
    BY <1>5, <2>1 DEF Items
  <2> QED BY <1>2, <2>2, MemoryAssumption DEF DeviceItem
<1> DEFINE u == Tail(s)
<1>7. u \in Seq(Items) /\ GoesOn(u, 1, s, TaskProgram)
  BY <1>2, <1>5, TailGoesOn
<1> HIDE DEF page, table, x, f, u
<1>8. SpacesFit' /\ TablesApart' /\ KernelStaysOut' /\ DOMAIN pages' = DOMAIN pages
  BY <1>1, <1>4, <1>6, MapKeepsSpaces DEF Working
<1>9. AllocationFits'
  BY <1>1, <1>8, AllocationStays DEF Working
<1>10. TasksFit'
  BY <1>1, TasksStay DEF Working
<1>11. FramesApart'
  <2>1. Borrowed' = Borrowed
    BY <1>1 DEF Borrowed, TableOf
  <2>2. pages \in [DOMAIN pages -> [Positions -> Nat]]
    BY DEF Working, SpacesFit
  <2>3. IsGiven(pages, pages', table, x, f)
    BY <1>1, <1>4, <1>6, <2>2, EntryChanges
  <2>4. ApartIn(pages, Borrowed, frames, wand)
    BY DEF FramesApart
  <2>5. ApartIn(pages', Borrowed, frames, wand)
    BY <1>6, <2>3, <2>4, MapKeepsApart
  <2> QED BY <1>1, <2>1, <2>5 DEF FramesApart
<1>12. \A i \in DOMAIN u : u[i].do = "device"
  BY <1>2, <1>5, <1>7 DEF GoesOn, Doing, ItemsFit, DevicesFit
<1>13. ItemsUnmapped(u, TaskProgram, pages', directories'[target'].tables)
  BY <1>12 DEF ItemsUnmapped, Touches
<1>14. TodoFits'
  <2>1. 1 \in {0, 1} /\ (1 = 0 => CopyFits(u[1], TaskProgram))
    OBVIOUS
  <2>2. todo' = u \o rest /\ tasks' = tasks
    BY <1>1, <1>5 DEF Done, u
  <2>3. WandFits(u, wand')
    BY <1>1, <1>2, WandStays DEF u
  <2>4. IdentityFits(u, frames')
    BY <1>12 DEF IdentityFits
  <2>5. placement' = 0
    BY <1>1, <1>6 DEF Working, TasksFit
  <2> QED BY <1>2, <1>7, <1>13, <2>1, <2>2, <2>3, <2>4, <2>5, TodoGoesOn
<1>15. halted' = "no"
  BY <1>1 DEF Step
<1> QED BY <1>8, <1>9, <1>10, <1>11, <1>14, <1>15 DEF Working

\* A page of the identity mapping gets the frame that has its number, which nobody
\* has yet; and the mapping stays below the heap, and in the RAM.
LEMMA IdentityMapKeeps ==
  ASSUME Working, FramesApart, IdentityMap
  PROVE  Working' /\ FramesApart' /\ halted' = "no"
<1> DEFINE page == PageAtHand
           next == [Head(todo) EXCEPT !.page = page + 1]
           table == TableOf(target, page)
           x == page % Entries
<1>0. /\ PageSize \in Nat \ {0} /\ WordBits \in Nat \ {0} /\ Words \in Nat /\ HeapStart \in Nat
      /\ HeapEnd \in Nat /\ HeapStart < HeapEnd /\ HeapObject \in Nat
      /\ \A n \in ModuleSizes : PlacementEnd(n) <= Words * WordBits * PageSize
      /\ \A n \in ModuleSizes : PlacementEnd(n) <= HeapStart * PageSize
      /\ \A n \in ModuleSizes : PlacementEnd(n) \in Nat
  <2>1. FrameCount \in Nat /\ WordBits \in Nat \ {0}
    BY MemoryAssumption
  <2>2. Words \in Nat
    BY <2>1, QuotientAndRest DEF Words
  <2> QED BY <2>1, <2>2, MemoryAssumption, LayoutAssumption, IdentityPagesAre
<1>1. OnPage("identity_map") /\ Step("identity_map") /\ table # 0
  BY DEF IdentityMap, OnPage
<1>2. PICK s, rest : Doing(s, rest) /\ s # <<>> /\ s[1].do = "identity_map" /\ Head(todo) = s[1]
  BY <1>1, StepIs
<1>3. /\ page \in EveryPage /\ page \in IdentityPages /\ page = s[1].page /\ tasks = <<>>
      /\ page \in Nat
  <2>1. page \in EveryPage /\ page \in IdentityPages /\ page = s[1].page /\ tasks = <<>>
    BY <1>2, PageIs DEF Working
  <2> QED BY <2>1, EveryPageIs
<1>4. x \in Positions
  BY <1>3, EveryPageIs
<1>5. /\ s \in Seq(Items) /\ Tail(todo) = Tail(s) \o rest /\ s[1] \in Items /\ 1 \in DOMAIN s
      /\ rest \in Seq(TodoItem) /\ s \in Seq(TodoItem) /\ todo = s \o rest
  BY <1>2, DoingIs, SMTT(30) DEF Doing
<1>6. s[1] = [do |-> "identity_map", page |-> page] /\ s[1] \in KernelItem
  BY <1>2, <1>3, <1>5 DEF Items, KernelItem
<1>7. Touches(s[1], TaskProgram, page) /\ IsUnmapped(target, page)
  <2>1. Touches(s[1], TaskProgram, page)
    BY <1>2, <1>3 DEF Touches
  <2>2. Frame(pages, directories[target].tables[page \div Entries], page) \in {NoFrame, 0}
    BY <1>2, <1>3, <1>5, <2>1 DEF Doing, ItemsFit, ItemsUnmapped
  <2>3. target \in DOMAIN directories
    BY TargetIs DEF Working
  <2>4. FrameOf(target, page) = Frame(pages, directories[target].tables[page \div Entries], page)
    BY <1>3, <2>3, FrameIs DEF Working
  <2> QED BY <2>1, <2>2, <2>4 DEF IsUnmapped
<1>8. page \div WordBits < Words /\ \E n \in ModuleSizes : page * PageSize < PlacementEnd(n)
  <2>1. PICK n \in ModuleSizes : page * PageSize < PlacementEnd(n)
    BY <1>3 DEF IdentityPages
  <2> DEFINE w == Words * WordBits
  <2>2. w \in Nat
    BY <1>0, ProductOrder
  <2>3. PlacementEnd(n) <= w * PageSize
    BY <1>0
  <2> HIDE DEF w
  <2>4. page * PageSize \in Nat /\ w * PageSize \in Nat
    BY <1>0, <1>3, <2>2, ProductOrder
  <2>5. page < w
    <3>1. ASSUME w <= page PROVE FALSE
      <4>1. w * PageSize <= page * PageSize
        BY <1>0, <1>3, <2>2, <3>1, ProductOrder
      <4> DEFINE a == w * PageSize
                 b == page * PageSize
                 e == PlacementEnd(n)
      <4>2. a \in Nat /\ b \in Nat /\ e \in Nat /\ a <= b /\ b < e /\ e <= a
        BY <1>0, <2>1, <2>3, <2>4, <4>1
      <4> HIDE DEF a, b, e
      <4> QED BY <4>2
    <3> QED BY <1>3, <2>2, <3>1
  <2>6. page < Words * WordBits
    BY <2>5 DEF w
  <2> QED BY <1>0, <1>3, <2>1, <2>6, QuotientBelow
<1>9. /\ pages' = [pages EXCEPT ![table][x] = page] /\ frames' = frames \cup {page}
      /\ IF next.page * PageSize < IdentityEnd THEN todo' = <<next>> \o Tail(todo) ELSE Done
      /\ UNCHANGED <<placement, placed, heap, tasks, cores, target, wand, directories, kernel, active,
                     others, memory, halted>>
  <2>1. ~(page \div WordBits >= Words \/ ~IsUnmapped(target, page))
    <3>1. page \div WordBits \in Nat
      BY <1>0, <1>3, QuotientAndRest
    <3> QED BY <1>0, <1>7, <1>8, <3>1
  <2> QED BY <2>1 DEF IdentityMap, Map, SetFrame, allocation, making
<1>10. next = [do |-> "identity_map", page |-> page + 1]
  BY <1>2, <1>6
<1>11. ASSUME next.page * PageSize < IdentityEnd PROVE page + 1 \in IdentityPages
  <2>0. placement \in Nat
    BY DEF Working, AllocationFits
  <2>1. \E n \in ModuleSizes : placement + HeapObject <= PlacementEnd(n)
    <3>1. CASE placement # 0
      BY <1>2, <2>0, <3>1, PlacementIs, PlacementIsLow
    <3>2. CASE placement = 0
      <4>1. PICK n \in ModuleSizes : TRUE
        BY <1>8
      <4>2. HeapObject <= PlacementEnd(n)
        BY HeapObjectFits
      <4> QED BY <1>0, <3>2, <4>2
    <3> QED BY <3>1, <3>2
  <2>2. PICK n \in ModuleSizes : placement + HeapObject <= PlacementEnd(n)
    BY <2>1
  <2> DEFINE b == (page + 1) * PageSize
             e == PlacementEnd(n)
             h == HeapStart * PageSize
  <2>3. b \in Nat /\ e \in Nat /\ h \in Nat /\ e <= h
    <3>1. page + 1 \in Nat
      BY <1>3
    <3> QED BY <1>0, <1>3, <3>1, ProductOrder
  <2>4. b < placement + HeapObject
    BY <1>10, <1>11 DEF IdentityEnd
  <2> HIDE DEF b, e, h
  <2>5. b < e /\ b < h
    BY <1>0, <2>0, <2>2, <2>3, <2>4 DEF e
  <2>6. ASSUME HeapStart <= page + 1 PROVE FALSE
    <3>1. h <= b
      BY <1>0, <1>3, <2>6, ProductOrder DEF h, b
    <3> QED BY <2>3, <2>5, <3>1
  <2>7. page + 1 \in 0 .. HeapStart - 1
    BY <1>0, <1>3, <2>6
  <2>8. (page + 1) * PageSize < PlacementEnd(n)
    BY <2>5 DEF b, e
  <2> QED BY <2>7, <2>8 DEF IdentityPages
<1> HIDE DEF table, x, next
<1>12. IsGiven(pages, pages', table, x, page)
  <2>1. pages \in [DOMAIN pages -> [Positions -> Nat]]
    BY DEF Working, SpacesFit
  <2> QED BY <1>3, <1>4, <1>9, <2>1, EntryChanges
<1> HIDE DEF page
<1>13. SpacesFit' /\ TablesApart' /\ KernelStaysOut' /\ DOMAIN pages' = DOMAIN pages
  BY <1>3, <1>4, <1>9, MapKeepsSpaces DEF Working
<1>14. AllocationFits'
  BY <1>9, <1>13, AllocationStays DEF Working
<1>15. TasksFit'
  BY <1>9, TasksStay DEF Working
<1>16. frames \subseteq 0 .. page - 1 /\ IdentityFits(s, frames)
  <2>1. IdentityFits(s, frames)
    BY <1>2 DEF Doing, ItemsFit
  <2> QED BY <1>2, <1>3, <1>5, <2>1 DEF IdentityFits
<1>17. FramesApart'
  <2>1. Borrowed' = Borrowed
    BY <1>9 DEF Borrowed, TableOf
  <2>2. frames \subseteq frames' /\ page \in frames' /\ page \notin frames
    BY <1>3, <1>9, <1>16
  <2>3. ApartIn(pages, Borrowed, frames, wand)
    BY DEF FramesApart
  <2>4. page \in Nat /\ (page \in frames' \/ page >= FrameCount) /\ (page \notin frames \/ page >= FrameCount)
    BY <1>3, <2>2
  <2>5. ApartIn(pages', Borrowed, frames', wand)
    BY <1>12, <2>2, <2>3, <2>4, MapKeepsApart
  <2> QED BY <1>9, <2>1, <2>5 DEF FramesApart
<1>18. ASSUME NEW k \in {0, 1}, NEW u \in Seq(Items), GoesOn(u, k, s, TaskProgram),
              todo' = u \o rest,
              k = 0 => u[1] = next /\ page + 1 \in IdentityPages
       PROVE  TodoFits'
  <2>1. k = 0 => ~Touches(u[1], TaskProgram, page) /\ CopyFits(u[1], TaskProgram)
    <3>1. ASSUME k = 0 PROVE ~Touches(u[1], TaskProgram, page) /\ CopyFits(u[1], TaskProgram)
      <4>1. u[1].do = "identity_map" /\ u[1].page = page + 1
        BY <1>10, <1>18, <3>1
      <4> QED BY <1>3, <4>1 DEF Touches, CopyFits
    <3> QED BY <3>1
  <2>2. ItemsUnmapped(u, TaskProgram, pages', directories[target].tables)
    <3>1. TableOf(target, page) # 0 /\ IsGiven(pages, pages', TableOf(target, page), page % Entries, page)
      BY <1>1, <1>12 DEF table, x
    <3> QED BY <1>2, <1>3, <1>7, <1>18, <2>1, <3>1, MapKeepsUnmapped DEF Working
  <2>3. WandFits(u, wand')
    <3>1. WandFits(s, wand) /\ s[1].do \notin {"take_wand", "put_wand_back"}
      BY <1>2 DEF Doing, ItemsFit
    <3>2. s \in Seq(Items) /\ s # <<>>
      BY <1>2, <1>5
    <3>3. GoesOn(u, k, s, TaskProgram)
      BY <1>18
    <3>4. WandFits(u, wand)
      BY <3>1, <3>2, <3>3, WandGoesOn
    <3> QED BY <1>9, <3>4
  <2>4. IdentityFits(u, frames')
    <3>1. CASE k = 1
      BY <1>2, <1>5, <1>16, <1>18, <3>1, IdentityGoesOn
    <3>2. CASE k = 0
      <4>1. u[1].page = page + 1
        BY <1>10, <1>18, <3>2
      <4>2. frames' \subseteq 0 .. u[1].page - 1
        BY <1>3, <1>9, <1>16, <4>1
      <4> QED BY <1>2, <1>5, <1>16, <1>18, <3>2, <4>2, IdentityGoesOn
    <3> QED BY <3>1, <3>2
  <2>5. ASSUME placement' # 0 PROVE Unpaged(u) /\ PlacementFits'
    <3>1. Unpaged(s) /\ PlacementFits
      BY <1>2, <1>9, <2>5 DEF Doing, ItemsFit
    <3>2. TablesMade' = TablesMade
      BY <1>9 DEF TablesMade
    <3>3. PlacementFits'
      BY <1>9, <3>1, <3>2 DEF PlacementFits
    <3>4. k = 0 => u[1].page < HeapEnd
      <4>1. ASSUME k = 0 PROVE u[1].page < HeapEnd
        <5>1. page + 1 \in 0 .. HeapStart - 1
          BY <1>18, <4>1, IdentityPagesAre
        <5>2. u[1].page = page + 1
          BY <1>10, <1>18, <4>1
        <5> QED BY <1>0, <5>1, <5>2
      <4> QED BY <4>1
    <3>5. Unpaged(u)
      BY <1>2, <1>5, <1>18, <3>1, <3>4, UnpagedGoesOn
    <3> QED BY <3>3, <3>5
  <2>6. ItemsUnmapped(u, TaskProgram, pages', directories'[target'].tables) /\ tasks' = tasks
    BY <1>9, <2>2
  <2>7. k = 0 => CopyFits(u[1], TaskProgram)
    BY <2>1
  <2> QED BY <1>2, <1>18, <2>3, <2>4, <2>5, <2>6, <2>7, TodoGoesOn
<1>19. TodoFits'
  <2>1. CASE next.page * PageSize < IdentityEnd
    <3>1. next \in Items /\ next.do = s[1].do /\ next \in TodoItem
      <4>1. next \in KernelItem
        BY <1>10, <1>11, <2>1 DEF KernelItem
      <4> QED BY <1>2, <1>3, <1>10, <4>1 DEF Items, TodoItem
    <3>2. \A p \in EveryPage : Touches(next, TaskProgram, p) => Touches(s[1], TaskProgram, p)
      <4>1. \A p \in EveryPage : p \in Nat
        BY EveryPageIs
      <4>2. ASSUME NEW p \in EveryPage, Touches(next, TaskProgram, p)
            PROVE  page <= p /\ p \in IdentityPages
        <5>1. next.do = "identity_map" /\ next.page = page + 1
          BY <1>10
        <5>2. page + 1 <= p /\ p \in IdentityPages
          BY <4>2, <5>1 DEF Touches
        <5> QED BY <1>3, <4>1, <5>2
      <4> QED BY <1>2, <1>3, <4>2 DEF Touches
    <3> DEFINE u == <<next>> \o Tail(s)
    <3>3. /\ u \in Seq(Items) /\ GoesOn(u, 0, s, TaskProgram) /\ u[1] = next
      BY <1>2, <1>5, <3>1, <3>2, HeadGoesOn
    <3>4. todo' = u \o rest
      <4>1. <<next>> \o Tail(s \o rest) = u \o rest
        BY <1>2, <1>5, <3>1, HeadReplaced
      <4> QED BY <1>5, <1>9, <2>1, <4>1
    <3>5. 0 \in {0, 1} /\ page + 1 \in IdentityPages
      BY <1>11, <2>1
    <3> HIDE DEF u
    <3> QED BY <1>18, <3>3, <3>4, <3>5
  <2>2. CASE ~(next.page * PageSize < IdentityEnd)
    <3> DEFINE u == Tail(s)
    <3>1. u \in Seq(Items) /\ GoesOn(u, 1, s, TaskProgram)
      BY <1>2, <1>5, TailGoesOn
    <3>2. todo' = u \o rest
      BY <1>5, <1>9, <2>2 DEF Done
    <3>3. 1 \in {0, 1} /\ 1 # 0
      OBVIOUS
    <3> HIDE DEF u
    <3> QED BY <1>18, <3>1, <3>2, <3>3
  <2> QED BY <2>1, <2>2
<1>20. halted' = "no"
  BY <1>1, <1>9 DEF Step
<1> QED BY <1>13, <1>14, <1>15, <1>17, <1>19, <1>20 DEF Working

\* How much is copied: to the end of the segment, or of the page.
LEMMA CopyLengthIs ==
  ASSUME NEW g, g.virt \in Nat, g.memsz \in Nat, NEW copied \in Nat, copied < g.memsz
  PROVE  LET n == CopyLength(g, copied)
             page == (g.virt + copied) \div PageSize
         IN  /\ n \in Nat /\ copied + n <= g.memsz
             /\ copied + n # g.memsz =>
                  /\ (g.virt + (copied + n)) \div PageSize = page + 1
                  /\ (g.virt + (copied + n)) % PageSize = 0
<1> DEFINE n == CopyLength(g, copied)
           page == (g.virt + copied) \div PageSize
           r == (g.virt + copied) % PageSize
           a == PageSize - r
           b == g.memsz - copied
<1>0. PageSize \in Nat \ {0}
  BY MemoryAssumption
<1>1. page \in Nat /\ r \in 0 .. PageSize - 1 /\ g.virt + copied = page * PageSize + r
  <2>1. g.virt + copied \in Nat
    OBVIOUS
  <2> QED BY <1>0, <2>1, QuotientAndRest
<1>2. a \in Nat /\ b \in Nat
  BY <1>0, <1>1
<1>3. n = Min({a, b})
  BY DEF CopyLength
<1> HIDE DEF n
<1>4. n \in {a, b} /\ n <= a /\ n <= b
  <2> HIDE DEF a, b
  <2>1. \E x \in {a, b} : \A y \in {a, b} : x <= y
    BY <1>2
  <2>2. n \in {a, b} /\ \A y \in {a, b} : n <= y
    BY <1>3, <2>1 DEF Min
  <2> QED BY <2>2
<1>5. n \in Nat /\ copied + n <= g.memsz
  BY <1>2, <1>4
<1>6. ASSUME copied + n # g.memsz
      PROVE  (g.virt + (copied + n)) \div PageSize = page + 1 /\ (g.virt + (copied + n)) % PageSize = 0
  <2>1. n = a
    BY <1>2, <1>4, <1>6
  <2>2. (page + 1) * PageSize = page * PageSize + PageSize /\ page * PageSize \in Nat
    <3>1. \A q \in Nat : (q + 1) * PageSize = q * PageSize + PageSize /\ q * PageSize \in Nat
      BY <1>0
    <3> HIDE DEF page
    <3> QED BY <1>1, <3>1
  <2>3. g.virt + (copied + n) = (page + 1) * PageSize + 0
    <3> DEFINE m == page * PageSize
               v == g.virt
    <3>1. m \in Nat /\ v \in Nat /\ v + copied = m + r /\ r \in Nat /\ n = PageSize - r
          /\ (page + 1) * PageSize = m + PageSize
      BY <1>0, <1>1, <2>1, <2>2
    <3> HIDE DEF m, v, r, a, page
    <3>2. v + (copied + n) = m + PageSize
      BY <1>0, <1>5, <3>1
    <3> QED BY <1>0, <3>1, <3>2 DEF v
  <2>4. 0 \in 0 .. PageSize - 1 /\ page + 1 \in Nat
    BY <1>0, <1>1
  <2>5. /\ ((page + 1) * PageSize + 0) \div PageSize = page + 1
        /\ ((page + 1) * PageSize + 0) % PageSize = 0
    <3> HIDE DEF page
    <3> QED BY <1>0, <2>4, QuotientIs
  <2> QED BY <2>3, <2>5
<1> QED BY <1>5, <1>6 DEF n

\* The copy that comes after another.
IsNextCopy(h, item, program) ==
  LET g == program.segments[item.segment]
      copied == item.copied + CopyLength(g, item.copied)
  IN  copied # g.memsz /\ h = [item EXCEPT !.copied = copied]

\* The next part of a copy is on the next page, and of the same segment.
LEMMA NextCopyIs ==
  ASSUME NEW program \in TaskPrograms, NEW item \in TaskItem, item.do = "copy",
         CopyFits(item, program), NEW h, IsNextCopy(h, item, program)
  PROVE  /\ h \in TaskItem /\ h.do = "copy" /\ CopyFits(h, program)
         /\ \A p \in EveryPage : Touches(h, program, p) => Touches(item, program, p)
         /\ \A p \in EveryPage :
              p = (program.segments[item.segment].virt + item.copied) \div PageSize =>
                ~Touches(h, program, p)
<1> DEFINE g == program.segments[item.segment]
           copied == item.copied + CopyLength(g, item.copied)
           page == (g.virt + item.copied) \div PageSize
           last == (g.virt + g.memsz - 1) \div PageSize
<1>14. copied # g.memsz /\ h = [item EXCEPT !.copied = copied]
  BY DEF IsNextCopy
<1>0. PageSize \in Nat \ {0}
  BY MemoryAssumption
<1>1. /\ g.virt \in Nat /\ g.memsz \in Nat \ {0} /\ item.copied \in Nat /\ item.copied < g.memsz
  BY CopyIs
<1>2. item.segment \in DOMAIN program.segments
  BY DEF CopyFits
<1>3. item = [do |-> "copy", segment |-> item.segment, copied |-> item.copied] /\ item.segment \in Nat
  BY DEF TaskItem
<1> HIDE DEF g
<1>4. /\ CopyLength(g, item.copied) \in Nat /\ copied <= g.memsz
      /\ (g.virt + copied) \div PageSize = page + 1 /\ (g.virt + copied) % PageSize = 0
  BY <1>1, <1>14, CopyLengthIs
<1>5. copied \in Nat /\ copied < g.memsz
  BY <1>1, <1>4, <1>14
<1> HIDE DEF copied
<1>6. h = [do |-> "copy", segment |-> item.segment, copied |-> copied]
  BY <1>3, <1>14
<1>7. h \in TaskItem
  BY <1>3, <1>5, <1>6 DEF TaskItem
<1>8. CopyFits(h, program)
  BY <1>2, <1>4, <1>5, <1>6 DEF CopyFits, g
<1>9. page \in Nat
  <2>1. g.virt + item.copied \in Nat
    BY <1>1
  <2> QED BY <1>0, <2>1, QuotientAndRest
<1>10. ASSUME NEW p \in EveryPage
       PROVE  /\ Touches(item, program, p) <=> page <= p /\ p <= last
              /\ Touches(h, program, p) <=> page + 1 <= p /\ p <= last
  <2>1. Touches(item, program, p) <=> page <= p /\ p <= last
    BY <1>3 DEF Touches, g
  <2>2. Touches(h, program, p) <=> (g.virt + copied) \div PageSize <= p /\ p <= last
    BY <1>6 DEF Touches, g
  <2> QED BY <1>4, <2>1, <2>2
<1>11. \A p \in EveryPage : p \in Nat
  BY EveryPageIs
<1> HIDE DEF page, last
<1>12. \A p \in EveryPage : Touches(h, program, p) => Touches(item, program, p)
  BY <1>9, <1>10, <1>11
<1>13. \A p \in EveryPage : p = page => ~Touches(h, program, p)
  BY <1>9, <1>10, <1>11
<1> QED BY <1>6, <1>7, <1>8, <1>12, <1>13 DEF page, g

\* The wand's page is not one of a task: its entry changes nothing of what is at hand.
LEMMA WandKeepsUnmapped ==
  ASSUME SpacesFit, TablesApart, TasksFit, tasks # <<>>, active \in DOMAIN directories,
         NEW w \in HeapPages, NEW u \in Seq(Items), \A i \in DOMAIN u : CopyFits(u[i], TaskProgram),
         NEW pgs, DOMAIN pgs = DOMAIN pages, NEW f, NEW new,
         IsGiven(pgs, new, TableOf(active, w), w % Entries, f),
         ItemsUnmapped(u, TaskProgram, pgs, directories[target].tables)
  PROVE  ItemsUnmapped(u, TaskProgram, new, directories[target].tables)
<1> DEFINE tables == directories[target].tables
           table == TableOf(active, w)
           x == w % Entries
<1>1. target \in DOMAIN directories /\ TaskProgram \in TaskPrograms
  BY TargetIs, ProgramIs
<1>2. w \in EveryPage /\ w \in KernelPages
  BY EveryPageIs
<1>3. ASSUME NEW i \in DOMAIN u, NEW p \in EveryPage, Touches(u[i], TaskProgram, p)
      PROVE  Frame(new, tables[p \div Entries], p) \in {NoFrame, 0}
  <2>1. p \in TaskPages
    <3>1. u[i] \in TaskItem \cup DeviceItem
      <4>1. u \in Seq(TaskItem \cup DeviceItem)
        BY DEF Items
      <4> DEFINE S == TaskItem \cup DeviceItem
      <4>2. u \in Seq(S)
        BY <4>1
      <4> HIDE DEF S
      <4>3. u[i] \in S
        BY <4>2
      <4> QED BY <4>3 DEF S
    <3> QED BY <1>1, <1>3, <3>1, TaskTouches
  <2>2. p \div Entries # w \div Entries
    BY <1>2, <2>1, LayoutAssumption
  <2>3. /\ tables[p \div Entries] \in {0} \cup DOMAIN pgs
        /\ table = directories[active].tables[w \div Entries]
        /\ p \div Entries \in AllTables /\ w \div Entries \in AllTables
    <3>1. TableOf(target, p) = tables[p \div Entries] /\ TableOf(target, p) \in {0} \cup DOMAIN pages
      BY <1>1, FrameIs
    <3>2. table = directories[active].tables[w \div Entries]
      BY <1>2, FrameIs
    <3> QED BY <1>2, <3>1, <3>2, EveryPageIs
  <2>4. tables[p \div Entries] = 0 \/ tables[p \div Entries] # table
    BY <1>1, <2>2, <2>3 DEF TablesApart
  <2> DEFINE other == tables[p \div Entries]
  <2>5. /\ other \in {0} \cup DOMAIN pgs
        /\ other = 0 \/ other # table \/ p % Entries # x
        /\ IsGiven(pgs, new, table, x, f)
    BY <2>3, <2>4
  <2>6. Frame(pgs, other, p) \in {NoFrame, 0}
    BY <1>3 DEF ItemsUnmapped
  <2> HIDE DEF other, table, x
  <2>7. SameFrame(pgs, new, other, p)
    BY <2>5, OtherPagesStay
  <2> QED BY <2>6, <2>7 DEF other, SameFrame
<1> QED BY <1>3 DEF ItemsUnmapped

\* A part of an image is copied through the wand.
LEMMA CopyPartKeeps ==
  ASSUME Working, FramesApart, CopyPart
  PROVE  Working' /\ FramesApart' /\ halted' = "no"
<1> DEFINE program == Last(tasks).program
           g == program.segments[Head(todo).segment]
           copied == Head(todo).copied + CopyLength(g, Head(todo).copied)
           h == [Head(todo) EXCEPT !.copied = copied]
           page == PageAtHand
           table == TableOf(target, page)
           x == page % Entries
           f == FreeFrame
           w == wand.page
           given == [pages EXCEPT ![table][x] = f]
<1>1. /\ Step("copy") /\ table # 0
      /\ FreeFrames # {}
      /\ frames' = frames \cup {f}
      /\ pages' = [given EXCEPT ![TableOf(active, w)][w % Entries] = f]
      /\ IF copied = g.memsz THEN Done ELSE todo' = <<h>> \o Tail(todo)
      /\ UNCHANGED <<placement, placed, heap, directories, kernel, active, others, tasks, cores,
                     target, halted, wand>>
  BY Zenon DEF CopyPart, OnPage, AllocAnyFrame, SetFrame, allocation
<1>2. PICK s, rest : Doing(s, rest) /\ s # <<>> /\ s[1].do = "copy" /\ Head(todo) = s[1]
  BY <1>1, StepIs
<1>3. /\ page \in EveryPage /\ Touches(s[1], TaskProgram, page) /\ tasks # <<>>
      /\ TaskProgram = program
      /\ page = (g.virt + s[1].copied) \div PageSize
  BY <1>2, PageIs DEF Working
<1>4. /\ s \in Seq(Items) /\ Tail(todo) = Tail(s) \o rest /\ s[1] \in Items /\ 1 \in DOMAIN s
      /\ rest \in Seq(TodoItem) /\ s \in Seq(TodoItem) /\ todo = s \o rest
  BY <1>2, DoingIs, SMTT(30) DEF Doing
<1>5. /\ \A i \in DOMAIN s : CopyFits(s[i], TaskProgram)
      /\ WandFits(s, wand) /\ IdentityFits(s, frames)
  BY <1>2 DEF Doing, ItemsFit, Bare
<1>6. placement = 0 /\ active \in DOMAIN directories
  BY <1>3, Zenon DEF Working, TasksFit
<1>7. wand # NoWand /\ w \in HeapPages
  <2>1. Tail(s) \in Seq(Items) /\ GoesOn(Tail(s), 1, s, TaskProgram) /\ 1 \in {0, 1}
    BY <1>2, <1>4, TailGoesOn
  <2>2. wand # NoWand
    BY <1>2, <1>4, <1>5, <2>1, WandGoesOn
  <2> QED BY <2>2 DEF Working, AllocationFits
<1>8. x \in Positions /\ w % Entries \in Positions /\ f \in Nat /\ f \notin frames
  BY <1>1, <1>3, <1>7, EveryPageIs, FreeFrameIs, Zenon
<1>9. pages \in [DOMAIN pages -> [Positions -> Nat]]
  BY DEF Working, SpacesFit
<1> HIDE DEF page, table, x, f, w, given
<1>10. IsGiven(pages, given, table, x, f)
  BY <1>8, <1>9, EntryChanges DEF given
<1>11. DOMAIN given = DOMAIN pages /\ given \in [DOMAIN given -> [Positions -> Nat]]
  BY <1>10 DEF IsGiven
<1>12. IsGiven(given, pages', TableOf(active, w), w % Entries, f)
  BY <1>1, <1>8, <1>11, EntryChanges
<1>13. DOMAIN pages' = DOMAIN pages /\ pages' \in [DOMAIN pages' -> [Positions -> Nat]]
  BY <1>11, <1>12 DEF IsGiven
<1>14. SpacesFit' /\ TablesApart' /\ KernelStaysOut'
  BY <1>1, <1>13 DEF Working, SpacesFit, TablesApart, KernelStaysOut
<1>15. AllocationFits'
  BY <1>1, <1>13, AllocationStays DEF Working
<1>16. TasksFit'
  BY <1>1, TasksStay DEF Working
<1>17. FramesApart'
  <2>1. Borrowed' = Borrowed
    BY <1>1 DEF Borrowed, TableOf
  <2>2. frames \subseteq frames' /\ f \in frames'
    BY <1>1
  <2>3. ApartIn(pages, Borrowed, frames, wand)
    BY DEF FramesApart
  <2>4. ApartIn(given, Borrowed, frames', wand)
    BY <1>8, <1>10, <2>2, <2>3, MapKeepsApart
  <2>5. <<TableOf(active, w), w % Entries>> \in Borrowed
    BY <1>7 DEF Borrowed, w
  <2>6. ApartIn(pages', Borrowed, frames', wand)
    BY <1>8, <1>12, <2>4, <2>5, BorrowedMayChange
  <2> QED BY <1>1, <2>1, <2>6 DEF FramesApart
<1>18. ASSUME NEW k \in {0, 1}, NEW u \in Seq(Items), GoesOn(u, k, s, TaskProgram),
              todo' = u \o rest,
              k = 0 => CopyFits(u[1], TaskProgram) /\ ~Touches(u[1], TaskProgram, page)
       PROVE  TodoFits'
  <2>1. ItemsUnmapped(u, TaskProgram, given, directories[target].tables)
    <3>1. TableOf(target, page) # 0 /\ IsGiven(pages, given, TableOf(target, page), page % Entries, f)
      BY <1>1, <1>10 DEF table, x
    <3>2. k = 0 => ~Touches(u[1], TaskProgram, page)
      BY <1>18
    <3> QED BY <1>2, <1>3, <1>18, <3>1, <3>2, MapKeepsUnmapped, Zenon DEF Working
  <2>2. \A i \in DOMAIN u : CopyFits(u[i], TaskProgram)
    <3>1. k = 0 => CopyFits(u[1], TaskProgram)
      BY <1>18
    <3>2. Bare(s, Items, TaskProgram)
      BY <1>2 DEF Doing, ItemsFit
    <3>3. Bare(u, Items, TaskProgram)
      BY <1>2, <1>18, <3>1, <3>2, BareGoesOn
    <3> QED BY <3>3 DEF Bare
  <2>3. ItemsUnmapped(u, TaskProgram, pages', directories[target].tables)
    BY <1>3, <1>6, <1>7, <1>11, <1>12, <1>18, <2>1, <2>2, WandKeepsUnmapped, Zenon DEF Working
  <2>4. WandFits(u, wand')
    <3>1. s[1].do \notin {"take_wand", "put_wand_back"} /\ s # <<>>
      BY <1>2
    <3>2. GoesOn(u, k, s, TaskProgram)
      BY <1>18
    <3>3. WandFits(u, wand)
      BY <1>4, <1>5, <3>1, <3>2, WandGoesOn
    <3> QED BY <1>1, <3>3
  <2>5. IdentityFits(u, frames')
    <3>1. s[1].do \notin {"get_page", "identity_map"} /\ s # <<>> /\ IdentityFits(s, frames)
      BY <1>2, <1>5
    <3>2. GoesOn(u, k, s, TaskProgram) /\ k \in {0, 1}
      BY <1>18
    <3> QED BY <1>4, <3>1, <3>2, IdentityGoesOn
  <2>6. placement' = 0 /\ tasks' = tasks /\ (k = 0 => CopyFits(u[1], TaskProgram))
        /\ ItemsUnmapped(u, TaskProgram, pages', directories'[target'].tables)
    BY <1>1, <1>6, <1>18, <2>3
  <2> QED BY <1>2, <1>18, <2>4, <2>5, <2>6, TodoGoesOn
<1>19. TodoFits'
  <2>1. CASE copied # g.memsz
    <3>0. /\ TaskProgram \in TaskPrograms /\ CopyFits(s[1], TaskProgram)
          /\ s[1] \in TaskItem
      <4>1. s[1] \notin DeviceItem
        BY <1>2 DEF DeviceItem
      <4> QED BY <1>3, <1>4, <1>5, <4>1, ProgramIs, Zenon DEF Working, Items
    <3>1. /\ h \in TaskItem /\ h.do = "copy" /\ CopyFits(h, TaskProgram)
          /\ \A p \in EveryPage : Touches(h, TaskProgram, p) => Touches(s[1], TaskProgram, p)
          /\ ~Touches(h, TaskProgram, page)
      <4>1. /\ IsNextCopy(h, s[1], TaskProgram)
            /\ page = (TaskProgram.segments[s[1].segment].virt + s[1].copied) \div PageSize
        BY <1>2, <1>3, <2>1, Zenon DEF IsNextCopy
      <4> HIDE DEF copied, h
      <4> QED BY <1>2, <1>3, <3>0, <4>1, NextCopyIs, Zenon
    <3>2. h \in Items /\ h \in TodoItem /\ h.do = s[1].do
      BY <1>2, <1>3, <3>1, Zenon DEF Items, TodoItem
    <3> DEFINE u == <<h>> \o Tail(s)
    <3> HIDE DEF h
    <3>3. /\ u \in Seq(Items) /\ GoesOn(u, 0, s, TaskProgram) /\ u[1] = h
      BY <1>2, <1>4, <3>1, <3>2, HeadGoesOn
    <3>4. todo' = u \o rest
      <4>1. <<h>> \o Tail(s \o rest) = u \o rest
        BY <1>2, <1>4, <3>2, HeadReplaced
      <4> QED BY <1>1, <1>4, <2>1, <4>1, Zenon DEF h
    <3>5. 0 \in {0, 1}
      OBVIOUS
    <3> HIDE DEF u
    <3> QED BY <1>18, <3>1, <3>3, <3>4, <3>5
  <2>2. CASE copied = g.memsz
    <3> DEFINE u == Tail(s)
    <3>1. u \in Seq(Items) /\ GoesOn(u, 1, s, TaskProgram)
      BY <1>2, <1>4, TailGoesOn
    <3>2. todo' = u \o rest
      BY <1>1, <1>4, <2>2 DEF Done
    <3>3. 1 \in {0, 1} /\ 1 # 0
      OBVIOUS
    <3> HIDE DEF u
    <3> QED BY <1>18, <3>1, <3>2, <3>3
  <2> QED BY <2>1, <2>2
<1>20. halted' = "no"
  BY <1>1 DEF Step
<1> QED BY <1>14, <1>15, <1>16, <1>17, <1>19, <1>20 DEF Working

\* The wand borrows a page of the heap.
LEMMA TakeWandKeeps ==
  ASSUME Working, FramesApart, TakeWand
  PROVE  Working' /\ FramesApart' /\ halted' = "no"
<1>0. PageSize \in Nat \ {0} /\ HeapStart \in Nat \ {0} /\ HeapEnd \in Nat
  BY MemoryAssumption
<1>1. /\ Step("take_wand") /\ Done
      /\ UNCHANGED <<spaces, frames, others, memory, tasks, cores, target, halted>>
  BY DEF TakeWand
<1>2. UNCHANGED <<directories, pages, kernel, active, frames, others, memory, tasks, cores, target,
                  halted>>
  BY <1>1 DEF spaces
<1>3. PICK s, rest : Doing(s, rest) /\ s # <<>> /\ s[1].do = "take_wand" /\ Head(todo) = s[1]
  BY <1>1, StepIs
<1>4. PICK a \in Addresses(PageSize) :
        /\ AllocAligned(PageSize, a)
        /\ wand' = [page |-> a \div PageSize, frame |-> FrameOf(active, a \div PageSize)]
  BY DEF TakeWand
<1>7. wand = NoWand
  BY <1>3, WandChanges
<1>8. placement = 0
  BY <1>3, PlacementIs
<1>9. active \in DOMAIN directories
  BY <1>8 DEF Working, TasksFit
<1> DEFINE p == a \div PageSize
           table == TableOf(active, p)
           x == p % Entries
<1>10. p \in HeapPages \ heap /\ p \in EveryPage /\ x \in Positions
  <2>1. p \in HeapPages \ heap
    BY <1>0, <1>4, <1>8, AddressesAreNew DEF Working
  <2> QED BY <2>1, EveryPageIs
<1>11. FrameOf(active, p) \in Nat /\ table \in {0} \cup DOMAIN pages
  BY <1>9, <1>10, FrameIs DEF Working
<1>12. /\ p \in Nat \ {0} /\ p \notin others /\ others \subseteq heap
  BY <1>0, <1>10 DEF HeapPages, Working, AllocationFits
<1>13. wand' # NoWand /\ wand' \in [page : Nat, frame : Nat] /\ wand'.page = p
       /\ wand'.frame = FrameOf(active, p)
  BY <1>4, <1>11, <1>12 DEF NoWand
<1>14. /\ placement' = 0 /\ others' \subseteq heap'
       /\ \A b : Taken(b, placement, Kept) => Taken(b, placement', Kept')
       /\ p \in heap'
  <2>1. wand' = wand \/ (wand = NoWand /\ placement = 0 /\ wand'.page = a \div PageSize)
    BY <1>7, <1>8, <1>13
  <2> QED BY <1>0, <1>2, <1>4, <1>8, <2>1, AllocAlignedTakes DEF Working
<1>15. AllocationFits'
  <2>1. \A b \in DOMAIN pages \cup DOMAIN directories : Taken(b, placement, Kept)
    BY DEF Working, AllocationFits
  <2>2. wand'.page \in (heap' \ others') \cap HeapPages
    BY <1>2, <1>10, <1>12, <1>13, <1>14
  <2> QED BY <1>2, <1>13, <1>14, <2>1, <2>2 DEF AllocationFits
<1>16. FramesApart'
  <2> DEFINE wd == wand'
  <2>1. ApartIn(pages, {}, frames, NoWand) /\ pages \in [DOMAIN pages -> [Positions -> Nat]]
    BY <1>7 DEF FramesApart, Borrowed, Working, SpacesFit
  <2>2. IF table \in DOMAIN pages THEN wd.frame = pages[table][x] ELSE wd.frame >= FrameCount
    <3>1. CASE table = 0
      <4>1. table \notin DOMAIN pages
        BY <3>1 DEF Working, AllocationFits, Taken
      <4>2. wd.frame = NoFrame
        BY <1>13, <3>1 DEF FrameOf
      <4>3. NoFrame >= FrameCount
        BY MemoryAssumption DEF NoFrame
      <4> QED BY <4>1, <4>2, <4>3
    <3>2. CASE table # 0
      BY <1>11, <1>13, <3>2 DEF FrameOf
    <3> QED BY <3>1, <3>2
  <2>3. Borrowed' = {<<table, x>>}
    <3>1. TableOf(active, p)' = TableOf(active, p)
      BY <1>2, <1>4 DEF TableOf
    <3> QED BY <1>2, <1>13, <3>1 DEF Borrowed, TableOf
  <2>4. wd.frame \in Nat
    BY <1>11, <1>13
  <2> HIDE DEF table, x, wd
  <2>5. ApartIn(pages, {<<table, x>>}, frames, wd)
    BY <1>10, <2>1, <2>2, <2>4, TakeKeepsApart
  <2> QED BY <1>2, <2>3, <2>5 DEF FramesApart, wd
<1>17. TodoFits'
  <2>1. WandFits(Tail(s), wand')
    BY <1>3, <1>13, WandChanges
  <2> QED BY <1>1, <1>2, <1>3, <1>14, <2>1, DoneKeepsTodo
<1>18. SpacesFit' /\ TablesApart' /\ KernelStaysOut'
  BY <1>2, SpacesStay DEF Working
<1>19. TasksFit'
  BY <1>2, <1>8, <1>14, TasksStay DEF Working
<1>20. halted' = "no"
  BY <1>1, <1>2 DEF Step
<1> QED BY <1>15, <1>16, <1>17, <1>18, <1>19, <1>20 DEF Working

\* The wand is given back.
LEMMA PutWandBackKeeps ==
  ASSUME Working, FramesApart, PutWandBack
  PROVE  Working' /\ FramesApart' /\ halted' = "no"
<1>0. PageSize \in Nat \ {0} /\ HeapStart \in Nat \ {0} /\ HeapEnd \in Nat
  BY MemoryAssumption
<1> DEFINE w == wand.page
           table == TableOf(active, w)
           x == w % Entries
           f == wand.frame
<1>1. /\ Step("put_wand_back") /\ Done /\ heap' = heap \ {w} /\ wand' = NoWand
      /\ pages' = [pages EXCEPT ![table][x] = f]
      /\ UNCHANGED <<placement, placed, frames, directories, kernel, active, others, memory, tasks,
                     cores, target, halted>>
  BY DEF PutWandBack, Map
<1>2. PICK s, rest : Doing(s, rest) /\ s # <<>> /\ s[1].do = "put_wand_back" /\ Head(todo) = s[1]
  BY <1>1, StepIs
<1>3. /\ s \in Seq(Items) /\ WandFits(s, wand) /\ IdentityFits(s, frames) /\ 1 \in DOMAIN s
      /\ Tail(todo) = Tail(s) \o rest /\ s[1] \in Items
      /\ ItemsUnmapped(s, TaskProgram, pages, directories[target].tables)
      /\ Bare(s, Items, TaskProgram)
  <2>1. s \in Seq(Items) /\ 1 \in DOMAIN s /\ Tail(todo) = Tail(s) \o rest /\ s[1] \in Items
    BY <1>2, DoingIs
  <2>2. ItemsFit(s)
    BY <1>2 DEF Doing
  <2> QED BY <2>1, <2>2 DEF ItemsFit
<1> DEFINE u == Tail(s)
<1>4. u \in Seq(Items) /\ GoesOn(u, 1, s, TaskProgram) /\ 1 \in {0, 1} /\ 1 = 1
  BY <1>2, <1>3, TailGoesOn
<1> HIDE DEF u
<1>5. wand # NoWand
  BY <1>2, WandChanges
<1>6. WandFits(u, NoWand)
  BY <1>2, WandChanges DEF u
<1>7. /\ w \in (heap \ others) \cap HeapPages /\ f \in Nat
      /\ others \subseteq heap
  BY <1>5 DEF Working, AllocationFits
<1>8. placement = 0
  BY <1>2, PlacementIs
<1>9. tasks # <<>> /\ active \in DOMAIN directories
  <2>1. s[1] \notin KernelItem
    BY <1>2 DEF KernelItem
  <2> QED BY <1>3, <1>8, <2>1 DEF Working, TasksFit, Items
<1>10. x \in Positions /\ w \in Nat \ {0}
  BY <1>0, <1>7, EveryPageIs DEF HeapPages
<1>11. pages \in [DOMAIN pages -> [Positions -> Nat]]
  BY DEF Working, SpacesFit
<1> HIDE DEF w, table, x, f
<1>12. IsGiven(pages, pages', table, x, f)
  BY <1>1, <1>7, <1>10, <1>11, EntryChanges
<1>13. SpacesFit' /\ TablesApart' /\ KernelStaysOut' /\ DOMAIN pages' = DOMAIN pages
  BY <1>1, <1>7, <1>10, MapKeepsSpaces DEF Working
<1>14. AllocationFits'
  <2>1. ASSUME NEW b, Taken(b, placement, Kept) PROVE Taken(b, placement', Kept')
    <3>1. b \in Nat \ {0} /\ (b \div PageSize < HeapStart \/ b \div PageSize \in Kept)
      BY <1>8, <2>1 DEF Taken
    <3>2. b \div PageSize \in Nat
      BY <1>0, <3>1, QuotientAndRest
    <3>3. b \div PageSize \in Kept => b \div PageSize \in Kept' \/ b \div PageSize = 0
      BY <1>1 DEF Kept, w, NoWand
    <3> QED BY <1>0, <1>1, <1>8, <3>1, <3>2, <3>3 DEF Taken
  <2>2. \A b \in DOMAIN pages \cup DOMAIN directories : Taken(b, placement, Kept)
    BY DEF Working, AllocationFits
  <2>3. wand' \in [page : Nat, frame : Nat]
    BY <1>1, MemoryAssumption DEF NoWand, NoFrame
  <2> QED BY <1>1, <1>7, <1>8, <1>13, <2>1, <2>2, <2>3 DEF AllocationFits
<1>15. FramesApart'
  <2>1. Borrowed = {<<table, x>>}
    BY <1>5 DEF Borrowed, table, x, w
  <2>2. ApartIn(pages, {<<table, x>>}, frames, wand)
    BY <2>1 DEF FramesApart
  <2>3. IsGiven(pages, pages', table, x, wand.frame)
    BY <1>12 DEF f
  <2>4. ApartIn(pages', {}, frames, NoWand)
    BY <1>5, <2>2, <2>3, PutBackKeepsApart
  <2>5. Borrowed' = {}
    BY <1>1 DEF Borrowed
  <2> QED BY <1>1, <2>4, <2>5 DEF FramesApart
<1>16. TodoFits'
  <2>1. ItemsUnmapped(u, TaskProgram, pages, directories[target].tables)
    BY <1>3, <1>4, UnmappedGoesOn
  <2>2. \A i \in DOMAIN u : CopyFits(u[i], TaskProgram)
    <3>1. 1 = 0 => CopyFits(u[1], TaskProgram)
      OBVIOUS
    <3>2. Bare(u, Items, TaskProgram)
      BY <1>2, <1>3, <1>4, <3>1, BareGoesOn
    <3> QED BY <3>2 DEF Bare
  <2>3. w \in HeapPages /\ IsGiven(pages, pages', TableOf(active, w), w % Entries, f)
    BY <1>7, <1>12 DEF table, x
  <2>4. ItemsUnmapped(u, TaskProgram, pages', directories[target].tables)
    BY <1>4, <1>9, <2>1, <2>2, <2>3, WandKeepsUnmapped DEF Working
  <2>5. IdentityFits(u, frames)
    <3>1. s # <<>>
      BY <1>2
    <3> QED BY <1>3, <1>4, <3>1, IdentityGoesOn
  <2>6. placement' = 0 /\ tasks' = tasks /\ (1 = 0 => CopyFits(u[1], TaskProgram))
        /\ ItemsUnmapped(u, TaskProgram, pages', directories'[target'].tables)
        /\ WandFits(u, wand') /\ IdentityFits(u, frames')
    BY <1>1, <1>6, <1>8, <2>4, <2>5
  <2>7. todo' = u \o rest
    BY <1>1, <1>3 DEF Done, u
  <2> QED BY <1>2, <1>4, <2>6, <2>7, TodoGoesOn
<1>17. TasksFit'
  BY <1>1, TasksStay DEF Working
<1>18. halted' = "no"
  BY <1>1 DEF Step
<1> QED BY <1>13, <1>14, <1>15, <1>16, <1>17, <1>18 DEF Working

-----------------------------------------------------------------------------
(* Steps that make tables and directories.                                 *)

\* What MakeTable does to the directories.
GetsTable(d, t, a) == directories' = [directories EXCEPT ![d] = WithTable(@, t, a)]

\* A directory gets a table, and the others keep theirs.
LEMMA TableIsThere ==
  ASSUME SpacesFit, NEW d \in DOMAIN directories, NEW t \in AllTables, NEW a, Physical(a) \in Nat,
         GetsTable(d, t, a)
  PROVE  /\ DOMAIN directories' = DOMAIN directories
         /\ directories' \in [DOMAIN directories' -> Directory(DOMAIN pages \cup {a})]
         /\ \A e \in DOMAIN directories, u \in AllTables :
              directories'[e].tables[u] = IF e = d /\ u = t THEN a ELSE directories[e].tables[u]
<1> DEFINE old == directories[d]
           new == WithTable(old, t, a)
           ph == Physical(a)
           T == {0} \cup DOMAIN pages
           N == {0} \cup (DOMAIN pages \cup {a})
<1>1. \A e \in DOMAIN directories :
        directories[e] \in [tables : [AllTables -> T], physicals : [AllTables -> Nat], physicalAddr : Nat]
  BY DEF SpacesFit, Directory
<1>2. /\ old.tables \in [AllTables -> T] /\ old.physicals \in [AllTables -> Nat]
      /\ old.physicalAddr \in Nat
      /\ old = [tables |-> old.tables, physicals |-> old.physicals, physicalAddr |-> old.physicalAddr]
  BY <1>1
<1>3. new = [old EXCEPT !.tables = [old.tables EXCEPT ![t] = a],
                        !.physicals = [old.physicals EXCEPT ![t] = ph]]
  BY DEF WithTable
<1>4. DOMAIN directories' = DOMAIN directories /\ directories'[d] = new
      /\ \A e \in DOMAIN directories : e # d => directories'[e] = directories[e]
  <2> HIDE DEF new, old
  <2>1. directories' = [directories EXCEPT ![d] = new]
    BY DEF new, old, GetsTable
  <2> QED BY <2>1
<1> HIDE DEF old, ph, T, N
<1>5. /\ new.tables = [old.tables EXCEPT ![t] = a]
      /\ new.physicals = [old.physicals EXCEPT ![t] = ph]
      /\ new.physicalAddr = old.physicalAddr
      /\ new = [tables |-> new.tables, physicals |-> new.physicals, physicalAddr |-> new.physicalAddr]
  <2> HIDE DEF new
  <2> DEFINE g == [old.tables EXCEPT ![t] = a]
             h == [old.physicals EXCEPT ![t] = ph]
             mid == [old EXCEPT !.tables = g]
  <2>1. new = [mid EXCEPT !.physicals = h]
    BY <1>3
  <2> HIDE DEF g, h
  <2>2. mid = [tables |-> g, physicals |-> old.physicals, physicalAddr |-> old.physicalAddr]
    BY <1>2
  <2> HIDE DEF mid
  <2>3. [mid EXCEPT !.physicals = h] = [tables |-> g, physicals |-> h, physicalAddr |-> old.physicalAddr]
    BY <2>2
  <2>4. new = [tables |-> g, physicals |-> h, physicalAddr |-> old.physicalAddr]
    BY <2>1, <2>3
  <2> QED BY <2>4 DEF g, h
<1> HIDE DEF new
<1>6. T \subseteq N /\ a \in N /\ ph \in Nat
  BY DEF T, N, ph
<1>7. new.tables \in [AllTables -> N] /\ new.physicals \in [AllTables -> Nat]
  BY <1>2, <1>5, <1>6
<1>8. new \in [tables : [AllTables -> N], physicals : [AllTables -> Nat], physicalAddr : Nat]
  BY <1>2, <1>5, <1>7
<1>9. \A e \in DOMAIN directories' :
        directories'[e] \in [tables : [AllTables -> N], physicals : [AllTables -> Nat], physicalAddr : Nat]
  BY <1>1, <1>4, <1>6, <1>8
<1>10. directories' \in [DOMAIN directories' -> Directory(DOMAIN pages \cup {a})]
  <2> DEFINE D == [tables : [AllTables -> N], physicals : [AllTables -> Nat], physicalAddr : Nat]
  <2>1. Directory(DOMAIN pages \cup {a}) = D
    BY DEF Directory, N
  <2>2. \A e \in DOMAIN directories' : directories'[e] \in D
    BY <1>9
  <2>3. directories' = [e \in DOMAIN directories' |-> directories'[e]]
    BY DEF GetsTable
  <2> HIDE DEF D
  <2> QED BY <2>1, <2>2, <2>3
<1>11. \A e \in DOMAIN directories, u \in AllTables :
         directories'[e].tables[u] = IF e = d /\ u = t THEN a ELSE directories[e].tables[u]
  <2>1. \A u \in AllTables : new.tables[u] = IF u = t THEN a ELSE old.tables[u]
    BY <1>2, <1>5
  <2> QED BY <1>4, <2>1 DEF old
<1> QED BY <1>4, <1>10, <1>11

\* Where placement begins, after the directory: at a page.
LEMMA PlacementBaseIs ==
  ASSUME NEW n \in ModuleSizes
  PROVE  PlacementBase(n) \in Nat /\ \E q \in Nat : PlacementBase(n) = q * PageSize
<1>0. /\ PageSize \in Nat \ {0} /\ KernelEnd \in Nat /\ BitmapSize \in Nat /\ ModuleSizes \subseteq Nat
  BY MemoryAssumption
<1>1. KernelEnd + n + BitmapSize \in Nat
  BY <1>0
<1>2. Aligned(KernelEnd + n + BitmapSize) \in Nat
  BY <1>1, AlignedIs
<1>3. Aligned(KernelEnd + n + BitmapSize) + DirectorySize \in Nat
  BY <1>0, <1>2 DEF DirectorySize
<1>4. PlacementBase(n) \in Nat /\ PlacementBase(n) % PageSize = 0
  BY <1>3, AlignedIs DEF PlacementBase
<1>5. /\ PlacementBase(n) \div PageSize \in Nat
      /\ PlacementBase(n) = (PlacementBase(n) \div PageSize) * PageSize + (PlacementBase(n) % PageSize)
  BY <1>0, <1>4, QuotientAndRest
<1> DEFINE q == PlacementBase(n) \div PageSize
<1>6. q \in Nat /\ PlacementBase(n) = q * PageSize + 0
  BY <1>4, <1>5
<1> HIDE DEF q
<1>7. q * PageSize + 0 = q * PageSize
  BY <1>0, <1>6
<1> QED BY <1>4, <1>6, <1>7

\* A table takes a page.
LEMMA PlacementGrows ==
  ASSUME NEW n \in ModuleSizes, NEW c \in Nat, NEW pl \in Nat,
         pl <= PlacementBase(n) + PageSize * c
  PROVE  Aligned(pl) + PageSize <= PlacementBase(n) + PageSize * (c + 1)
<1>0. PageSize \in Nat \ {0}
  BY MemoryAssumption
<1>1. PICK q \in Nat : PlacementBase(n) = q * PageSize
  BY PlacementBaseIs
<1>2. (q + c) * PageSize = q * PageSize + PageSize * c
  BY <1>0
<1>3. q + c \in Nat /\ pl <= (q + c) * PageSize
  BY <1>1, <1>2
<1>4. Aligned(pl) \in Nat /\ Aligned(pl) <= (q + c) * PageSize
  BY <1>3, AlignedIs
<1>5. PageSize * (c + 1) = PageSize * c + PageSize /\ PageSize * c \in Nat /\ q * PageSize \in Nat
  BY <1>0
<1> DEFINE x == PageSize * c
           y == q * PageSize
           z == PageSize * (c + 1)
<1>6. x \in Nat /\ y \in Nat /\ z = x + PageSize /\ PlacementBase(n) = y /\ Aligned(pl) <= y + x
  BY <1>1, <1>2, <1>4, <1>5
<1> HIDE DEF x, y, z
<1>7. Aligned(pl) + PageSize <= PlacementBase(n) + z
  BY <1>0, <1>4, <1>6
<1> QED BY <1>7 DEF z

\* What has no frame has none in the new table.
LEMMA NewTableKeepsUnmapped ==
  ASSUME SpacesFit, NEW s, NEW program, NEW d \in DOMAIN directories, NEW t \in AllTables, NEW a,
         a # 0, NEW new, \A b \in DOMAIN pages : new[b] = pages[b],
         new[a] = [e \in Positions |-> NoFrame],
         NEW tables, \A u \in AllTables :
           tables[u] = IF u = t THEN a ELSE directories[d].tables[u],
         ItemsUnmapped(s, program, pages, directories[d].tables)
  PROVE  ItemsUnmapped(s, program, new, tables)
<1>1. ASSUME NEW p \in EveryPage,
             Frame(pages, directories[d].tables[p \div Entries], p) \in {NoFrame, 0}
      PROVE  Frame(new, tables[p \div Entries], p) \in {NoFrame, 0}
  <2>1. p \div Entries \in AllTables /\ p % Entries \in Positions
    BY EveryPageIs
  <2>2. CASE p \div Entries = t
    BY <2>1, <2>2 DEF Frame
  <2>3. CASE p \div Entries # t
    <3>1. tables[p \div Entries] = directories[d].tables[p \div Entries]
      BY <2>1, <2>3
    <3>2. directories[d].tables[p \div Entries] \in {0} \cup DOMAIN pages
      BY FrameIs
    <3> QED BY <1>1, <3>1, <3>2 DEF Frame
  <2> QED BY <2>2, <2>3
<1> QED BY <1>1 DEF ItemsUnmapped

\* A table is made for the page at hand.
LEMMA MakeTableKeeps ==
  ASSUME Working, FramesApart, MakeTable
  PROVE  Working' /\ FramesApart' /\ halted' = "no"
<1>0. /\ PageSize \in Nat \ {0} /\ Entries \in Nat \ {0} /\ HeapStart \in Nat \ {0} /\ HeapEnd \in Nat
      /\ HeapEnd - 1 \in Nat
  BY MemoryAssumption, LayoutAssumption
<1> DEFINE page == PageAtHand
           t == page \div Entries
<1>1. PICK what \in {"get_page", "identity_map", "map", "copy", "device"} : Step(what)
  BY DEF MakeTable, NeedsTable
<1>2. PICK s, rest : Doing(s, rest) /\ s # <<>> /\ s[1].do = what /\ Head(todo) = s[1]
  BY <1>1, StepIs
<1>3. PICK a \in Addresses(PageSize) :
        /\ AllocAligned(PageSize, a)
        /\ pages' = With(pages, a, [e \in Positions |-> NoFrame])
        /\ directories' = [directories EXCEPT ![target] = WithTable(@, t, a)]
  BY DEF MakeTable, Positions
<1>4. /\ TableOf(target, page) = 0
      /\ UNCHANGED <<tasks, cores, target, wand, frames, kernel, active, others, memory, todo, halted>>
  BY DEF MakeTable, NeedsTable, making
<1>5. /\ page \in EveryPage /\ t \in AllTables /\ (tasks = <<>> => page \in KernelPages)
      /\ s[1].do # "copy" => page = s[1].page
  BY <1>2, PageIs, EveryPageIs DEF Working
<1>6. target \in DOMAIN directories
  BY TargetIs DEF Working
<1>7. directories[target].tables[t] = 0
  BY <1>4, <1>5, <1>6, FrameIs DEF Working
<1>8. /\ a \in Nat \ {0} /\ a \notin DOMAIN pages \cup DOMAIN directories
      /\ placement # 0 => a = Aligned(placement)
  BY <1>0, <1>3, AddressesAreNew DEF Working
<1>9. Physical(a) \in Nat
  BY <1>0, <1>3, PhysicalIs DEF Working
<1> HIDE DEF page, t
<1>10. /\ DOMAIN directories' = DOMAIN directories
       /\ directories' \in [DOMAIN directories' -> Directory(DOMAIN pages \cup {a})]
       /\ \A e \in DOMAIN directories, u \in AllTables :
            directories'[e].tables[u] = IF e = target /\ u = t THEN a ELSE directories[e].tables[u]
  <2>1. GetsTable(target, t, a)
    BY <1>3 DEF GetsTable
  <2> QED BY <1>5, <1>6, <1>9, <2>1, TableIsThere DEF Working
<1>11. pages \in [DOMAIN pages -> [Positions -> Nat]] /\ IsFiniteSet(DOMAIN pages)
  BY DEF Working, SpacesFit
<1>12. /\ ApartIn(pages', Borrowed', frames, wand)
       /\ DOMAIN pages' = DOMAIN pages \cup {a} /\ pages' \in [DOMAIN pages' -> [Positions -> Nat]]
       /\ \A b \in DOMAIN pages : pages'[b] = pages[b]
       /\ pages'[a] = [e \in Positions |-> NoFrame]
  <2>1. \A e \in (DOMAIN pages) \X Positions : e \in Borrowed <=> e \in Borrowed'
    <3>1. CASE wand = NoWand
      BY <1>4, <3>1 DEF Borrowed
    <3>2. CASE wand # NoWand
      <4> DEFINE w == wand.page
                 u == w \div Entries
      <4>1. w \in EveryPage /\ w \in HeapPages
        BY <3>2, EveryPageIs DEF Working, AllocationFits
      <4>2. placement = 0
        BY <3>2 DEF Working, AllocationFits
      <4>3. active \in DOMAIN directories /\ u \in AllTables
        BY <4>1, <4>2, EveryPageIs DEF Working, TasksFit
      <4>4. Borrowed = {<<directories[active].tables[u], w % Entries>>}
        BY <3>2 DEF Borrowed, TableOf
      <4>5. Borrowed' = {<<directories'[active].tables[u], w % Entries>>}
        BY <1>4, <3>2 DEF Borrowed, TableOf
      <4>6. \/ directories'[active].tables[u] = directories[active].tables[u]
            \/ directories'[active].tables[u] = a /\ directories[active].tables[u] = 0
        BY <1>7, <1>10, <4>3
      <4>7. 0 \notin DOMAIN pages
        BY DEF Working, AllocationFits, Taken
      <4> HIDE DEF w, u
      <4> QED BY <1>8, <4>4, <4>5, <4>6, <4>7
    <3> QED BY <3>1, <3>2
  <2>2. ApartIn(pages, Borrowed, frames, wand)
    BY DEF FramesApart
  <2> DEFINE new == pages'
             without == Borrowed'
  <2>3. IsNewTable(pages, new, a)
    BY <1>3, <1>8 DEF IsNewTable
  <2>4. SameEntries(pages, Borrowed, without)
    BY <2>1 DEF SameEntries
  <2> HIDE DEF new, without
  <2>5. ApartIn(new, without, frames, wand) /\ HasTable(pages, new, a)
    BY <1>11, <2>2, <2>3, <2>4, NewTableKeepsApart
  <2> QED BY <2>5 DEF new, without, HasTable
<1>13. FramesApart'
  BY <1>4, <1>12 DEF FramesApart
<1>14. AllocationFits'
  <2>1. DOMAIN pages' \cup DOMAIN directories' \subseteq (DOMAIN pages \cup DOMAIN directories) \cup {a}
    BY <1>10, <1>12
  <2> QED BY <1>0, <1>3, <1>4, <2>1, AllocationGoesOn DEF Working
<1>15. SpacesFit'
  <2>1. IsFiniteSet(DOMAIN pages')
    BY <1>11, <1>12, FS_AddElement
  <2>2. kernel' \in DOMAIN directories'
    BY <1>4, <1>10 DEF Working, SpacesFit
  <2>3. directories' \in [DOMAIN directories' -> Directory(DOMAIN pages')]
    BY <1>10, <1>12
  <2> QED BY <1>12, <2>1, <2>2, <2>3 DEF SpacesFit
<1>16. TablesApart'
  <2>1. ASSUME NEW d \in DOMAIN directories, NEW e \in DOMAIN directories, NEW u \in AllTables,
               NEW v \in AllTables, u # v, directories'[d].tables[u] = directories'[e].tables[v]
        PROVE  directories'[d].tables[u] = 0
    <3>1. \A x \in DOMAIN directories, y \in AllTables : directories[x].tables[y] # a
      <4>1. ASSUME NEW x \in DOMAIN directories, NEW y \in AllTables PROVE directories[x].tables[y] # a
        <5>1. directories[x].tables \in [AllTables -> {0} \cup DOMAIN pages]
          BY DEF Working, SpacesFit, Directory
        <5> QED BY <1>8, <5>1
      <4> QED BY <4>1
    <3>2. ~(d = target /\ u = t) /\ ~(e = target /\ v = t)
      BY <1>10, <2>1, <3>1
    <3> QED BY <1>10, <2>1, <3>2 DEF Working, TablesApart
  <2> QED BY <1>10, <2>1 DEF TablesApart
<1>17. target = kernel => tasks = <<>>
  <2>1. ASSUME tasks # <<>> PROVE target # kernel
    <3>1. Len(tasks) \in DOMAIN tasks /\ Last(tasks) = tasks[Len(tasks)]
      BY <2>1, ProgramIs DEF Working
    <3> QED BY <2>1, <3>1 DEF Working, TasksFit
  <2> QED BY <2>1
<1>18. KernelStaysOut'
  <2>1. ASSUME NEW p \in TaskPages PROVE directories'[kernel].tables[p \div Entries] = 0
    <3>1. p \div Entries \in AllTables /\ kernel \in DOMAIN directories
      BY EveryPageIs DEF Working, SpacesFit
    <3>2. ~(kernel = target /\ p \div Entries = t)
      BY <1>5, <1>17, LayoutAssumption DEF t
    <3>3. directories[kernel].tables[p \div Entries] = 0
      BY DEF Working, KernelStaysOut
    <3> QED BY <1>10, <3>1, <3>2, <3>3
  <2> QED BY <1>4, <2>1 DEF KernelStaysOut
<1>19. placement' = 0 <=> placement = 0
  BY <1>0, <1>3, <1>4, AllocAlignedTakes DEF Working
<1>20. TasksFit'
  BY <1>4, <1>10, <1>19 DEF Working, TasksFit
<1>21. ItemsUnmapped(s, TaskProgram, pages', directories'[target].tables)
  <2> DEFINE new == pages'
             tables == directories'[target].tables
  <2>1. ItemsUnmapped(s, TaskProgram, pages, directories[target].tables)
    BY <1>2 DEF Doing, ItemsFit
  <2>2. \A u \in AllTables : tables[u] = IF u = t THEN a ELSE directories[target].tables[u]
    BY <1>6, <1>10
  <2>3. /\ \A b \in DOMAIN pages : new[b] = pages[b]
        /\ new[a] = [e \in Positions |-> NoFrame] /\ a # 0
    BY <1>8, <1>12
  <2> HIDE DEF new, tables
  <2>4. ItemsUnmapped(s, TaskProgram, new, tables)
    BY <1>5, <1>6, <2>1, <2>2, <2>3, NewTableKeepsUnmapped DEF Working
  <2> QED BY <2>4 DEF new, tables
<1>22. ASSUME placement' # 0 PROVE PlacementFits' /\ Unpaged(s)
  <2>1. placement # 0 /\ placement' = Aligned(placement) + PageSize /\ placement \in Nat
    <3>1. placement # 0 /\ placement \in Nat
      BY <1>19, <1>22 DEF Working, AllocationFits
    <3>2. placement' = a + PageSize
      BY <1>3, <3>1 DEF AllocAligned
    <3> QED BY <1>8, <3>1, <3>2
  <2>2. tasks = <<>> /\ target = kernel
    BY <2>1 DEF Working, TasksFit
  <2>3. PlacementFits /\ s[1].do \in {"get_page", "identity_map", "map"} /\ s[1].page < HeapEnd
    BY <1>2, <2>1, PlacementIs
  <2>4. TablesMade' = TablesMade \cup {t}
    <3>1. \A u \in AllTables : directories'[kernel].tables[u] # 0 <=> directories[kernel].tables[u] # 0 \/ u = t
      BY <1>6, <1>8, <1>10, <2>2
    <3> QED BY <1>4, <1>5, <3>1 DEF TablesMade
  <2>5. t \notin TablesMade
    BY <1>7, <2>2 DEF TablesMade
  <2>6. t \in LowTables
    <3>1. page \in Nat /\ page <= HeapEnd - 1
      <4>1. page \in Nat /\ page = s[1].page
        BY <1>5, <2>3, EveryPageIs
      <4> QED BY <1>0, <2>3, <4>1
    <3>2. t <= (HeapEnd - 1) \div Entries
      BY <1>0, <3>1, QuotientOrder DEF t
    <3>3. t \in Nat /\ (HeapEnd - 1) \div Entries \in Nat
      BY <1>0, <3>1, QuotientAndRest DEF t
    <3> DEFINE z == (HeapEnd - 1) \div Entries
    <3> HIDE DEF z
    <3>4. t \in 0 .. z
      BY <3>2, <3>3 DEF z
    <3> QED BY <3>4 DEF LowTables, z
  <2>7. IsFiniteSet(TablesMade)
    <3>1. (HeapEnd - 1) \div Entries \in Nat
      BY <1>0, QuotientAndRest
    <3>2. IsFiniteSet(LowTables)
      BY <3>1, FS_Interval DEF LowTables
    <3> QED BY <2>3, <3>2, FS_Subset DEF PlacementFits
  <2>8. Cardinality(TablesMade') = Cardinality(TablesMade) + 1 /\ Cardinality(TablesMade) \in Nat
    BY <2>4, <2>5, <2>7, FS_AddElement, FS_CardinalityType
  <2>9. PICK n \in ModuleSizes : placement <= PlacementBase(n) + PageSize * Cardinality(TablesMade)
    BY <2>3 DEF PlacementFits
  <2>10. placement' <= PlacementBase(n) + PageSize * Cardinality(TablesMade')
    BY <2>1, <2>8, <2>9, PlacementGrows
  <2>11. TablesMade' \subseteq LowTables
    BY <2>3, <2>4, <2>6 DEF PlacementFits
  <2>12. PlacementFits'
    BY <2>10, <2>11 DEF PlacementFits
  <2>13. Unpaged(s)
    BY <1>2, <2>1 DEF Doing, ItemsFit
  <2> QED BY <2>12, <2>13
<1>23. TodoFits'
  <2>1. /\ Bare(s, Items, TaskProgram) /\ WandFits(s, wand) /\ IdentityFits(s, frames) /\ DevicesFit(s)
        /\ todo = s \o rest /\ rest \in Later
    BY <1>2 DEF Doing, ItemsFit
  <2>2. Items' = Items /\ TaskProgram' = TaskProgram /\ Later' = Later
    BY <1>4 DEF Items, TaskProgram, Later
  <2>3. ItemsFit(s)'
    BY <1>4, <1>21, <1>22, <2>1, <2>2 DEF ItemsFit
  <2>4. Doing(s, rest)'
    BY <1>4, <2>1, <2>2, <2>3 DEF Doing
  <2> QED BY <2>4 DEF TodoFits
<1>24. halted' = "no"
  BY <1>1, <1>4 DEF Step
<1> QED BY <1>13, <1>14, <1>15, <1>16, <1>18, <1>20, <1>23, <1>24 DEF Working

\* What Clone does to the directories.
GetsClone(a) ==
  directories' = With(directories, a,
                      [Empty(Physical(a)) EXCEPT !.tables = directories[kernel].tables,
                                                 !.physicals = directories[kernel].physicals])

\* A clone has the tables of the kernel.
LEMMA CloneIsThere ==
  ASSUME SpacesFit, NEW a, a \notin DOMAIN directories, Physical(a) \in Nat, GetsClone(a)
  PROVE  /\ DOMAIN directories' = DOMAIN directories \cup {a}
         /\ directories' \in [DOMAIN directories' -> Directory(DOMAIN pages)]
         /\ \A d \in DOMAIN directories : directories'[d] = directories[d]
         /\ directories'[a].tables = directories[kernel].tables
<1> DEFINE g == directories[kernel].tables
           h == directories[kernel].physicals
           e == Empty(Physical(a))
           mid == [e EXCEPT !.tables = g]
           new == [mid EXCEPT !.physicals = h]
           T == {0} \cup DOMAIN pages
           D == [tables : [AllTables -> T], physicals : [AllTables -> Nat], physicalAddr : Nat]
<1>1. directories' = With(directories, a, new)
  BY DEF GetsClone
<1>2. /\ kernel \in DOMAIN directories /\ Directory(DOMAIN pages) = D
      /\ \A d \in DOMAIN directories : directories[d] \in D
  BY DEF SpacesFit, Directory
<1>3. g \in [AllTables -> T] /\ h \in [AllTables -> Nat]
  <2>1. directories[kernel] \in D
    BY <1>2
  <2> QED BY <2>1
<1>4. Physical(a) + PageSize \in Nat
  BY MemoryAssumption
<1>5. new = [tables |-> g, physicals |-> h, physicalAddr |-> Physical(a) + PageSize]
  <2> DEFINE z == [t \in 0 .. Tables - 1 |-> 0]
             q == Physical(a) + PageSize
  <2>1. e = [tables |-> z, physicals |-> z, physicalAddr |-> q]
    BY DEF Empty
  <2> HIDE DEF z, q, e, g, h
  <2>2. mid = [tables |-> g, physicals |-> z, physicalAddr |-> q]
    BY <2>1
  <2> HIDE DEF mid
  <2>3. new = [tables |-> g, physicals |-> h, physicalAddr |-> q]
    BY <2>2
  <2> QED BY <2>3 DEF q
<1>6. new \in D /\ new.tables = g
  <2> HIDE DEF new, g, h
  <2> QED BY <1>3, <1>4, <1>5
<1> HIDE DEF new, g, h, D
<1>7. /\ DOMAIN directories' = DOMAIN directories \cup {a}
      /\ \A d \in DOMAIN directories : directories'[d] = directories[d]
      /\ directories'[a] = new
      /\ directories' = [d \in DOMAIN directories' |-> directories'[d]]
  BY <1>1 DEF With
<1>8. directories' \in [DOMAIN directories' -> D]
  <2>1. \A d \in DOMAIN directories' : directories'[d] \in D
    BY <1>2, <1>6, <1>7
  <2> QED BY <1>7, <2>1
<1> QED BY <1>2, <1>6, <1>7, <1>8 DEF g

\* What is left after the clone of a program.
CloneGoesOn(program, u, r) ==
  /\ Head(todo).program = program /\ r \in Rests /\ Tail(todo) = u \o r
  /\ Bare(u, TaskItem, program) /\ WandFits(u, NoWand)
  /\ \/ program = Initial /\ u = <<>>
     \/ program \in AllPrograms /\ u = AfterClone(program)

\* What is cloned is the kernel's, for the task that is made next.
LEMMA CloneIs ==
  ASSUME Working, Step("clone")
  PROVE  /\ placement = 0 /\ wand = NoWand
         /\ \E program \in TaskPrograms : \E u, r : CloneGoesOn(program, u, r)
<1>1. todo # <<>> /\ Head(todo).do = "clone"
  BY DEF Step
<1>2. PICK s, rest : Doing(s, rest)
  BY DEF Working, TodoFits
<1>3. s = <<>>
  <2>1. ASSUME s # <<>> PROVE FALSE
    <3>1. s[1] \in Items /\ Head(todo) = s[1]
      BY <1>2, <2>1, DoingIs
    <3>2. s[1] \in KernelItem \/ s[1] \in TaskItem \/ s[1] \in DeviceItem
      BY <3>1 DEF Items
    <3> QED BY <1>1, <3>1, <3>2 DEF KernelItem, TaskItem, DeviceItem
  <2> QED BY <2>1
<1>4. todo = rest
  BY <1>2, <1>3, DoingIs
<1>5. placement = 0
  BY <1>2, <1>3, PlacementIs
<1>6. wand = NoWand
  <2>1. WandFits(<<>>, wand)
    BY <1>2, <1>3 DEF Doing, ItemsFit
  <2>2. Len(<<>>) = 0
    OBVIOUS
  <2>3. PICK k, m \in 0 .. 0 : wand # NoWand <=> k = 0 /\ m > 0
    BY <2>1, <2>2 DEF WandFits
  <2> QED BY <2>3
<1>7. \A x, t : t \in Seq(TodoItem) => Head(<<x>> \o t) = x /\ Tail(<<x>> \o t) = t
  <2>1. ASSUME NEW x, NEW t \in Seq(TodoItem) PROVE Head(<<x>> \o t) = x /\ Tail(<<x>> \o t) = t
    <3> DEFINE S == TodoItem \cup {x}
    <3>1. <<x>> \in Seq(S) /\ t \in Seq(S)
      OBVIOUS
    <3>2. Head(<<x>> \o t) = x
      OBVIOUS
    <3>3. Tail(<<x>> \o t) = t
      OBVIOUS
    <3> QED BY <3>2, <3>3
  <2> QED BY <2>1
<1>8. CASE tasks = <<>>
  <2>1. /\ rest = <<[do |-> "clone", program |-> Initial]>> \o Rest(1)
        /\ Rest(1) \in Seq(TodoItem) /\ Rest(1) \in Rests
    BY <1>2, <1>8, DoingIs
  <2>2. Head(todo) = [do |-> "clone", program |-> Initial] /\ Tail(todo) = Rest(1)
    BY Zenon, <1>4, <1>7, <2>1
  <2>3. Tail(todo) = <<>> \o Rest(1)
    BY <2>1, <2>2
  <2>4. Bare(<<>>, TaskItem, Initial) /\ WandFits(<<>>, NoWand)
    <3>1. Bare(<<>>, TaskItem, Initial)
      BY NothingIsBare
    <3>2. WandFits(<<>>, NoWand)
      <4>1. Len(<<>>) = 0 /\ DOMAIN <<>> = {} /\ 0 \in 0 .. 0
        OBVIOUS
      <4>2. Copies(<<>>, 0, 0)
        BY <4>1 DEF Copies
      <4> QED BY <4>1, <4>2 DEF WandFits
    <3> QED BY <3>1, <3>2
  <2>5. Initial \in TaskPrograms
    BY DEF TaskPrograms
  <2>6. Head(todo).program = Initial
    BY <2>2
  <2>7. CloneGoesOn(Initial, <<>>, Rest(1))
    BY <2>1, <2>3, <2>4, <2>6 DEF CloneGoesOn
  <2> QED BY <1>5, <1>6, <2>5, <2>7
<1>9. CASE tasks # <<>>
  <2>1. CanBeLater(rest)
    BY <1>2, <1>9, DoingIs
  <2>2. rest # <<>> /\ rest # <<Do("switch")>>
    BY <1>1, <1>4 DEF Do
  <2>3. PICK program \in AllPrograms, r \in Rests :
          /\ rest = <<[do |-> "clone", program |-> program]>> \o (AfterClone(program) \o r)
          /\ AfterClone(program) \o r \in Seq(TodoItem)
    BY <2>1, <2>2 DEF CanBeLater
  <2>4. Head(todo) = [do |-> "clone", program |-> program] /\ Tail(todo) = AfterClone(program) \o r
    BY Zenon, <1>4, <1>7, <2>3
  <2>5. Bare(AfterClone(program), TaskItem, program) /\ WandFits(AfterClone(program), NoWand)
    BY AfterCloneFits
  <2>6. program \in TaskPrograms
    BY DEF TaskPrograms
  <2>7. Head(todo).program = program
    BY <2>4
  <2>8. CloneGoesOn(program, AfterClone(program), r)
    BY <2>4, <2>5, <2>7 DEF CloneGoesOn
  <2> QED BY <1>5, <1>6, <2>6, <2>8
<1> QED BY <1>8, <1>9

\* What is appended is last.
LEMMA LastOfAppend ==
  ASSUME NEW S, NEW s \in Seq(S), NEW x \in S
  PROVE  /\ Append(s, x) \in Seq(S) /\ Append(s, x) # <<>> /\ Last(Append(s, x)) = x
         /\ DOMAIN Append(s, x) = DOMAIN s \cup {Len(s) + 1}
         /\ \A i \in DOMAIN s : Append(s, x)[i] = s[i]
         /\ Append(s, x)[Len(s) + 1] = x
<1>1. /\ Append(s, x) \in Seq(S) /\ Len(Append(s, x)) = Len(s) + 1 /\ Len(s) \in Nat
      /\ Append(s, x)[Len(s) + 1] = x
      /\ \A i \in 1 .. Len(s) : Append(s, x)[i] = s[i]
  OBVIOUS
<1>2. Append(s, x) # <<>>
  BY <1>1
<1>3. Last(Append(s, x)) = x
  BY <1>1 DEF Last
<1>4. DOMAIN Append(s, x) = 1 .. Len(s) + 1 /\ DOMAIN s = 1 .. Len(s)
  BY <1>1
<1>5. DOMAIN Append(s, x) = DOMAIN s \cup {Len(s) + 1}
  BY <1>1, <1>4
<1> QED BY <1>1, <1>2, <1>3, <1>4, <1>5

\* A task is made, with the kernel's tables, and is told what is to be done for it.
LEMMA CloneKeeps ==
  ASSUME Working, FramesApart, Clone
  PROVE  Working' /\ FramesApart' /\ halted' = "no"
<1>0. DirectorySize \in Nat \ {0}
  BY MemoryAssumption DEF DirectorySize
<1>1. /\ Step("clone") /\ Done
      /\ UNCHANGED <<frames, pages, kernel, active, others, memory, cores, wand, halted>>
  BY DEF Clone
<1>2. PICK a \in Addresses(DirectorySize) :
        /\ AllocAligned(DirectorySize, a) /\ GetsClone(a)
        /\ tasks' = Append(tasks, [directory |-> a, program |-> Head(todo).program])
        /\ target' = a
  BY DEF Clone, GetsClone
<1>3. placement = 0 /\ wand = NoWand
  BY <1>1, CloneIs
<1>4. PICK program, u, r : program \in TaskPrograms /\ CloneGoesOn(program, u, r)
  BY <1>1, CloneIs
<1>5. /\ Head(todo).program = program /\ r \in Rests /\ Tail(todo) = u \o r
      /\ Bare(u, TaskItem, program) /\ WandFits(u, NoWand)
  BY <1>4 DEF CloneGoesOn
<1>6. a \in Nat \ {0} /\ a \notin DOMAIN directories
  BY <1>0, <1>2, AddressesAreNew DEF Working
<1>7. Physical(a) \in Nat
  BY <1>0, <1>2, PhysicalIs DEF Working
<1>8. /\ DOMAIN directories' = DOMAIN directories \cup {a}
      /\ directories' \in [DOMAIN directories' -> Directory(DOMAIN pages)]
      /\ \A d \in DOMAIN directories : directories'[d] = directories[d]
      /\ directories'[a].tables = directories[kernel].tables
  BY <1>2, <1>6, <1>7, CloneIsThere DEF Working
<1>9. kernel \in DOMAIN directories
  BY DEF Working, SpacesFit
<1> DEFINE Task == [directory : Nat, program : TaskPrograms]
           x == [directory |-> a, program |-> program]
<1>10. tasks \in Seq(Task) /\ x \in Task /\ tasks' = Append(tasks, x)
       /\ x.directory = a /\ x.program = program
  BY <1>2, <1>4, <1>5, <1>6 DEF Working, TasksFit
<1> HIDE DEF Task, x
<1>11. /\ tasks' \in Seq(Task) /\ tasks' # <<>> /\ Last(tasks') = x
       /\ DOMAIN tasks' = DOMAIN tasks \cup {Len(tasks) + 1}
       /\ \A i \in DOMAIN tasks : tasks'[i] = tasks[i]
       /\ tasks'[Len(tasks) + 1] = x
  BY <1>10, LastOfAppend
<1>12. AllocationFits'
  <2>1. DOMAIN pages' \cup DOMAIN directories' \subseteq (DOMAIN pages \cup DOMAIN directories) \cup {a}
    BY <1>1, <1>8
  <2> QED BY <1>0, <1>1, <1>2, <2>1, AllocationGoesOn DEF Working
<1>13. SpacesFit'
  BY <1>1, <1>8, <1>9 DEF Working, SpacesFit
<1>14. TablesApart'
  <2> DEFINE As(d) == IF d = a THEN kernel ELSE d
  <2>1. \A d \in DOMAIN directories' : /\ As(d) \in DOMAIN directories
                                       /\ directories'[d].tables = directories[As(d)].tables
    BY <1>8, <1>9
  <2> HIDE DEF As
  <2> QED BY <2>1 DEF Working, TablesApart
<1>15. KernelStaysOut'
  <2>1. directories'[kernel'] = directories[kernel]
    BY <1>1, <1>8, <1>9
  <2> QED BY <2>1 DEF Working, KernelStaysOut
<1>16. placement' = 0
  BY <1>2, <1>3 DEF AllocAligned
<1>17. TasksFit'
  <2>1. tasks' \in Seq([directory : Nat, program : TaskPrograms])
    BY <1>11 DEF Task
  <2>2. \A i \in DOMAIN tasks' : tasks'[i].directory \in DOMAIN directories' \ {kernel'}
    <3>1. \A i \in DOMAIN tasks : tasks[i].directory \in DOMAIN directories \ {kernel}
      BY DEF Working, TasksFit
    <3> QED BY <1>1, <1>6, <1>8, <1>9, <1>10, <1>11, <3>1
  <2>3. target' = Last(tasks').directory
    BY <1>2, <1>10, <1>11
  <2>4. active' \in DOMAIN directories'
    BY <1>1, <1>3, <1>8 DEF Working, TasksFit
  <2> QED BY <1>11, <1>16, <2>1, <2>2, <2>3, <2>4 DEF TasksFit
<1>18. FramesApart'
  <2>1. Borrowed' = Borrowed
    BY <1>1, <1>3 DEF Borrowed
  <2> QED BY <1>1, <2>1 DEF FramesApart
<1>19. TodoFits'
  <2>1. Items' = TaskItem \cup DeviceItem /\ TaskProgram' = program /\ Later' = Rests
    BY <1>10, <1>11 DEF Items, TaskProgram, Later
  <2>2. /\ u \in Seq(TaskItem) /\ \A i \in DOMAIN u : CopyFits(u[i], program) /\ u[i] \in TaskItem
        /\ u \in Seq(TaskItem \cup DeviceItem) /\ ItemsApart(u, program)
    <3>1. u \in Seq(TaskItem) /\ (\A i \in DOMAIN u : CopyFits(u[i], program)) /\ ItemsApart(u, program)
      BY <1>5 DEF Bare
    <3> DEFINE S == TaskItem
               U == TaskItem \cup DeviceItem
    <3>2. S \subseteq U /\ u \in Seq(S)
      BY <3>1
    <3> HIDE DEF S, U
    <3>3. u \in Seq(U) /\ \A i \in DOMAIN u : u[i] \in S
      BY <3>2
    <3> QED BY <3>1, <3>3 DEF S, U
  <2>3. Bare(u, Items', program)
    BY <2>1, <2>2 DEF Bare
  <2>4. ItemsUnmapped(u, program, pages', directories'[target'].tables)
    <3>1. ASSUME NEW i \in DOMAIN u, NEW p \in EveryPage, Touches(u[i], program, p)
          PROVE  Frame(pages', directories'[target'].tables[p \div Entries], p) \in {NoFrame, 0}
      <4>1. u[i] \in TaskItem \cup DeviceItem /\ CopyFits(u[i], program)
        BY <2>2
      <4>2. p \in TaskPages
        BY <1>4, <3>1, <4>1, TaskTouches
      <4>3. directories[kernel].tables[p \div Entries] = 0
        BY <4>2 DEF Working, KernelStaysOut
      <4> QED BY <1>2, <1>8, <4>3 DEF Frame
    <3> QED BY <3>1 DEF ItemsUnmapped
  <2>5. WandFits(u, wand')
    BY <1>1, <1>3, <1>5
  <2>6. IdentityFits(u, frames') /\ DevicesFit(u)
    <3>1. \A i \in DOMAIN u : u[i].do # "identity_map" /\ u[i].do # "device"
      <4>1. \A y \in TaskItem : y.do # "identity_map" /\ y.do # "device"
        BY DEF TaskItem
      <4> QED BY <2>2, <4>1
    <3> QED BY <3>1 DEF IdentityFits, DevicesFit
  <2>7. ItemsFit(u)'
    BY <1>16, <2>1, <2>3, <2>4, <2>5, <2>6 DEF ItemsFit
  <2>8. Doing(u, r)'
    BY <1>1, <1>5, <2>1, <2>7 DEF Doing, Done
  <2> QED BY <2>8 DEF TodoFits
<1>20. halted' = "no"
  BY <1>1 DEF Step
<1> QED BY <1>12, <1>13, <1>14, <1>15, <1>17, <1>18, <1>19, <1>20 DEF Working

-----------------------------------------------------------------------------
(* Between the tasks.                                                      *)

\* When nothing is at hand the heap is used, and there is no wand.
LEMMA NothingAtHand ==
  ASSUME Working, NEW rest, Doing(<<>>, rest)
  PROVE  placement = 0 /\ wand = NoWand /\ todo = rest /\ active \in DOMAIN directories
<1>1. placement = 0
  BY PlacementIs
<1>2. wand = NoWand
  <2>1. WandFits(<<>>, wand)
    BY DEF Doing, ItemsFit
  <2>2. Len(<<>>) = 0
    OBVIOUS
  <2>3. PICK k, m \in 0 .. 0 : wand # NoWand <=> k = 0 /\ m > 0
    BY <2>1, <2>2 DEF WandFits
  <2> QED BY <2>3
<1>3. todo = rest
  BY DoingIs
<1> QED BY <1>1, <1>2, <1>3 DEF Working, TasksFit

\* Nothing fits, then.
LEMMA NothingFits ==
  ASSUME wand' = NoWand, placement' = 0
  PROVE  ItemsFit(<<>>)'
<1>1. Len(<<>>) = 0 /\ DOMAIN <<>> = {} /\ 0 \in 0 .. 0
  OBVIOUS
<1>2. Copies(<<>>, 0, 0)
  BY <1>1 DEF Copies
<1>3. WandFits(<<>>, NoWand)
  BY <1>1, <1>2 DEF WandFits
<1>4. Bare(<<>>, Items', TaskProgram')
  BY NothingIsBare
<1>5. ItemsUnmapped(<<>>, TaskProgram', pages', directories'[target'].tables)
  BY <1>1 DEF ItemsUnmapped
<1>6. IdentityFits(<<>>, frames') /\ DevicesFit(<<>>)
  BY <1>1 DEF IdentityFits, DevicesFit
<1> QED BY <1>3, <1>4, <1>5, <1>6 DEF ItemsFit

\* The kernel has nothing to do.
LEMMA IdleIs ==
  ASSUME Working, todo = <<>>
  PROVE  tasks # <<>> /\ placement = 0 /\ wand = NoWand /\ active \in DOMAIN directories
<1>1. PICK s, rest : Doing(s, rest)
  BY DEF Working, TodoFits
<1>2. s = <<>>
  BY <1>1, DoingIs
<1>3. placement = 0 /\ wand = NoWand /\ rest = <<>> /\ active \in DOMAIN directories
  BY <1>1, <1>2, NothingAtHand
<1>4. tasks # <<>>
  <2>1. ASSUME tasks = <<>> PROVE FALSE
    <3>1. /\ rest = <<[do |-> "clone", program |-> Initial]>> \o Rest(1) /\ Rest(1) \in Seq(TodoItem)
      BY <1>1, <2>1, DoingIs
    <3>2. \A x, t : t \in Seq(TodoItem) => <<x>> \o t # <<>>
      OBVIOUS
    <3> QED BY Zenon, <1>3, <3>1, <3>2
  <2> QED BY <2>1
<1> QED BY <1>3, <1>4

\* The boot ends with the switch, when there are tasks.
LEMMA SwitchIs ==
  ASSUME Working, Step("switch")
  PROVE  tasks # <<>> /\ placement = 0 /\ wand = NoWand /\ Tail(todo) = <<>>
<1>1. todo # <<>> /\ Head(todo).do = "switch"
  BY DEF Step
<1>2. PICK s, rest : Doing(s, rest)
  BY DEF Working, TodoFits
<1>3. s = <<>>
  <2>1. ASSUME s # <<>> PROVE FALSE
    <3>1. s[1] \in Items /\ Head(todo) = s[1]
      BY <1>2, <2>1, DoingIs
    <3>2. s[1] \in KernelItem \/ s[1] \in TaskItem \/ s[1] \in DeviceItem
      BY <3>1 DEF Items
    <3> QED BY <1>1, <3>1, <3>2 DEF KernelItem, TaskItem, DeviceItem
  <2> QED BY <2>1
<1>4. placement = 0 /\ wand = NoWand /\ todo = rest
  BY <1>2, <1>3, NothingAtHand
<1>5. \A x, t : t \in Seq(TodoItem) => Head(<<x>> \o t) = x
  OBVIOUS
<1>6. tasks # <<>>
  <2>1. ASSUME tasks = <<>> PROVE FALSE
    <3>1. rest = <<[do |-> "clone", program |-> Initial]>> \o Rest(1) /\ Rest(1) \in Seq(TodoItem)
      BY <1>2, <2>1, DoingIs
    <3>2. Head(todo) = [do |-> "clone", program |-> Initial]
      BY Zenon, <1>4, <1>5, <3>1
    <3> QED BY <1>1, <3>2
  <2> QED BY <2>1
<1>7. rest = <<Do("switch")>>
  <2>1. CanBeLater(rest)
    BY <1>2, <1>6, DoingIs
  <2>2. ASSUME NEW program, NEW u,
               rest = <<[do |-> "clone", program |-> program]>> \o (AfterClone(program) \o u),
               AfterClone(program) \o u \in Seq(TodoItem)
        PROVE  FALSE
    <3>1. Head(rest) = [do |-> "clone", program |-> program]
      BY Zenon, <1>5, <2>2
    <3> QED BY <1>1, <1>4, <3>1
  <2> QED BY <1>1, <1>4, <2>1, <2>2 DEF CanBeLater
<1> QED BY <1>4, <1>6, <1>7

\* The kernel changes to the directory of a task, or is told to do something.
LEMMA BetweenKeeps ==
  ASSUME Working, FramesApart, tasks # <<>>, placement = 0, wand = NoWand, halted = "no",
         active' = active \/ \E i \in DOMAIN tasks : active' = tasks[i].directory,
         todo' \in Rests,
         UNCHANGED <<placement, heap, others, frames, directories, pages, kernel, tasks, target, wand,
                     halted>>
  PROVE  Working' /\ FramesApart' /\ halted' = "no"
<1>1. AllocationFits'
  BY AllocationStays DEF Working
<1>2. SpacesFit' /\ TablesApart' /\ KernelStaysOut'
  BY SpacesStay DEF Working
<1>3. TasksFit'
  BY DEF Working, TasksFit
<1>4. FramesApart'
  BY DEF FramesApart, Borrowed
<1>5. TodoFits'
  <2>1. ItemsFit(<<>>)'
    BY NothingFits
  <2>2. Later' = Rests
    BY DEF Later
  <2>3. PICK r \in Rests : todo' = r
    OBVIOUS
  <2>4. todo' = <<>> \o r
    <3>1. r \in Seq(TodoItem)
      BY RestsAre
    <3> QED BY <2>3, <3>1
  <2>5. Doing(<<>>, r)'
    BY <2>1, <2>2, <2>4 DEF Doing
  <2> QED BY <2>5 DEF TodoFits
<1> QED BY <1>1, <1>2, <1>3, <1>4, <1>5 DEF Working

\* The switch at the end of the boot.
LEMMA SwitchToInitialKeeps ==
  ASSUME Working, FramesApart, SwitchToInitial
  PROVE  Working' /\ FramesApart' /\ halted' = "no"
<1>1. /\ Step("switch") /\ Done /\ active' = tasks[1].directory
      /\ UNCHANGED <<placement, heap, others, frames, directories, pages, kernel, tasks, target, wand,
                     halted>>
  BY DEF SwitchToInitial, allocation, making
<1>2. tasks # <<>> /\ placement = 0 /\ wand = NoWand /\ Tail(todo) = <<>>
  BY <1>1, SwitchIs
<1>3. 1 \in DOMAIN tasks
  <2> DEFINE Task == [directory : Nat, program : TaskPrograms]
  <2>1. tasks \in Seq(Task)
    BY DEF Working, TasksFit
  <2> HIDE DEF Task
  <2> QED BY <1>2, <2>1
<1>4. todo' \in Rests
  BY <1>1, <1>2 DEF Done, Rests
<1>5. \E i \in DOMAIN tasks : active' = tasks[i].directory
  BY <1>1, <1>3
<1>6. halted = "no"
  BY <1>1 DEF Step
<1> QED BY <1>1, <1>2, <1>4, <1>5, <1>6, BetweenKeeps

\* A switch to another task.
LEMMA SwitchToKeeps ==
  ASSUME Working, FramesApart, NEW i \in DOMAIN tasks, SwitchTo(i)
  PROVE  Working' /\ FramesApart' /\ halted' = "no"
<1>1. /\ todo = <<>> /\ halted = "no" /\ active' = tasks[i].directory
      /\ UNCHANGED <<placement, heap, others, frames, directories, pages, kernel, tasks, target, wand,
                     todo, halted>>
  BY DEF SwitchTo, IsIdle, allocation, making
<1>2. tasks # <<>> /\ placement = 0 /\ wand = NoWand
  BY <1>1, IdleIs
<1>3. todo' \in Rests
  BY <1>1 DEF Rests
<1> QED BY <1>1, <1>2, <1>3, BetweenKeeps

\* spawn begins with the clone.
LEMMA SpawnKeeps ==
  ASSUME Working, FramesApart, NEW program \in Programs, Spawn(program)
  PROVE  Working' /\ FramesApart' /\ halted' = "no"
<1>1. /\ todo = <<>> /\ halted = "no" /\ todo' = MakeTask(program) /\ active' = active
      /\ UNCHANGED <<placement, heap, others, frames, directories, pages, kernel, tasks, target, wand,
                     halted>>
  BY DEF Spawn, IsIdle, allocation, spaces, making
<1>2. tasks # <<>> /\ placement = 0 /\ wand = NoWand
  BY <1>1, IdleIs
<1>3. todo' \in Rests
  BY <1>1 DEF Rests
<1> QED BY <1>1, <1>2, <1>3, BetweenKeeps

\* Device memory gives its pages no frame of the RAM.
LEMMA MapPhysicalMemKeeps ==
  ASSUME Working, FramesApart, NEW s \in DevicePages, MapPhysicalMem(s)
  PROVE  Working' /\ FramesApart' /\ halted' = "no"
<1> DEFINE items == [j \in DOMAIN s |-> [do |-> "device", page |-> s[j], frame |-> DeviceFrame + j]]
<1>1. /\ todo = <<>> /\ halted = "no" /\ todo' = items /\ target' = Last(tasks).directory
      /\ UNCHANGED <<placement, heap, others, frames, directories, pages, kernel, active, tasks, wand,
                     halted>>
  BY DEF MapPhysicalMem, IsIdle, allocation, spaces
<1>2. tasks # <<>> /\ placement = 0 /\ wand = NoWand
  BY <1>1, IdleIs
<1>3. target' = target
  BY <1>1, <1>2 DEF Working, TasksFit
<1>4. items \in Seq(DeviceItem)
  <2>1. s \in Seq(Nat) /\ ToSet(s) \subseteq EveryPage
    BY LayoutAssumption, EveryPageIs
  <2>2. \A j \in DOMAIN s : s[j] \in Devices
    BY <2>1 DEF ToSet, Devices
  <2>3. /\ DeviceFrame \in Nat /\ FrameCount \in Nat /\ DeviceFrame >= FrameCount
        /\ DOMAIN s = 1 .. Len(s) /\ Len(s) \in Nat
    BY <2>1, MemoryAssumption
  <2>4. \A j \in 1 .. Len(s) : DeviceFrame + j \in Nat \ (0 .. FrameCount - 1)
    BY <2>3
  <2>5. \A j \in 1 .. Len(s) : items[j] \in DeviceItem
    BY <2>2, <2>3, <2>4 DEF DeviceItem
  <2>6. items = [j \in 1 .. Len(s) |-> items[j]]
    BY <2>3
  <2> HIDE DEF items
  <2> QED BY <2>3, <2>5, <2>6, IsSequence
<1> HIDE DEF items
<1>5. \A j \in DOMAIN items : items[j].do = "device"
  BY DEF items
<1>6. AllocationFits'
  BY <1>1, AllocationStays DEF Working
<1>7. SpacesFit' /\ TablesApart' /\ KernelStaysOut'
  BY <1>1, SpacesStay DEF Working
<1>8. TasksFit'
  BY <1>1, <1>3, TasksStay DEF Working
<1>9. FramesApart'
  BY <1>1, FramesStay
<1>10. TodoFits'
  <2>1. Items' = TaskItem \cup DeviceItem /\ Later' = Rests
    BY <1>1, <1>2 DEF Items, Later
  <2>2. items \in Seq(TaskItem \cup DeviceItem)
    <3> DEFINE S == DeviceItem
               U == TaskItem \cup DeviceItem
    <3>1. S \subseteq U /\ items \in Seq(S)
      BY <1>4
    <3> HIDE DEF S, U
    <3>2. items \in Seq(U)
      BY <3>1
    <3> QED BY <3>2 DEF U
  <2>3. Bare(items, Items', TaskProgram')
    BY <1>5, <2>1, <2>2 DEF Bare, CopyFits, ItemsApart, Touches
  <2>4. ItemsUnmapped(items, TaskProgram', pages', directories'[target'].tables)
    BY <1>5 DEF ItemsUnmapped, Touches
  <2>5. WandFits(items, NoWand)
    <3>1. 0 \in 0 .. Len(items) /\ \A j \in DOMAIN items : j > 0 /\ j # 0
      <4>1. Len(items) \in Nat /\ DOMAIN items = 1 .. Len(items)
        BY <1>4
      <4> QED BY <4>1
    <3>2. Copies(items, 0, 0)
      BY <1>5, <3>1 DEF Copies
    <3> QED BY <3>1, <3>2 DEF WandFits
  <2>6. IdentityFits(items, frames') /\ DevicesFit(items)
    BY <1>5 DEF IdentityFits, DevicesFit
  <2>7. ItemsFit(items)'
    BY <1>1, <1>2, <2>3, <2>4, <2>5, <2>6 DEF ItemsFit
  <2>8. <<>> \in Rests /\ todo' = items \o <<>>
    <3>1. items \o <<>> = items
      BY <1>4
    <3> QED BY <1>1, <3>1 DEF Rests
  <2>9. Doing(items, <<>>)'
    BY <2>1, <2>7, <2>8 DEF Doing
  <2> QED BY <2>9 DEF TodoFits
<1>11. halted' = "no"
  BY <1>1
<1> QED BY <1>6, <1>7, <1>8, <1>9, <1>10, <1>11 DEF Working

\* The heap gives pages to others, or a core, or takes them back.
LEMMA HeapChangesKeep ==
  ASSUME Working, FramesApart, todo = <<>>, halted = "no", others' \subseteq heap',
         heap \ others \subseteq heap' \ others',
         UNCHANGED <<placement, frames, directories, pages, kernel, active, tasks, target, wand, todo,
                     halted>>
  PROVE  Working' /\ FramesApart' /\ halted' = "no"
<1>1. placement = 0 /\ wand = NoWand
  BY IdleIs
<1>2. AllocationFits'
  <2>1. ASSUME NEW b, Taken(b, placement, Kept) PROVE Taken(b, placement', Kept')
    BY <1>1, <2>1 DEF Taken, Kept
  <2> QED BY <1>1, <2>1 DEF Working, AllocationFits
<1>3. SpacesFit' /\ TablesApart' /\ KernelStaysOut'
  BY SpacesStay DEF Working
<1>4. TasksFit'
  BY TasksStay DEF Working
<1>5. FramesApart'
  BY FramesStay
<1>6. TodoFits'
  <2>1. PICK s, rest : Doing(s, rest)
    BY DEF Working, TodoFits
  <2>2. /\ Items' = Items /\ TaskProgram' = TaskProgram /\ Later' = Later
        /\ PlacementFits <=> PlacementFits'
    BY DEF Items, TaskProgram, Later, PlacementFits, TablesMade
  <2>3. ItemsFit(s)'
    BY <2>1, <2>2 DEF Doing, ItemsFit
  <2>4. Doing(s, rest)'
    BY <2>1, <2>2, <2>3 DEF Doing
  <2> QED BY <2>4 DEF TodoFits
<1> QED BY <1>2, <1>3, <1>4, <1>5, <1>6 DEF Working

\* The rest of the kernel allocates.
LEMMA TakeOtherKeeps ==
  ASSUME Working, FramesApart, TakeOther
  PROVE  Working' /\ FramesApart' /\ halted' = "no"
<1>1. PICK p \in SmallestHoles(1) : heap' = heap \cup {p} /\ others' = others \cup {p}
  BY DEF TakeOther
<1>2. p \notin heap
  BY DEF SmallestHoles, Holes
<1>3. /\ todo = <<>> /\ halted = "no"
      /\ UNCHANGED <<placement, frames, directories, pages, kernel, active, tasks, target, wand, todo,
                     halted>>
  BY DEF TakeOther, IsIdle, spaces, making
<1>4. others' \subseteq heap' /\ heap \ others \subseteq heap' \ others'
  BY <1>1, <1>2 DEF Working, AllocationFits
<1> QED BY <1>3, <1>4, HeapChangesKeep

\* The rest of the kernel frees.
LEMMA FreeOtherKeeps ==
  ASSUME Working, FramesApart, NEW p \in others, FreeOther(p)
  PROVE  Working' /\ FramesApart' /\ halted' = "no"
<1>1. /\ todo = <<>> /\ halted = "no" /\ heap' = heap \ {p} /\ others' = others \ {p}
      /\ UNCHANGED <<placement, frames, directories, pages, kernel, active, tasks, target, wand, todo,
                     halted>>
  BY DEF FreeOther, IsIdle, spaces, making
<1>2. others' \subseteq heap' /\ heap \ others \subseteq heap' \ others'
  BY <1>1 DEF Working, AllocationFits
<1> QED BY <1>1, <1>2, HeapChangesKeep

\* What a panic leaves behind.
Stopped ==
  halted' \in {"no_hole", "no_frames_free"} /\ UNCHANGED <<pages, frames, wand, directories, active>>

\* A core is dumped, or there is no hole for it.
LEMMA DumpCoreKeeps ==
  ASSUME Working, FramesApart, NEW i \in DOMAIN tasks, DumpCore(i)
  PROVE  Stopped \/ (Working' /\ FramesApart' /\ halted' = "no")
<1> DEFINE n == PagesFor(CoreSize(tasks[i].directory))
<1>1. todo = <<>> /\ halted = "no"
  BY DEF DumpCore, IsIdle
<1>2. CASE SmallestHoles(2 + 2 * n) = {}
  <2>1. Panic("no_hole")
    BY <1>2 DEF DumpCore
  <2> QED BY <2>1 DEF Panic, Stopped, spaces, making
<1>3. CASE SmallestHoles(2 + 2 * n) # {}
  <2>1. /\ UNCHANGED <<placement, frames, directories, pages, kernel, active, tasks, target, wand, todo,
                       halted, others>>
        /\ \E p \in SmallestHoles(2 + 2 * n) : heap' = heap \cup (p + 2 + n .. p + 1 + 2 * n)
    BY <1>3 DEF DumpCore, spaces
  <2>2. others' \subseteq heap' /\ heap \ others \subseteq heap' \ others'
    BY <2>1 DEF Working, AllocationFits
  <2> QED BY <1>1, <2>1, <2>2, HeapChangesKeep
<1> QED BY <1>2, <1>3

\* Where there is no hole the machine stops.
LEMMA OutOfHeapStops ==
  ASSUME OutOfHeap
  PROVE  Stopped
BY DEF OutOfHeap, Panic, Stopped, spaces, making

\* What the kernel is at may have a frame, so the machine stops for want of one.
LEMMA NoFrameForStops ==
  ASSUME Working, NoFrameFor
  PROVE  Stopped
<1>1. PICK what \in {"map", "copy"} : OnPage(what)
  BY DEF NoFrameFor
<1>2. Step(what) /\ TableOf(target, PageAtHand) # 0
  BY <1>1 DEF OnPage
<1>3. what \notin {"clone", "switch"}
  OBVIOUS
<1>4. PICK s, rest : Doing(s, rest) /\ s # <<>> /\ s[1].do = what /\ Head(todo) = s[1]
  BY <1>2, <1>3, StepIs
<1>5. SpacesFit /\ TasksFit
  BY DEF Working
<1>6. s[1].do \in {"map", "copy"}
      /\ s[1].do \in {"get_page", "identity_map", "map", "copy", "device"}
  BY <1>4
<1>7. PageAtHand \in EveryPage /\ Touches(s[1], TaskProgram, PageAtHand)
  BY <1>4, <1>5, <1>6, PageIs
<1>8. 1 \in DOMAIN s
  BY <1>4, DoingIs
<1>9. Frame(pages, directories[target].tables[PageAtHand \div Entries], PageAtHand) \in {NoFrame, 0}
  BY <1>4, <1>7, <1>8 DEF Doing, ItemsFit, ItemsUnmapped
<1>10. target \in DOMAIN directories
  BY <1>5, TargetIs
<1>11. IsUnmapped(target, PageAtHand)
  BY <1>5, <1>7, <1>9, <1>10, FrameIs DEF IsUnmapped
<1>12. Panic("no_frames_free")
  BY <1>11 DEF NoFrameFor
<1> QED BY <1>12 DEF Panic, Stopped, spaces, making

\* A machine that stops keeps its frames apart.
LEMMA StoppedKeeps ==
  ASSUME MemoryInv, Stopped
  PROVE  MemoryInv'
<1>1. /\ halted' \in {"no_hole", "no_frames_free"}
      /\ UNCHANGED <<pages, frames, wand, directories, active>>
  BY DEF Stopped
<1>2. IsFiniteSet(DOMAIN pages) /\ FramesApart
  BY DEF MemoryInv
<1>3. FramesApart'
  BY <1>1, <1>2, FramesStay
<1>4. IsFiniteSet(DOMAIN pages')
  BY <1>1, <1>2
<1> QED BY <1>1, <1>3, <1>4 DEF MemoryInv

-----------------------------------------------------------------------------
(* The boot, before there is a directory.                                  *)

\* The items of the boot that come before those of the kernel.
BootItem == TodoItem \cup [do : {"alloc"}, size : Nat] \cup [do : {"kernel_directory"}]

\* From AkariEntry on: two allocations, the kernel's directory, what follows it.
LEMMA BootIs ==
  ASSUME NEW n \in ModuleSizes
  PROVE  /\ Boot(n) # <<>> /\ Head(Boot(n)) = [do |-> "alloc", size |-> n]
         /\ Tail(Boot(n)) # <<>>
         /\ Head(Tail(Boot(n))) = [do |-> "alloc", size |-> BitmapSize]
         /\ Tail(Tail(Boot(n))) # <<>>
         /\ Head(Tail(Tail(Boot(n)))) = Do("kernel_directory")
         /\ Tail(Tail(Tail(Boot(n)))) = FirstSteps \o FirstRest
<1> DEFINE stack == [do |-> "stack", size |-> TaskKernelStack]
           clone == [do |-> "clone", program |-> Initial]
           K == KernelSteps
           R == Rest(1)
           x == [do |-> "alloc", size |-> n]
           y == [do |-> "alloc", size |-> BitmapSize]
           z == Do("kernel_directory")
<1>1. K \in Seq(TodoItem)
  <2>1. K \in Seq(KernelItem)
    BY FirstStepsFit
  <2>2. KernelItem \subseteq TodoItem
    BY DEF TodoItem
  <2> HIDE DEF K
  <2> QED BY <2>1, <2>2
<1>2. R \in Seq(TodoItem)
  <2>1. 1 \in 1 .. Len(BootPrograms) + 1
    BY LayoutAssumption
  <2> QED BY <2>1, RestIs
<1>3. stack \in TodoItem /\ clone \in TodoItem
  BY DEF TodoItem, KernelItem, TaskPrograms
<1>4. R = FlattenSeq([i \in DOMAIN BootPrograms |-> MakeTask(BootPrograms[i])]) \o <<Do("switch")>>
  <2> DEFINE m == Len(BootPrograms)
             b == [i \in 1 .. m + 1 - 1 |-> MakeTask(BootPrograms[1 + i - 1])]
  <2>1. m \in Nat /\ DOMAIN BootPrograms = 1 .. m /\ m + 1 - 1 = m
    BY LayoutAssumption
  <2>2. \A i \in 1 .. m : 1 + i - 1 = i
    BY <2>1
  <2> HIDE DEF m
  <2>3. b = [i \in DOMAIN BootPrograms |-> MakeTask(BootPrograms[i])]
    BY <2>1, <2>2
  <2>4. R = FlattenSeq(b) \o <<Do("switch")>>
    BY DEF Rest, m
  <2> QED BY <2>3, <2>4
<1>5. TaskSteps = <<stack, clone>> \o R
  BY <1>4 DEF TaskSteps, InitialTask, Initial
<1>6. FirstRest = <<clone>> \o R /\ FirstSteps = K \o <<stack>>
  BY DEF FirstRest, FirstSteps
<1>7. Boot(n) = <<x, y, z>> \o (K \o TaskSteps)
  BY DEF Boot
<1> HIDE DEF stack, clone, K, R
<1>8. <<stack>> \in Seq(TodoItem) /\ <<clone>> \in Seq(TodoItem)
      /\ <<stack, clone>> = <<stack>> \o <<clone>>
  <2>1. <<stack>> \in Seq(TodoItem) /\ <<clone>> \in Seq(TodoItem)
    BY <1>3
  <2>2. <<stack, clone>> = <<stack>> \o <<clone>>
    BY DEF stack, clone
  <2> QED BY <2>1, <2>2
<1>9. \A u, v \in Seq(TodoItem) : u \o v \in Seq(TodoItem)
  OBVIOUS
<1>10. <<stack, clone>> \o R = <<stack>> \o (<<clone>> \o R)
  BY <1>2, <1>8, ConcatAssociative
<1>11. <<clone>> \o R \in Seq(TodoItem)
  BY Zenon, <1>2, <1>8, <1>9
<1>12. K \o (<<stack>> \o (<<clone>> \o R)) = (K \o <<stack>>) \o (<<clone>> \o R)
  BY <1>1, <1>8, <1>11, ConcatAssociative, SMTT(30)
<1> DEFINE t == FirstSteps \o FirstRest
<1>13. Boot(n) = <<x, y, z>> \o t
  BY <1>5, <1>6, <1>7, <1>10, <1>12
<1>14. t \in Seq(TodoItem)
  <2>1. K \o <<stack>> \in Seq(TodoItem)
    BY Zenon, <1>1, <1>8, <1>9
  <2> QED BY Zenon, <1>6, <1>9, <1>11, <2>1
<1> HIDE DEF t
<1>15. x \in BootItem /\ y \in BootItem /\ z \in BootItem /\ t \in Seq(BootItem)
  <2>1. x \in BootItem /\ y \in BootItem /\ z \in BootItem
    BY MemoryAssumption DEF BootItem, Do
  <2>2. TodoItem \subseteq BootItem
    BY DEF BootItem
  <2> HIDE DEF x, y, z
  <2> QED BY <1>14, <2>1, <2>2
<1> HIDE DEF x, y, z
<1>16. Boot(n) = <<x>> \o (<<y>> \o (<<z>> \o t))
  <2>1. <<x, y, z>> = <<x>> \o (<<y>> \o <<z>>)
    BY DEF x, y, z, Do
  <2>2. <<x>> \in Seq(BootItem) /\ <<y>> \in Seq(BootItem) /\ <<z>> \in Seq(BootItem)
    BY <1>15
  <2>3. \A u, v \in Seq(BootItem) : u \o v \in Seq(BootItem)
    OBVIOUS
  <2>4. <<y>> \o <<z>> \in Seq(BootItem)
    BY Zenon, <2>2, <2>3
  <2>5. (<<x>> \o (<<y>> \o <<z>>)) \o t = <<x>> \o ((<<y>> \o <<z>>) \o t)
    BY <1>15, <2>2, <2>4, ConcatAssociative
  <2>6. (<<y>> \o <<z>>) \o t = <<y>> \o (<<z>> \o t)
    BY <1>15, <2>2, ConcatAssociative
  <2> QED BY Zenon, <1>13, <2>1, <2>5, <2>6
<1>17. \A a \in BootItem, u \in Seq(BootItem) :
         /\ <<a>> \o u \in Seq(BootItem) /\ <<a>> \o u # <<>>
         /\ Head(<<a>> \o u) = a /\ Tail(<<a>> \o u) = u
  OBVIOUS
<1> DEFINE v == <<z>> \o t
           w == <<y>> \o v
<1>18. v \in Seq(BootItem) /\ v # <<>> /\ Head(v) = z /\ Tail(v) = t
  BY Zenon, <1>15, <1>17
<1> HIDE DEF v
<1>19. w \in Seq(BootItem) /\ w # <<>> /\ Head(w) = y /\ Tail(w) = v
  BY Zenon, <1>15, <1>17, <1>18
<1> HIDE DEF w
<1>20. Boot(n) # <<>> /\ Head(Boot(n)) = x /\ Tail(Boot(n)) = w
  <2>1. Boot(n) = <<x>> \o w
    BY Zenon, <1>16 DEF w, v
  <2> QED BY Zenon, <1>15, <1>17, <1>19, <2>1
<1> QED BY <1>18, <1>19, <1>20 DEF x, y, z, t

\* Before there is a directory, placement and what is left tell how far it is.
EarlyAt(n) ==
  \/ placement = KernelEnd /\ todo = Boot(n)
  \/ placement = KernelEnd + n /\ todo = Tail(Boot(n))
  \/ placement = KernelEnd + n + BitmapSize /\ todo = Tail(Tail(Boot(n)))

\* The allocation at hand takes it on.
EarlyAllocates(n) ==
  \/ placement + Head(todo).size = KernelEnd + n /\ Tail(todo) = Tail(Boot(n))
  \/ /\ placement + Head(todo).size = KernelEnd + n + BitmapSize
     /\ Tail(todo) = Tail(Tail(Boot(n)))

\* What is at hand is an allocation or the directory.
LEMMA EarlyIs ==
  ASSUME NEW n \in ModuleSizes, EarlyAt(n)
  PROVE  /\ todo # <<>> /\ placement \in Nat \ {0}
         /\ Head(todo).do \in {"alloc", "kernel_directory"}
         /\ Head(todo).do = "alloc" => Head(todo).size \in Nat /\ EarlyAllocates(n)
         /\ Head(todo).do = "kernel_directory" =>
              /\ placement = KernelEnd + n + BitmapSize
              /\ Tail(todo) = FirstSteps \o FirstRest
<1>1. n \in Nat /\ KernelEnd \in Nat \ {0} /\ BitmapSize \in Nat
  BY MemoryAssumption
<1> DEFINE b == Boot(n)
           c == Tail(b)
           d == Tail(c)
<1>2. /\ b # <<>> /\ Head(b) = [do |-> "alloc", size |-> n]
      /\ c # <<>> /\ Head(c) = [do |-> "alloc", size |-> BitmapSize]
      /\ d # <<>> /\ Head(d) = Do("kernel_directory")
      /\ Tail(d) = FirstSteps \o FirstRest
  BY BootIs
<1>3. /\ Head(b).do = "alloc" /\ Head(b).size = n
      /\ Head(c).do = "alloc" /\ Head(c).size = BitmapSize
      /\ Head(d).do = "kernel_directory"
  <2> HIDE DEF b, c, d
  <2> QED BY <1>2 DEF Do
<1>4. \/ placement = KernelEnd /\ todo = b /\ Tail(todo) = c
      \/ placement = KernelEnd + n /\ todo = c /\ Tail(todo) = d
      \/ placement = KernelEnd + n + BitmapSize /\ todo = d /\ Tail(todo) = Tail(d)
  BY DEF EarlyAt
<1>5. EarlyAllocates(n) <=> \/ placement + Head(todo).size = KernelEnd + n /\ Tail(todo) = c
                            \/ /\ placement + Head(todo).size = KernelEnd + n + BitmapSize
                               /\ Tail(todo) = d
  BY DEF EarlyAllocates
<1> HIDE DEF b, c, d
<1>6. CASE placement = KernelEnd /\ todo = b /\ Tail(todo) = c
  BY <1>1, <1>2, <1>3, <1>5, <1>6
<1>7. CASE placement = KernelEnd + n /\ todo = c /\ Tail(todo) = d
  BY <1>1, <1>2, <1>3, <1>5, <1>7
<1>8. CASE placement = KernelEnd + n + BitmapSize /\ todo = d /\ Tail(todo) = Tail(d)
  BY <1>1, <1>2, <1>3, <1>5, <1>8, SMTT(30)
<1> QED BY <1>4, <1>6, <1>7, <1>8

\* An allocation goes from one to the next.
LEMMA AllocKeepsEarly ==
  ASSUME Early, Alloc
  PROVE  Early'
<1>1. PICK n \in ModuleSizes : EarlyAt(n)
  BY DEF Early, EarlyAt
<1>2. Head(todo).do = "alloc" /\ todo' = Tail(todo) /\ placement' = placement + Head(todo).size
  BY DEF Alloc, Step, Place, Done
<1>3. UNCHANGED <<directories, pages, heap, others, tasks, wand, frames, target>>
  BY DEF Alloc, Place, spaces, making
<1>4. \/ placement' = KernelEnd + n /\ todo' = Tail(Boot(n))
      \/ placement' = KernelEnd + n + BitmapSize /\ todo' = Tail(Tail(Boot(n)))
  <2>1. EarlyAllocates(n)
    BY <1>1, <1>2, EarlyIs
  <2> QED BY <1>2, <2>1 DEF EarlyAllocates
<1> QED BY <1>3, <1>4 DEF Early

\* Of what the kernel does first nothing is of a device.
LEMMA NoDevices ==
  ASSUME NEW s \in Seq(KernelItem)
  PROVE  DevicesFit(s)
<1>1. \A item \in KernelItem : item.do # "device"
  BY DEF KernelItem
<1>2. \A i \in DOMAIN s : s[i] \in KernelItem
  <2> DEFINE S == KernelItem
  <2>1. s \in Seq(S)
    OBVIOUS
  <2> HIDE DEF S
  <2>2. \A i \in DOMAIN s : s[i] \in S
    BY <2>1
  <2> QED BY <2>2 DEF S
<1> QED BY <1>1, <1>2 DEF DevicesFit

\* A directory without tables gives no page a frame.
LEMMA NoTablesNoFrames ==
  ASSUME NEW s, NEW program, NEW pgs, NEW tables, \A t \in AllTables : tables[t] = 0
  PROVE  ItemsUnmapped(s, program, pgs, tables)
<1>1. ASSUME NEW p \in EveryPage PROVE Frame(pgs, tables[p \div Entries], p) = NoFrame
  <2>1. p \div Entries \in AllTables
    BY EveryPageIs
  <2> QED BY <2>1 DEF Frame
<1> QED BY <1>1 DEF ItemsUnmapped

\* The kernel's directory is the first thing that is not merely placed.
LEMMA DirectoryStarts ==
  ASSUME Early, halted = "no", AllocateKernelDirectory
  PROVE  Working' /\ FramesApart' /\ halted' = "no"
<1>1. PICK n \in ModuleSizes : EarlyAt(n)
  BY DEF Early, EarlyAt
<1> DEFINE pl == KernelEnd + n + BitmapSize
           a == Aligned(pl)
<1>2. /\ Head(todo).do = "kernel_directory" /\ todo' = Tail(todo)
      /\ UNCHANGED <<frames, pages, active, others, tasks, wand, halted>>
  BY DEF AllocateKernelDirectory, Step, Done
<1>3. placement = pl /\ placement \in Nat \ {0} /\ todo' = FirstSteps \o FirstRest
  BY <1>1, <1>2, EarlyIs
<1>4. /\ directories = <<>> /\ pages = <<>> /\ heap = {} /\ others = {} /\ tasks = <<>>
      /\ wand = NoWand /\ frames = {}
  BY DEF Early
<1>5. Addresses(DirectorySize) = {a}
  BY <1>3 DEF Addresses
<1>6. /\ AllocAligned(DirectorySize, a)
      /\ directories' = With(directories, a, Empty(Physical(a)))
      /\ kernel' = a /\ target' = a
  BY <1>5 DEF AllocateKernelDirectory
<1>7. a \in Nat \ {0} /\ a >= pl
  BY <1>3, AlignedIs
<1> HIDE DEF pl, a
<1>8. /\ placement' = a + DirectorySize /\ heap' = {} /\ Physical(a) = a
  BY <1>3, <1>4, <1>6 DEF AllocAligned, Physical
<1>9. /\ PageSize \in Nat \ {0} /\ DirectorySize \in Nat \ {0} /\ NoFrame \in Nat
      /\ HeapEnd \in Nat
  BY MemoryAssumption DEF DirectorySize, NoFrame
<1>10. placement' \in Nat \ {0} /\ a < placement'
  BY <1>7, <1>8, <1>9
<1> DEFINE D == Empty(a)
<1>11. DOMAIN directories' = {a} /\ directories'[a] = D
  <2>1. DOMAIN directories = {}
    BY <1>4
  <2> HIDE DEF D
  <2>2. directories' = With(directories, a, D)
    BY <1>6, <1>8 DEF D
  <2> QED BY <2>1, <2>2 DEF With
<1>12. D \in Directory({}) /\ \A t \in AllTables : D.tables[t] = 0
  BY <1>7, <1>9 DEF Empty, Directory, AllTables
<1> HIDE DEF D
<1>13. pages' = <<>> /\ DOMAIN pages' = {}
  BY <1>2, <1>4
<1>14. AllocationFits'
  <2>1. NoWand \in [page : Nat, frame : Nat]
    BY <1>9 DEF NoWand
  <2>2. \A b \in DOMAIN pages' \cup DOMAIN directories' : b = a
    BY <1>11, <1>13
  <2>3. Taken(a, placement', Kept')
    BY <1>7, <1>10 DEF Taken
  <2> QED BY <1>2, <1>4, <1>8, <1>10, <2>1, <2>2, <2>3 DEF AllocationFits
<1>15. SpacesFit'
  <2>1. directories' \in [DOMAIN directories' -> Directory(DOMAIN pages')]
    <3>1. directories' = [d \in {a} |-> D]
      <4>1. DOMAIN directories = {}
        BY <1>4
      <4> QED BY <1>6, <1>8, <4>1 DEF With, D
    <3> DEFINE S == Directory({})
    <3> HIDE DEF S
    <3>2. D \in S
      BY <1>12 DEF S
    <3>3. directories' \in [{a} -> S]
      BY <3>1, <3>2
    <3> QED BY <1>11, <1>13, <3>3 DEF S
  <2>2. pages' \in [DOMAIN pages' -> [Positions -> Nat]]
    BY <1>13
  <2>3. IsFiniteSet(DOMAIN pages')
    BY <1>13, FS_EmptySet
  <2>4. kernel' \in DOMAIN directories'
    BY <1>6, <1>11
  <2> QED BY <2>1, <2>2, <2>3, <2>4 DEF SpacesFit
<1>16. TablesApart'
  BY <1>11, <1>12 DEF TablesApart
<1>17. KernelStaysOut'
  <2>1. \A p \in TaskPages : p \div Entries \in AllTables
    BY EveryPageIs
  <2> QED BY <1>6, <1>11, <1>12, <2>1 DEF KernelStaysOut
<1>18. TasksFit'
  BY <1>2, <1>4, <1>6, <1>10 DEF TasksFit
<1>19. TodoFits'
  <2>1. ModuleSizes # {}
    OBVIOUS
  <2>2. /\ Bare(FirstSteps, KernelItem, Initial) /\ Unpaged(FirstSteps)
        /\ WandFits(FirstSteps, NoWand) /\ IdentityFits(FirstSteps, {})
    BY <2>1, FirstStepsFit
  <2>3. DevicesFit(FirstSteps)
    <3>1. FirstSteps \in Seq(KernelItem)
      BY <2>2 DEF Bare
    <3> QED BY <3>1, NoDevices
  <2>4. ItemsUnmapped(FirstSteps, Initial, pages', D.tables)
    BY <1>12, NoTablesNoFrames
  <2>5. PlacementFits'
    <3>1. TablesMade' = {}
      BY <1>6, <1>11, <1>12 DEF TablesMade
    <3>2. PlacementBase(n) = Aligned(a + DirectorySize)
      BY DEF PlacementBase, a, pl
    <3>3. a + DirectorySize \in Nat
      BY <1>7, <1>9
    <3>4. Aligned(a + DirectorySize) \in Nat /\ Aligned(a + DirectorySize) >= a + DirectorySize
      BY <3>3, AlignedIs
    <3>5. Cardinality(TablesMade') = 0
      BY <3>1, FS_EmptySet
    <3>6. PageSize * Cardinality(TablesMade') = 0
      BY <1>9, <3>5
    <3>7. placement' <= PlacementBase(n) + PageSize * Cardinality(TablesMade')
      BY <1>8, <3>2, <3>3, <3>4, <3>6
    <3> QED BY <3>1, <3>7 DEF PlacementFits
  <2>6. TaskProgram' = Initial /\ Items' = KernelItem /\ Later' = {FirstRest}
    BY <1>2, <1>4 DEF TaskProgram, Items, Later
  <2>7. directories'[target'].tables = D.tables
    BY <1>6, <1>11
  <2>8. ItemsFit(FirstSteps)'
    BY <1>2, <1>4, <2>2, <2>3, <2>4, <2>5, <2>6, <2>7 DEF ItemsFit
  <2>9. Doing(FirstSteps, FirstRest)'
    BY <1>3, <2>6, <2>8 DEF Doing
  <2> QED BY <2>9 DEF TodoFits
<1>20. FramesApart'
  <2>1. \A but : WithFrame(pages', but) = {}
    BY <1>13 DEF WithFrame
  <2> QED BY <1>2, <1>4, <2>1 DEF FramesApart, ApartIn
<1> QED BY <1>2, <1>14, <1>15, <1>16, <1>17, <1>18, <1>19, <1>20 DEF Working

\* What comes before there is a directory is over.
LEMMA EarlyIsOver ==
  ASSUME Working, halted = "no"
  PROVE  ~Alloc /\ ~AllocateKernelDirectory /\ ~Halted
<1>1. ASSUME NEW what \in {"alloc", "kernel_directory"}, Step(what) PROVE FALSE
  <2>1. PICK s, rest : Doing(s, rest) /\ s # <<>> /\ s[1].do = what
    BY <1>1, StepIs
  <2>2. s[1] \in Items
    BY <2>1, DoingIs
  <2>3. s[1] \in KernelItem \/ s[1] \in TaskItem \/ s[1] \in DeviceItem
    BY <2>2 DEF Items
  <2> QED BY <2>1, <2>3 DEF KernelItem, TaskItem, DeviceItem
<1>2. ~Alloc /\ ~AllocateKernelDirectory
  BY <1>1 DEF Alloc, AllocateKernelDirectory
<1>3. ~Halted
  BY DEF Halted
<1> QED BY <1>2, <1>3

\* While it works, every step keeps it working or stops it.
LEMMA WorkingKeeps ==
  ASSUME Working, FramesApart, halted = "no", MemoryNext
  PROVE  Stopped \/ (Working' /\ FramesApart' /\ halted' = "no")
<1>1. ~Alloc /\ ~AllocateKernelDirectory /\ ~Halted
  BY EarlyIsOver
<1>2. CASE MakeTable
  BY <1>2, MakeTableKeeps
<1>3. CASE GetPage
  BY <1>3, GetPageKeeps
<1>4. CASE IdentityMap
  BY <1>4, IdentityMapKeeps
<1>5. CASE MapPage
  BY <1>5, MapPageKeeps
<1>6. CASE SetPaging
  BY <1>6, SetPagingKeeps
<1>7. CASE AllocateStack
  BY <1>7, AllocateStackKeeps
<1>8. CASE Clone
  BY <1>8, CloneKeeps
<1>9. CASE LoadArguments
  BY <1>9, LoadArgumentsKeeps
<1>10. CASE TakeWand
  BY <1>10, TakeWandKeeps
<1>11. CASE CopyPart
  BY <1>11, CopyPartKeeps
<1>12. CASE PutWandBack
  BY <1>12, PutWandBackKeeps
<1>13. CASE MapDevice
  BY <1>13, MapDeviceKeeps
<1>14. CASE SwitchToInitial
  BY <1>14, SwitchToInitialKeeps
<1>15. CASE \E i \in DOMAIN tasks : SwitchTo(i)
  BY <1>15, SwitchToKeeps
<1>16. CASE \E program \in Programs : Spawn(program)
  BY <1>16, SpawnKeeps
<1>17. CASE \E s \in DevicePages : MapPhysicalMem(s)
  BY <1>17, MapPhysicalMemKeeps
<1>18. CASE \E i \in DOMAIN tasks : DumpCore(i)
  BY <1>18, DumpCoreKeeps
<1>19. CASE TakeOther
  BY <1>19, TakeOtherKeeps
<1>20. CASE \E p \in others : FreeOther(p)
  BY <1>20, FreeOtherKeeps
<1>21. CASE OutOfHeap
  BY <1>21, OutOfHeapStops
<1>22. CASE NoFrameFor
  BY <1>22, NoFrameForStops
<1> QED
  BY <1>1, <1>2, <1>3, <1>4, <1>5, <1>6, <1>7, <1>8, <1>9, <1>10, <1>11, <1>12, <1>13, <1>14,
     <1>15, <1>16, <1>17, <1>18, <1>19, <1>20, <1>21, <1>22, Zenon DEF MemoryNext

\* Before there is a directory, there are only the first allocations.
LEMMA EarlyDoes ==
  ASSUME Early, halted = "no", MemoryNext
  PROVE  Alloc \/ AllocateKernelDirectory \/ OutOfHeap
<1>1. PICK n \in ModuleSizes : EarlyAt(n)
  BY DEF Early, EarlyAt
<1>2. todo # <<>> /\ Head(todo).do \in {"alloc", "kernel_directory"} /\ DOMAIN tasks = {}
      /\ others = {}
  BY <1>1, EarlyIs DEF Early
<1>3. ~IsIdle /\ ~Halted
  BY <1>2 DEF IsIdle, Halted
<1>4. ASSUME NEW what, Step(what) PROVE what \in {"alloc", "kernel_directory"}
  BY <1>2, <1>4 DEF Step
<1>5. ~NeedsTable
  BY <1>4 DEF NeedsTable
<1>6. ASSUME NEW what, OnPage(what) PROVE what \in {"alloc", "kernel_directory"}
  BY <1>4, <1>6 DEF OnPage
<1>7. /\ ~MakeTable /\ ~GetPage /\ ~IdentityMap /\ ~MapPage /\ ~CopyPart /\ ~MapDevice
      /\ ~NoFrameFor
  <2>1. \A what : OnPage(what) => what \in {"alloc", "kernel_directory"}
    BY <1>6
  <2>2. /\ ~OnPage("get_page") /\ ~OnPage("identity_map") /\ ~OnPage("map")
        /\ ~OnPage("copy") /\ ~OnPage("device")
    BY <2>1
  <2>3. ~MakeTable
    BY <1>5, Zenon DEF MakeTable
  <2>4. ~GetPage
    BY <2>2, Zenon DEF GetPage
  <2>5. ~IdentityMap
    BY <2>2, Zenon DEF IdentityMap
  <2>6. ~MapPage
    BY <2>2, Zenon DEF MapPage
  <2>7. ~CopyPart
    BY <2>2, Zenon DEF CopyPart
  <2>8. ~MapDevice
    BY <2>2, Zenon DEF MapDevice
  <2>9. ~NoFrameFor
    BY <2>2, Zenon DEF NoFrameFor
  <2> QED BY <2>3, <2>4, <2>5, <2>6, <2>7, <2>8, <2>9
<1>8. /\ ~SetPaging /\ ~AllocateStack /\ ~Clone /\ ~LoadArguments /\ ~TakeWand /\ ~PutWandBack
      /\ ~SwitchToInitial
  <2>1. ~Step("paging") /\ ~Step("stack") /\ ~Step("clone") /\ ~Step("arguments")
        /\ ~Step("take_wand") /\ ~Step("put_wand_back") /\ ~Step("switch")
    BY <1>4
  <2> QED BY <2>1 DEF SetPaging, AllocateStack, Clone, LoadArguments, TakeWand, PutWandBack,
                      SwitchToInitial
<1>9. /\ \A program : ~Spawn(program)
      /\ \A s : ~MapPhysicalMem(s)
      /\ ~TakeOther
  BY <1>3 DEF Spawn, MapPhysicalMem, TakeOther
<1> QED BY <1>2, <1>3, <1>7, <1>8, <1>9 DEF MemoryNext

\* They go on, until there is one.
LEMMA EarlyKeeps ==
  ASSUME Early, halted = "no", MemoryNext
  PROVE  \/ Stopped
         \/ Early' /\ UNCHANGED <<pages, frames, wand, directories, active, halted>>
         \/ Working' /\ FramesApart' /\ halted' = "no"
<1>1. Alloc \/ AllocateKernelDirectory \/ OutOfHeap
  BY EarlyDoes
<1>2. CASE Alloc
  <2>1. UNCHANGED <<pages, frames, wand, directories, active, halted>>
    BY <1>2 DEF Alloc, Place, spaces, making
  <2> QED BY <1>2, <2>1, AllocKeepsEarly
<1>3. CASE AllocateKernelDirectory
  BY <1>3, DirectoryStarts
<1>4. CASE OutOfHeap
  BY <1>4, OutOfHeapStops
<1> QED BY <1>1, <1>2, <1>3, <1>4

\* A machine that is halted stays so.
LEMMA HaltedStays ==
  ASSUME halted # "no", MemoryNext
  PROVE  Halted
<1>1. \A what : ~Step(what)
  BY DEF Step
<1>2. ~IsIdle /\ ~OutOfHeap
  BY DEF IsIdle, OutOfHeap
<1>3. ~NeedsTable /\ \A what : ~OnPage(what)
  BY <1>1 DEF NeedsTable, OnPage
<1>4. /\ ~MakeTable /\ ~GetPage /\ ~IdentityMap /\ ~MapPage /\ ~CopyPart /\ ~MapDevice
      /\ ~NoFrameFor
  BY <1>3, Zenon DEF MakeTable, GetPage, IdentityMap, MapPage, CopyPart, MapDevice, NoFrameFor
<1>5. /\ ~Alloc /\ ~AllocateKernelDirectory /\ ~SetPaging /\ ~AllocateStack /\ ~Clone
      /\ ~LoadArguments /\ ~TakeWand /\ ~PutWandBack /\ ~SwitchToInitial
  BY <1>1 DEF Alloc, AllocateKernelDirectory, SetPaging, AllocateStack, Clone, LoadArguments,
              TakeWand, PutWandBack, SwitchToInitial
<1>6. /\ \A i : ~SwitchTo(i) /\ ~DumpCore(i)
      /\ \A program : ~Spawn(program)
      /\ \A s : ~MapPhysicalMem(s)
      /\ ~TakeOther /\ \A p : ~FreeOther(p)
  BY <1>2 DEF SwitchTo, DumpCore, Spawn, MapPhysicalMem, TakeOther, FreeOther
<1> QED BY <1>2, <1>4, <1>5, <1>6 DEF MemoryNext

-----------------------------------------------------------------------------
(* Every page has a frame of its own.                                      *)

\* MemoryInv is inductive: Memory.cpp, setPaging, the making of tasks and the
\* loading of images keep the frames apart, and the kernel at what it is at.
THEOREM MemoryKeepsInv == MemorySpec => []MemoryInv
<1>1. MemoryInit => MemoryInv
  <2> SUFFICES ASSUME MemoryInit PROVE MemoryInv
    OBVIOUS
  <2>1. Early /\ halted = "no" /\ pages = <<>> /\ wand = NoWand
    BY DEF MemoryInit, Early
  <2>2. DOMAIN pages = {}
    BY <2>1
  <2>3. IsFiniteSet(DOMAIN pages)
    BY <2>2, FS_EmptySet
  <2>4. \A but : WithFrame(pages, but) = {}
    BY <2>2 DEF WithFrame
  <2>5. FramesApart
    BY <2>1, <2>4 DEF FramesApart, ApartIn
  <2> QED BY <2>1, <2>3, <2>5 DEF MemoryInv
<1>2. MemoryInv /\ [MemoryNext]_memoryVars => MemoryInv'
  <2> SUFFICES ASSUME MemoryInv, [MemoryNext]_memoryVars PROVE MemoryInv'
    OBVIOUS
  <2>1. FramesApart /\ IsFiniteSet(DOMAIN pages)
    BY DEF MemoryInv
  <2>2. CASE UNCHANGED memoryVars
    <3>1. /\ UNCHANGED <<placement, frames, directories, pages, kernel, active, heap, others, tasks>>
          /\ UNCHANGED <<target, wand, todo, halted>>
      BY <2>2 DEF memoryVars
    <3>2. FramesApart' /\ IsFiniteSet(DOMAIN pages')
      BY <2>1, <3>1, FramesStay
    <3>3. Early => Early'
      BY <3>1 DEF Early
    <3>4. AllocationFits => AllocationFits'
      BY <3>1 DEF AllocationFits, Kept
    <3>5. SpacesFit => SpacesFit'
      BY <3>1 DEF SpacesFit
    <3>6. (TablesApart => TablesApart') /\ (KernelStaysOut => KernelStaysOut')
      BY <3>1 DEF TablesApart, KernelStaysOut
    <3>7. TasksFit => TasksFit'
      BY <3>1 DEF TasksFit
    <3>8. ASSUME TodoFits PROVE TodoFits'
      <4>1. PICK s, rest : Doing(s, rest)
        BY <3>8 DEF TodoFits
      <4>2. /\ TaskProgram' = TaskProgram /\ Items' = Items /\ Later' = Later
            /\ TablesMade' = TablesMade
        BY <3>1 DEF TaskProgram, Items, Later, TablesMade
      <4>3. ItemsFit(s)'
        BY <3>1, <4>1, <4>2 DEF Doing, ItemsFit, PlacementFits
      <4>4. Doing(s, rest)'
        BY <3>1, <4>1, <4>2, <4>3 DEF Doing
      <4> QED BY <4>4 DEF TodoFits
    <3> QED BY <3>1, <3>2, <3>3, <3>4, <3>5, <3>6, <3>7, <3>8 DEF MemoryInv
  <2>3. CASE halted = "no" /\ MemoryNext
    <3>1. CASE Stopped
      BY <3>1, StoppedKeeps
    <3>2. ASSUME Working', FramesApart', halted' = "no" PROVE MemoryInv'
      BY <3>2 DEF MemoryInv, Working, SpacesFit
    <3>3. ASSUME Early', UNCHANGED <<pages, frames, wand, directories, active, halted>>
          PROVE  MemoryInv'
      <4>1. FramesApart'
        BY <2>1, <3>3, FramesStay
      <4>2. IsFiniteSet(DOMAIN pages')
        BY <2>1, <3>3
      <4> QED BY <2>3, <3>3, <4>1, <4>2 DEF MemoryInv
    <3>4. Early \/ Working
      BY <2>3 DEF MemoryInv, Working
    <3>5. CASE Working
      BY <2>1, <2>3, <3>1, <3>2, <3>5, WorkingKeeps
    <3>6. CASE Early
      BY <2>3, <3>1, <3>2, <3>3, <3>6, EarlyKeeps
    <3> QED BY <3>4, <3>5, <3>6
  <2>4. CASE halted # "no" /\ MemoryNext
    BY <2>2, <2>4, HaltedStays DEF Halted
  <2> QED BY <2>2, <2>3, <2>4
<1> QED BY <1>1, <1>2, PTL DEF MemorySpec

\* No frame of the RAM is in two entries of the page tables, and those that are
\* in one are marked, whatever the kernel makes tables, tasks and images of.
THEOREM MemoryKeepsFramesOwn == MemorySpec => []FramesAreOwn
<1>1. MemoryInv => FramesAreOwn
  BY ApartMeansOwn DEF MemoryInv
<1> QED BY <1>1, MemoryKeepsInv, PTL
=============================================================================
