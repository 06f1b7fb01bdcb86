---------------------------- MODULE MessageQueue ----------------------------
(***************************************************************************)
(* A task's queue of messages (Queue in Tasks.cpp), a sequence of records  *)
(*     [id : Nat, from : task, reply_to : Nat, data : any]                 *)
(* and the blocking call that looks into it (UserIPCQueue.cpp).  A message *)
(* whose reply_to is 0 answers none.  MessageQueues holds the queues.      *)
(***************************************************************************)
EXTENDS Naturals, SequencesExt

Item(id, from, replyTo, data) ==
  [id |-> id, from |-> from, reply_to |-> replyTo, data |-> data]

PushBack(q, item) == Append(q, item)

\* Mutant of Matching: a probe accepts any message.
MatchingAny(q, r) == DOMAIN q

\* The positions of the messages a probe for r accepts: any, when r is 0.
Matching(q, r) == {i \in DOMAIN q : r = 0 \/ q[i].reply_to = r}

\* Queue::first and Queue::itemByReplyTo, of a queue that has such a message.
Probed(q, r) ==
  q[CHOOSE i \in Matching(q, r) : \A j \in Matching(q, r) : i <= j]

\* Mutant of Removed: shiftQueue takes the message at the head.
RemovedHead(q, id) == Tail(q)

\* The position of Queue::itemById, of a queue that has such a message.
ItemById(q, id) ==
  CHOOSE i \in DOMAIN q : q[i].id = id /\ \A j \in DOMAIN q : q[j].id = id => i <= j

\* Queue::remove of what itemById finds.
Removed(q, id) == RemoveAt(q, ItemById(q, id))

NoCall == [kind |-> "none"]

\* ProbeQueueCall: whether it blocks on q, and whether the arrival of a message
\* that replies to r releases it.
ProbeQueueCall(r) == [kind |-> "probe", reply_to |-> r]
Blocks(c, q) == Matching(q, c.reply_to) = {}

\* Mutant of IsReleasedBy: a reply releases no probe.
IsReleasedByRequest(c, r) == c = ProbeQueueCall(0) /\ r = 0

IsReleasedBy(c, r) == c = ProbeQueueCall(r)
=============================================================================
