---------------------------- MODULE MessageQueues ---------------------------
(***************************************************************************)
(* Messages between processes (UserIPCQueue.cpp): sendQueue, the probes,   *)
(* shiftQueue, and the release of a process that waits for a message.      *)
(*                                                                         *)
(* One action is one kernel entry.  A process that is not waiting may be   *)
(* the next to run.  What the processes do with the calls is what all      *)
(* programs under packages/ and user/ do: a request is followed by a probe *)
(* for its reply, a message is shifted after it has been probed, a request *)
(* is answered once, with its own id, and probeQueue, which accepts any    *)
(* message, is called with no reply outstanding.                           *)
(***************************************************************************)
EXTENDS MessageQueue

CONSTANTS
  Procs,
  MaxMessages    \* bound: messages ever sent

ASSUME MaxMessagesAssumption == MaxMessages \in Nat

VARIABLES
  queue,         \* Task::replyQueue
  lastMsgId,     \* last_msg_id of Queue::push_back
  alive,         \* the tasks on the list at Tasks::start
  waiting,       \* Task::userWaiting
  call,          \* Task::userCall
  panic,         \* whether a resumed call blocked again
  info,          \* the message a program has probed and not shifted yet
  outstanding,   \* the requests of a program that it has no answer to
  owed           \* the requests a program received and has not answered

kernelVars == <<queue, lastMsgId, alive, waiting, call, panic>>
vars == <<kernelVars, info, outstanding, owed>>

NoItem == [id |-> 0]

Init ==
  /\ queue = [p \in Procs |-> <<>>]
  /\ lastMsgId = 0
  /\ alive = Procs
  /\ waiting = [p \in Procs |-> FALSE]
  /\ call = [p \in Procs |-> NoCall]
  /\ panic = FALSE
  /\ info = [p \in Procs |-> NoItem]
  /\ outstanding = [p \in Procs |-> {}]
  /\ owed = [p \in Procs |-> {}]

InUserMode(p) == ~panic /\ p \in alive /\ ~waiting[p] /\ call[p] = NoCall

\* Mutant of NextMsgId: each queue counts for itself.
NextInQueue(q) == Len(queue[q]) + 1

\* One counter for all queues.
NextMsgId(q) == lastMsgId + 1

\* sendQueue(q, r, data).  Its receiver must be on the task list: the code does
\* not check what getTaskById returns.
SendQueue(p, q, r, data) ==
  /\ q \in alive
  /\ lastMsgId < MaxMessages
  /\ lastMsgId' = lastMsgId + 1
  /\ queue' = [queue EXCEPT ![q] = PushBack(@, Item(NextMsgId(q), p, r, data))]
  /\ waiting' = [waiting EXCEPT ![q] = @ /\ ~IsReleasedBy(call[q], r)]
  /\ UNCHANGED <<alive, call, panic>>

\* A request, which will be answered, or a notice, which will not.
Request(p, q) ==
  /\ InUserMode(p) /\ info[p] = NoItem
  /\ SendQueue(p, q, 0, "request")
  /\ outstanding' = [outstanding EXCEPT ![p] = @ \cup {[id |-> NextMsgId(q), to |-> q]}]
  /\ UNCHANGED <<info, owed>>

Notify(p, q) ==
  /\ InUserMode(p) /\ info[p] = NoItem
  /\ SendQueue(p, q, 0, "notice")
  /\ UNCHANGED <<info, outstanding, owed>>

Reply(p, r) ==
  /\ InUserMode(p)
  /\ r \in owed[p]
  /\ SendQueue(p, r.from, r.id, "reply")
  /\ owed' = [owed EXCEPT ![p] = @ \ {r}]
  /\ UNCHANGED <<info, outstanding>>

MayProbe(p, r) ==
  IF r = 0 THEN outstanding[p] = {} ELSE \E m \in outstanding[p] : m.id = r

\* probeQueue and probeQueueFor; the variants that do not block return at once
\* when they find nothing.
ProbeFinds(p, r) ==
  /\ InUserMode(p) /\ info[p] = NoItem /\ MayProbe(p, r)
  /\ ~Blocks(ProbeQueueCall(r), queue[p])
  /\ info' = [info EXCEPT ![p] = Probed(queue[p], r)]
  /\ UNCHANGED <<kernelVars, outstanding, owed>>

ProbeBlocks(p, r) ==
  /\ InUserMode(p) /\ info[p] = NoItem /\ MayProbe(p, r)
  /\ Blocks(ProbeQueueCall(r), queue[p])
  /\ waiting' = [waiting EXCEPT ![p] = TRUE]
  /\ call' = [call EXCEPT ![p] = ProbeQueueCall(r)]
  /\ UNCHANGED <<queue, lastMsgId, alive, panic, info, outstanding, owed>>

\* assignInternalTask resumes p: the call is evaluated again and must complete.
Resume(p) ==
  /\ ~panic /\ p \in alive /\ ~waiting[p] /\ call[p] # NoCall
  /\ call' = [call EXCEPT ![p] = NoCall]
  /\ IF Blocks(call[p], queue[p])
     THEN panic' = TRUE /\ UNCHANGED info
     ELSE /\ info' = [info EXCEPT ![p] = Probed(queue[p], call[p].reply_to)]
          /\ UNCHANGED panic
  /\ UNCHANGED <<queue, lastMsgId, alive, waiting, outstanding, owed>>

\* shiftQueue(info), after which the program turns to what it has read.
ShiftQueue(p) ==
  /\ InUserMode(p) /\ info[p] # NoItem
  /\ queue' = [queue EXCEPT ![p] = Removed(@, info[p].id)]
  /\ info' = [info EXCEPT ![p] = NoItem]
  /\ owed' = IF info[p].data = "request"
             THEN [owed EXCEPT ![p] = @ \cup {[id |-> info[p].id, from |-> info[p].from]}]
             ELSE owed
  /\ outstanding' = [outstanding EXCEPT ![p] = {m \in @ : m.id # info[p].reply_to}]
  /\ UNCHANGED <<lastMsgId, alive, waiting, call, panic>>

MayExit(p) == info[p] = NoItem /\ outstanding[p] = {}

\* sysexit: the queue goes with its task.
Exit(p) ==
  /\ InUserMode(p) /\ MayExit(p)
  /\ alive' = alive \ {p}
  /\ UNCHANGED <<queue, lastMsgId, waiting, call, panic, info, outstanding, owed>>

Next ==
  \E p \in Procs :
    \/ \E q \in Procs : Request(p, q) \/ Notify(p, q)
    \/ \E r \in owed[p] : Reply(p, r)
    \/ \E r \in 0 .. MaxMessages : ProbeFinds(p, r) \/ ProbeBlocks(p, r)
    \/ Resume(p)
    \/ ShiftQueue(p)
    \/ Exit(p)

Spec == Init /\ [][Next]_vars

-----------------------------------------------------------------------------
(* Properties.                                                             *)

\* A process waits only while its queue has no message that its probe accepts:
\* sendQueue releases it for the message it waits for, and the probe finds it
\* when it is resumed (ASSERT(!shallBlock), Tasks.cpp:164).
NoProbeInVain ==
  /\ \A p \in Procs : waiting[p] => Blocks(call[p], queue[p])
  /\ ~panic

\* Where a request m of p can be.
QueuedAt(p, m) == {i \in DOMAIN queue[m.to] :
                     queue[m.to][i].id = m.id /\ queue[m.to][i].from = p}
AnsweredAt(p, m) == {i \in DOMAIN queue[p] : queue[p][i].reply_to = m.id}
IsOwed(p, m) == [id |-> m.id, from |-> p] \in owed[m.to]

\* An outstanding request is in its receiver's queue, or received and not yet
\* answered, or answered, and only one of these, once: none is lost, none is
\* answered twice.  (Its receiver may have exited.)
RequestsAreKept ==
  \A p \in Procs : \A m \in outstanding[p] :
    m.to \in alive =>
      \/ QueuedAt(p, m) # {} /\ ~IsOwed(p, m) /\ AnsweredAt(p, m) = {}
      \/ QueuedAt(p, m) = {} /\ IsOwed(p, m) /\ AnsweredAt(p, m) = {}
      \/ /\ QueuedAt(p, m) = {} /\ ~IsOwed(p, m)
         /\ \E i \in DOMAIN queue[p] : AnsweredAt(p, m) = {i}

\* A reply in a queue answers an outstanding request of that process, and comes
\* from the process the request was sent to.
RepliesAnswer ==
  \A p \in alive : \A i \in DOMAIN queue[p] :
    queue[p][i].reply_to # 0 =>
      [id |-> queue[p][i].reply_to, to |-> queue[p][i].from] \in outstanding[p]
=============================================================================
