------------------------------ MODULE TaskList ------------------------------
(***************************************************************************)
(* The two linked lists the microkernel schedules from, as sequences: the  *)
(* list of all tasks (Tasks::start and Task::next) and the priority list   *)
(* (Tasks::priorityStart and Task::priorityNext).  The functions here have *)
(* no state of their own; every module that switches tasks uses them.      *)
(* waiting is the function task |-> Task::userWaiting.                     *)
(***************************************************************************)
EXTENDS Naturals, SequencesExt

\* Where a task stands on a list that holds it once.
Position(list, t) == CHOOSE i \in DOMAIN list : list[i] = t

\* The list without t, which the unlinking loops of sysexit and isr_handler
\* find by scanning from the start.
Unlink(list, t) == RemoveAt(list, Position(list, t))

\* Mutant of VisitOrder: always from the start of the list.
VisitFromStart(list, t) == list

\* The tasks in the order repeated _NextTask calls visit them from t: those
\* behind t, then from the start of the list round to t itself.
VisitOrder(list, t) ==
  LET p == Position(list, t)
  IN  SubSeq(list, p + 1, Len(list)) \o SubSeq(list, 1, p)

\* Round robin: the first task after t that is not waiting.  The scan may come
\* back to t.  When every task waits there is none, and the code's
\* ASSERT(next != t) fails instead.
SomeRunnable(list, waiting) == \E i \in DOMAIN list : ~waiting[list[i]]

\* Mutant of FirstRunnable: does not skip the tasks that wait.
FirstOfAll(order, waiting) == order[1]

FirstRunnable(order, waiting) ==
  order[CHOOSE i \in DOMAIN order :
          /\ ~waiting[order[i]]
          /\ \A j \in 1 .. i - 1 : waiting[order[j]]]

NextRunnable(list, t, waiting) == FirstRunnable(VisitOrder(list, t), waiting)

\* Mutant of AppendPriority: a task already on the list is put on it again.
AppendAgain(prio, t) == Append(prio, t)

\* Appending t to the priority list: the loop walks the priorityNext links to
\* the end, stores t there and clears t's own link.  When t is on the list
\* already, clearing its link cuts off everything behind it.
AppendPriority(prio, t) ==
  IF t \in ToSet(prio) THEN SubSeq(prio, 1, Position(prio, t))
                       ELSE Append(prio, t)

\* The priority list as the interrupt handler walks the task list from the start
\* and appends each task of ready: at i, after the first i tasks.
PriorityWalk(list, prio, ready) ==
  LET walk[i \in 0 .. Len(list)] ==
        IF i = 0 THEN prio
        ELSE IF list[i] \in ready THEN AppendPriority(walk[i - 1], list[i])
        ELSE walk[i - 1]
  IN  walk

PriorityAfterWalk(list, prio, ready) ==
  PriorityWalk(list, prio, ready)[Len(list)]
=============================================================================
