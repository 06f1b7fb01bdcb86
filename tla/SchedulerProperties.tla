------------------------ MODULE SchedulerProperties -------------------------
(***************************************************************************)
(* What the scheduling core promises.                                      *)
(***************************************************************************)
EXTENDS Scheduler

Calls == [kind : {"none", "irq", "sleep"}, us : Nat, uid : Nat]
Panics == {"no", "switched to a waiting task", "every task waits",
           "no other task to return to", "resumed call blocks again",
           "wake event to deschedule is gone"}
Alive == ToSet(tasks)

\* Type invariant.
TypeOK ==
  /\ tasks \in Seq(Tasks)
  /\ current \in Tasks
  /\ prio \in Seq(Tasks)
  /\ waiting \in [Tasks -> BOOLEAN]
  /\ call \in [Tasks -> Calls]
  /\ listen \in [Tasks -> Irqs \cup {NoIrq}]
  /\ hits \in [Tasks -> Nat]
  /\ wakeevents \in Seq(EventsFor(Tasks))
  /\ lastWakeId \in Nat
  /\ spawned \subseteq Tasks
  /\ panic \in Panics

\* The scheduler never reaches one of its own panics: it never switches to a
\* waiting task ("Block fail?", Tasks.cpp), never finds every task waiting,
\* never returns from a system call to its caller by mistake, and never resumes
\* a task whose blocking call would block again.
SchedulerNeverPanics ==
  panic \notin {"switched to a waiting task", "every task waits",
                "no other task to return to", "resumed call blocks again"}

\* The priority list holds no task twice, and only live tasks that can be
\* switched to at once; the running task is alive and not on it.
PriorityListIsReady ==
  panic = "no" =>
    /\ current \in Alive /\ ~waiting[current]
    /\ \A t \in ToSet(prio) : t \in Alive \ {current} /\ ~waiting[t]
    /\ IsInjective(prio)

\* No interrupt is slept through: a task still waiting for its interrupt has
\* none outstanding, and one released without a timeout to blame has one.
NoLostInterrupt ==
  panic = "no" =>
    \A t \in Tasks : call[t].kind = "irq" =>
      /\ waiting[t] => hits[t] = 0
      /\ ~waiting[t] /\ hits[t] = 0 => call[t].us # 0

\* A wake event belongs to a live task that is still in the call that asked for
\* it, so no event ever wakes a task out of another wait, or a dead one; and it
\* is left behind by a released task only when an interrupt did the releasing.
WakeEventsHaveOwners ==
  panic = "no" =>
    \A i \in DOMAIN wakeevents :
      LET t == wakeevents[i].toWake
      IN  /\ t \in Alive
          /\ call[t].uid = wakeevents[i].uid
          /\ ~waiting[t] => call[t].kind = "irq" /\ hits[t] > 0

\* A task waiting for time has its wake event in the queue.
NoLostAlarm ==
  panic = "no" =>
    \A t \in Tasks : waiting[t] /\ call[t].uid # 0 =>
      \E i \in DOMAIN wakeevents :
        wakeevents[i].toWake = t /\ wakeevents[i].uid = call[t].uid

-----------------------------------------------------------------------------
(* The inductive invariant the safety properties follow from.              *)

\* The parts of it that concern blocking calls and wake events are stated of
\* the values a handler passes to Assign, as well as of the variables.
CallsAreTyped(w, c, h, q, last) ==
  /\ w \in [Tasks -> BOOLEAN]
  /\ c \in [Tasks -> Calls]
  /\ h \in [Tasks -> Nat]
  /\ q \in Seq(EventsFor(Tasks))
  /\ last \in Nat

\* Only a task on the list is in a call; uids are issued where they should be.
CallsAreFormed(alive, w, c, last) ==
  \A t \in Tasks :
    /\ t \notin alive => c[t].kind = "none"
    /\ c[t].kind = "none" => ~w[t] /\ c[t] = NoCall
    /\ c[t].kind = "sleep" => c[t].uid # 0
    /\ c[t].kind = "irq" => (c[t].uid # 0 <=> c[t].us # 0)
    /\ c[t].uid <= last

InterruptsAreKept(w, c, h) ==
  \A t \in Tasks : c[t].kind = "irq" =>
    /\ w[t] => h[t] = 0
    /\ ~w[t] /\ h[t] = 0 => c[t].us # 0

AlarmsAreSet(w, c, q) ==
  \A t \in Tasks : w[t] /\ c[t].uid # 0 =>
    \E i \in DOMAIN q : q[i].toWake = t /\ q[i].uid = c[t].uid

EventsAreOwned(w, c, h, q) ==
  \A i \in DOMAIN q :
    LET t == q[i].toWake
    IN  /\ q[i].uid # 0
        /\ c[t].uid = q[i].uid
        /\ ~w[t] => c[t].kind = "irq" /\ h[t] > 0

UidsAreUnique(c, q) ==
  /\ UidsDiffer(q)
  /\ \A t1, t2 \in Tasks : c[t1].uid = c[t2].uid /\ c[t1].uid # 0 => t1 = t2

CallsInv(alive, w, c, h, q, last) ==
  /\ CallsAreFormed(alive, w, c, last)
  /\ InterruptsAreKept(w, c, h)
  /\ AlarmsAreSet(w, c, q)
  /\ EventsAreOwned(w, c, h, q)
  /\ UidsAreUnique(c, q)

\* The task list holds no task twice, and the idle task always.
TaskListInv ==
  /\ IsInjective(tasks)
  /\ Idle \in Alive
  /\ spawned \cap Alive = {}

IdleInv == call[Idle].kind = "none" /\ listen[Idle] = NoIrq

SchedulerInv ==
  /\ TypeOK
  /\ SchedulerNeverPanics
  /\ panic = "no" =>
       /\ TaskListInv
       /\ IdleInv
       /\ PriorityListIsReady
       /\ call[current].kind = "none"
       /\ CallsInv(Alive, waiting, call, hits, wakeevents, lastWakeId)

-----------------------------------------------------------------------------
(* What comments and assertions of the code say, and the code does not do. *)

\* UserCalls.cpp:69, ASSERT(mu_timer->desched(wakeeventId)): when a driver in
\* irqWaitTimeout is resumed by an interrupt, its wake event is still queued.
TimeoutIsStillQueued == panic # "wake event to deschedule is gone"

-----------------------------------------------------------------------------
(* Liveness, under the timer's fairness.                                   *)

\* A task waiting for time is woken, whatever else sleeps or is descheduled.
SleepersWake ==
  \A t \in Tasks :
    waiting[t] /\ call[t].uid # 0 ~> ~waiting[t] \/ panic # "no"

\* Round robin starves nobody: once interrupts cease (each of them moves the
\* running position to its listener), a live task that does not wait runs.
Runnable(t) == t \in Alive /\ ~waiting[t]

NoMoreInterrupts == <>[][\A irq \in Irqs : ~Irq(irq)]_vars

RunnableTasksRun ==
  NoMoreInterrupts =>
    \A t \in Tasks : Runnable(t) ~> current = t \/ panic # "no"
=============================================================================
