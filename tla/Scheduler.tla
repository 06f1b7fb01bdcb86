----------------------------- MODULE Scheduler ------------------------------
(***************************************************************************)
(* The microkernel's scheduling core: task switching (Tasks.cpp,           *)
(* Syscall.cpp), hardware interrupts (Descriptor.cpp, interrupts.cpp), the *)
(* timer tick (entry.cpp, Timer.cpp), and the system calls that wait for   *)
(* an interrupt or for time (UserCalls.cpp, UserProcess.cpp).              *)
(*                                                                         *)
(* Kernel code runs with interrupts off, so one action is one whole entry  *)
(* into the kernel: the handler, the choice of the next task, and the      *)
(* re-evaluation of the blocking call that task was waiting in.  Between   *)
(* two actions the current task runs in user mode.  A failed ASSERT or an  *)
(* AkariPanic stops the machine; panic names it.                           *)
(***************************************************************************)
EXTENDS Naturals, FiniteSets, WakeQueue, TaskList

CONSTANTS
  Tasks,       \* every task of the machine
  Idle,        \* the ring-0 idle task, which only halts
  Drivers,     \* the tasks holding PRIV_IRQ
  BootList,    \* the task list once the initial task has exited
  Irqs,        \* the interrupt lines other than the timer's
  NoIrq,       \* irqListen's initial 0: the timer's line, never dispatched
  Timeouts,    \* irqWaitTimeout's argument in microseconds; 0 is irqWait
  Sleeps,      \* nanosleep's argument in microseconds
  MaxHits,     \* bound: interrupts a listener may have outstanding
  MaxWakeId    \* bound: wake events ever created

ASSUME TasksAssumption == Idle \in Tasks /\ Drivers \subseteq Tasks \ {Idle}
ASSUME BootAssumption ==
  /\ BootList \in Seq(Tasks)
  /\ IsInjective(BootList)
  /\ Idle \in ToSet(BootList)
ASSUME IrqAssumption == NoIrq \notin Irqs
ASSUME TimesAssumption == Timeouts \subseteq Nat /\ Sleeps \subseteq Nat
ASSUME BoundsAssumption == MaxHits \in Nat /\ MaxWakeId \in Nat

VARIABLES
  tasks,       \* Tasks::start and next: every task that may be scheduled
  current,     \* Tasks::current
  prio,        \* Tasks::priorityStart and priorityNext
  waiting,     \* Task::userWaiting
  call,        \* Task::userCall, the blocking call to evaluate on resumption
  listen,      \* Task::irqListen
  hits,        \* Task::irqListenHits
  wakeevents,  \* Timer::wakeevents
  lastWakeId,  \* Timer.cpp's lastWakeId
  spawned,     \* tasks created by spawn whose beginExecution is to come
  panic        \* "no", or what stopped the machine

vars == <<tasks, current, prio, waiting, call, listen, hits, wakeevents,
          lastWakeId, spawned, panic>>

-----------------------------------------------------------------------------
(* Blocking calls.                                                         *)

NoCall == [kind |-> "none", us |-> 0, uid |-> 0]
IRQWaitCall(us) == [kind |-> "irq", us |-> us, uid |-> 0]
NanosleepCall(us) == [kind |-> "sleep", us |-> us, uid |-> 0]

\* What evaluating c for task t does to the rest of the kernel: whether it
\* blocks, the call afterwards, t's remaining hits, the wake queue and its
\* counter, and whether the ASSERT on desched holds.
Outcome(block, c, h, q, last, ok) ==
  [block |-> block, call |-> c, hits |-> h, wake |-> q, last |-> last, ok |-> ok]

ScheduleWake(t, c, h, q, last) ==
  Outcome(TRUE, [c EXCEPT !.uid = last + 1], h,
          WithWakeEvent(q, c.us, t, last + 1), last + 1, TRUE)

\* Mutant of EvalIRQWait: leaves the timeout's wake event in the queue.
EvalIRQWaitLeavesEvent(t, c, h, q, last) ==
  IF h = 0
  THEN IF c.us # 0 /\ c.uid = 0 THEN ScheduleWake(t, c, h, q, last)
       ELSE Outcome(c.us = 0, [c EXCEPT !.uid = 0], h, q, last, TRUE)
  ELSE Outcome(FALSE, [c EXCEPT !.uid = 0], h - 1, q, last, TRUE)

EvalIRQWait(t, c, h, q, last) ==
  IF h = 0
  THEN IF c.us # 0 /\ c.uid = 0 THEN ScheduleWake(t, c, h, q, last)
       ELSE Outcome(c.us = 0, [c EXCEPT !.uid = 0], h, q, last, TRUE)
  ELSE Outcome(FALSE, [c EXCEPT !.uid = 0], h - 1,
               IF c.uid # 0 THEN Descheduled(q, c.uid) ELSE q, last,
               c.uid # 0 => IsScheduled(q, c.uid))

EvalNanosleep(t, c, h, q, last) ==
  IF c.uid = 0 THEN ScheduleWake(t, c, h, q, last)
               ELSE Outcome(FALSE, c, h, q, last, TRUE)

Evaluate(t, c, h, q, last) ==
  CASE c.kind = "irq"   -> EvalIRQWait(t, c, h, q, last)
    [] c.kind = "sleep" -> EvalNanosleep(t, c, h, q, last)
    [] OTHER            -> Outcome(FALSE, c, h, q, last, TRUE)

-----------------------------------------------------------------------------
(* Switching tasks.  The parameters are the kernel's state after the       *)
(* handler's own changes: w for waiting, c for call, h for hits, q for the *)
(* wake queue and last for its counter.                                    *)

KernelPanic(why) ==
  /\ panic' = why
  /\ UNCHANGED <<current, prio, waiting, call, hits, wakeevents, lastWakeId>>

\* assignInternalTask(t): t becomes current, and the blocking call it was in
\* is evaluated again, this time for good.
Assign(t, w, c, h, q, last) ==
  LET r == Evaluate(t, c[t], h[t], q, last)
  IN  /\ current' = t
      /\ waiting' = w
      /\ hits' = [h EXCEPT ![t] = r.hits]
      /\ wakeevents' = r.wake
      /\ lastWakeId' = r.last
      /\ call' = [c EXCEPT ![t] = IF r.block THEN r.call ELSE NoCall]
      /\ panic' = IF w[t] THEN "switched to a waiting task"
                  ELSE IF ~r.ok THEN "wake event to deschedule is gone"
                  ELSE IF r.block THEN "resumed call blocks again"
                  ELSE "no"

\* prepareFetchNextTask: the head of the priority list, else round robin.
CanFetch(w) == prio # <<>> \/ SomeRunnable(tasks, w)

FetchNext(w) == IF prio # <<>> THEN Head(prio)
                               ELSE NextRunnable(tasks, current, w)

TakeFromPriority == prio' = IF prio # <<>> THEN Tail(prio) ELSE prio

\* cycleTask and assignInternalTask, as the timer interrupt does.
Cycle(w, c, h, q, last) ==
  IF ~CanFetch(w) THEN KernelPanic("every task waits")
  ELSE TakeFromPriority /\ Assign(FetchNext(w), w, c, h, q, last)

\* returnToNextTask, then the switch at the end of Syscall::_handler.
ReturnToNextTask(w, c, h, q, last) ==
  IF CanFetch(w) /\ FetchNext(w) = current
  THEN KernelPanic("no other task to return to")
  ELSE Cycle(w, c, h, q, last)

-----------------------------------------------------------------------------
Init ==
  /\ tasks = BootList
  /\ current = Idle
  /\ prio = <<>>
  /\ waiting = [t \in Tasks |-> FALSE]
  /\ call = [t \in Tasks |-> NoCall]
  /\ listen = [t \in Tasks |-> NoIrq]
  /\ hits = [t \in Tasks |-> 0]
  /\ wakeevents = <<>>
  /\ lastWakeId = 0
  /\ spawned = Tasks \ ToSet(BootList)
  /\ panic = "no"

\* AkariMicrokernel, on the timer interrupt.
TimerTick ==
  /\ panic = "no"
  /\ Cycle(IF HeadIsDue(wakeevents)
             THEN [waiting EXCEPT ![Head(wakeevents).toWake] = FALSE]
             ELSE waiting,
           call, hits, AfterTick(wakeevents), lastWakeId)
  /\ UNCHANGED <<tasks, listen, spawned>>

\* Mutant of Released: a task that sleeps is taken for one that waits for its
\* interrupt.
ReleasedSleeper(t, irq) == listen[t] = irq /\ waiting[t] /\ call[t].kind = "sleep"

Released(t, irq) == listen[t] = irq /\ waiting[t] /\ call[t].kind = "irq"

\* IRQT::callHandler, on any other interrupt: every listener is credited, one
\* that waits for it is released, and the first on the priority list runs.
Irq(irq) ==
  LET listeners == {t \in ToSet(tasks) : listen[t] = irq}
      w == [t \in Tasks |-> waiting[t] /\ ~(t \in listeners /\ Released(t, irq))]
      h == [t \in Tasks |-> IF t \in listeners THEN hits[t] + 1 ELSE hits[t]]
      queue == PriorityAfterWalk(tasks, prio, {t \in listeners : ~w[t]})
  IN  /\ panic = "no"
      /\ \A t \in listeners : hits[t] < MaxHits
      /\ IF queue # <<>>
         THEN /\ prio' = Tail(queue)
              /\ Assign(Head(queue), w, call, h, wakeevents, lastWakeId)
         ELSE /\ waiting' = w
              /\ hits' = h
              /\ UNCHANGED <<current, prio, call, wakeevents, lastWakeId, panic>>
      /\ UNCHANGED <<tasks, listen, spawned>>

\* A system call of the current task; the idle task makes none.
InUserMode == panic = "no" /\ current # Idle

\* The shape all blocking calls share: evaluate c once; if it completes, return
\* to the caller, else leave it with the caller and run another task.
BlockingCall(c) ==
  LET r == Evaluate(current, c, hits[current], wakeevents, lastWakeId)
      h == [hits EXCEPT ![current] = r.hits]
  IN  /\ IF r.block
         THEN ReturnToNextTask([waiting EXCEPT ![current] = TRUE],
                               [call EXCEPT ![current] = r.call],
                               h, r.wake, r.last)
         ELSE /\ hits' = h
              /\ wakeevents' = r.wake
              /\ UNCHANGED <<current, prio, waiting, call, lastWakeId, panic>>
      /\ UNCHANGED <<tasks, listen, spawned>>

\* irqWait and irqWaitTimeout.
IrqWait(us) ==
  /\ InUserMode /\ current \in Drivers
  /\ us # 0 => lastWakeId < MaxWakeId
  /\ BlockingCall(IRQWaitCall(us))

Nanosleep(us) ==
  /\ InUserMode
  /\ lastWakeId < MaxWakeId
  /\ BlockingCall(NanosleepCall(us))

IrqListen(irq) ==
  /\ InUserMode /\ current \in Drivers
  /\ listen' = [listen EXCEPT ![current] = irq]
  /\ hits' = [hits EXCEPT ![current] = 0]
  /\ UNCHANGED <<tasks, current, prio, waiting, call, wakeevents, lastWakeId,
                 spawned, panic>>

IrqCheck ==
  /\ InUserMode
  /\ hits[current] > 0
  /\ hits' = [hits EXCEPT ![current] = @ - 1]
  /\ UNCHANGED <<tasks, current, prio, waiting, call, listen, wakeevents,
                 lastWakeId, spawned, panic>>

Defer ==
  /\ InUserMode
  /\ ReturnToNextTask(waiting, call, hits, wakeevents, lastWakeId)
  /\ UNCHANGED <<tasks, listen, spawned>>

\* sysexit: the next task is chosen while the caller is still on the list.
Sysexit ==
  /\ InUserMode
  /\ ReturnToNextTask(waiting, call, hits, wakeevents, lastWakeId)
  /\ tasks' = Unlink(tasks, current)
  /\ UNCHANGED <<listen, spawned>>

\* isr_handler, when the current task's exception has no handler.  The rest of
\* it is Sysexit's, but it does not mind which task it gets.
KillOnException ==
  /\ InUserMode
  /\ Cycle(waiting, call, hits, wakeevents, lastWakeId)
  /\ tasks' = Unlink(tasks, current)
  /\ UNCHANGED <<listen, spawned>>

\* beginExecution puts a spawned task in front of the list.
BeginExecution(t) ==
  /\ InUserMode
  /\ t \in spawned
  /\ tasks' = <<t>> \o tasks
  /\ spawned' = spawned \ {t}
  /\ UNCHANGED <<current, prio, waiting, call, listen, hits, wakeevents,
                 lastWakeId, panic>>

\* AkariHalt: a stopped machine stays as it is.
Halted == panic # "no" /\ UNCHANGED vars

Next ==
  \/ TimerTick
  \/ \E irq \in Irqs : Irq(irq)
  \/ \E us \in Timeouts : IrqWait(us)
  \/ \E us \in Sleeps : Nanosleep(us)
  \/ \E irq \in Irqs : IrqListen(irq)
  \/ IrqCheck
  \/ Defer
  \/ Sysexit
  \/ KillOnException
  \/ \E t \in spawned : BeginExecution(t)
  \/ Halted

\* The timer chip interrupts at a fixed rate, and user code and the idle task
\* run with interrupts on.
Spec == Init /\ [][Next]_vars /\ WF_vars(TimerTick)
=============================================================================
