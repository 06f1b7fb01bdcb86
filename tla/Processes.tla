----------------------------- MODULE Processes ------------------------------
(***************************************************************************)
(* Processes and how they find and await each other: spawn and             *)
(* beginExecution (UserProcess.cpp), names and waitProcess (UserIPC.cpp),  *)
(* sysexit (UserCalls.cpp) and the kill of a faulting process              *)
(* (interrupts.cpp).                                                       *)
(*                                                                         *)
(* One action is one kernel entry.  A process that is not waiting may be   *)
(* the next to run (the timer can switch at any moment): it makes a system *)
(* call or, if it was released from one, completes it.                     *)
(***************************************************************************)
EXTENDS Naturals, SequencesExt

CONSTANTS
  Tasks,
  Boot,         \* the processes running at boot
  Registrars,   \* those holding PRIV_REGISTER_NAME
  Faulty,       \* those whose exceptions nobody handles
  Names

ASSUME ProcessesAssumption ==
  Boot \subseteq Tasks /\ Registrars \subseteq Tasks /\ Faulty \subseteq Tasks

VARIABLES
  alive,        \* the tasks on the list at Tasks::start
  born,         \* the processes that were ever created
  created,      \* those of them whose beginExecution is to come
  registered,   \* Tasks::registeredTasks, in the order of its map's list
  waiting,      \* Task::userWaiting
  call,         \* Task::userCall
  panic,        \* "no", or what stopped the machine
  renamed       \* history: those that were given a second name

vars == <<alive, born, created, registered, waiting, call, panic, renamed>>

NoCall == [kind |-> "none"]
ProcessIdByNameCall(n) == [kind |-> "name", name |-> n]
WaitProcessCall(p) == [kind |-> "wait", pid |-> p]

Init ==
  /\ alive = Boot
  /\ born = Boot
  /\ created = {}
  /\ registered = <<>>
  /\ waiting = [t \in Tasks |-> FALSE]
  /\ call = [t \in Tasks |-> NoCall]
  /\ panic = "no"
  /\ renamed = {}

InUserMode(t) ==
  panic = "no" /\ t \in alive /\ ~waiting[t] /\ call[t] = NoCall

Has(q, n) == \E i \in DOMAIN q : q[i].name = n
IsRegistered(n) == Has(registered, n)

\* BlockingCall::operator () of the two calls: whether the call blocks.
Blocks(c) == CASE c.kind = "name" -> ~IsRegistered(c.name)
               [] c.kind = "wait" -> c.pid \in alive
               [] OTHER           -> FALSE

-----------------------------------------------------------------------------
\* Mutant of FreshPid: the pid of a process that ended is given again.
ReusedPid(p) == p \notin alive \cup created

\* The constructor of Task counts lastAssignedId up: no pid is given twice.
FreshPid(p) == p \notin born

Spawn(t, p) ==
  /\ InUserMode(t)
  /\ FreshPid(p)
  /\ born' = born \cup {p}
  /\ created' = created \cup {p}
  /\ UNCHANGED <<alive, registered, waiting, call, panic, renamed>>

\* Mutant of BeginExecution: the process may be begun again.
BeginAgain(t, p) ==
  /\ InUserMode(t)
  /\ p \in created
  /\ alive' = alive \cup {p}
  /\ UNCHANGED <<born, created, registered, waiting, call, panic, renamed>>

\* The code does not check that p has not begun; the library's bootstrap, its
\* only caller, begins each process it spawns once.
BeginExecution(t, p) ==
  /\ InUserMode(t)
  /\ p \in created
  /\ created' = created \ {p}
  /\ alive' = alive \cup {p}
  /\ UNCHANGED <<born, registered, waiting, call, panic, renamed>>

\* processIdByNameBlock and waitProcess; a call that does not block returns at
\* once and changes nothing.
Block(t, c) ==
  /\ InUserMode(t)
  /\ Blocks(c)
  /\ waiting' = [waiting EXCEPT ![t] = TRUE]
  /\ call' = [call EXCEPT ![t] = c]
  /\ UNCHANGED <<born, alive, created, registered, panic, renamed>>

\* assignInternalTask resumes t: the call is evaluated again and must complete.
Resume(t) ==
  /\ panic = "no" /\ t \in alive /\ ~waiting[t] /\ call[t] # NoCall
  /\ call' = [call EXCEPT ![t] = NoCall]
  /\ panic' = IF Blocks(call[t]) THEN call[t].kind ELSE "no"
  /\ UNCHANGED <<born, alive, created, registered, waiting, renamed>>

\* Mutant of ExitWaiters: nobody is released.
ExitReleasesNone(t) == {}

\* sysexit and isr_handler release the tasks that wait for t.
ExitWaiters(t) == {x \in alive \ {t} : waiting[x] /\ call[x] = WaitProcessCall(t)}

Leave(t) ==
  /\ waiting' = [x \in Tasks |-> waiting[x] /\ x \notin ExitWaiters(t)]
  /\ alive' = alive \ {t}
  /\ UNCHANGED <<born, created, call, panic>>

\* Mutant of WithoutFirstName: the name stays.
WithAllNames(t) == registered

\* sysexit erases the first name it finds registered for t.
WithoutFirstName(t) == RemoveFirstMatch(registered, LAMBDA r : r.task = t)

Sysexit(t) ==
  /\ InUserMode(t)
  /\ registered' = WithoutFirstName(t)
  /\ Leave(t)
  /\ UNCHANGED renamed

\* isr_handler kills the running task when its exception has no handler.
KillOnException(t) ==
  /\ InUserMode(t) /\ t \in Faulty
  /\ Leave(t)
  /\ UNCHANGED <<registered, renamed>>

\* Mutant of NamedWaiters: nobody is told.
NoWaiters(n) == {}

\* registerName releases the tasks that wait for the name.
NamedWaiters(n) == {t \in alive : waiting[t] /\ call[t] = ProcessIdByNameCall(n)}

\* q, and the tasks named in it, after p got the name.
Registered(q, n, p) == Append(q, [name |-> n, task |-> p])
Renamed(q, p) == IF \E i \in DOMAIN q : q[i].task = p THEN renamed \cup {p} ELSE renamed

\* Where the name is taken or the process is not on the list, registerName
\* returns false and changes nothing.  Task::registeredName, which only
\* listings of processes show, is left out.
RegisterName(t, p, n) ==
  /\ InUserMode(t) /\ t \in Registrars
  /\ ~IsRegistered(n)
  /\ p \in alive
  /\ registered' = Registered(registered, n, p)
  /\ renamed' = Renamed(registered, p)
  /\ waiting' = [x \in Tasks |-> waiting[x] /\ x \notin NamedWaiters(n)]
  /\ UNCHANGED <<born, alive, created, call, panic>>

\* Without its privilege the caller ends: panic calls sysexit, which takes it off
\* the list, and returns.  The rest of registerName is then carried out.
RefusedRegisterName(t, p, n) ==
  /\ InUserMode(t) /\ t \notin Registrars
  /\ ~Has(WithoutFirstName(t), n)
  /\ p \in alive \ {t}
  /\ registered' = Registered(WithoutFirstName(t), n, p)
  /\ renamed' = Renamed(WithoutFirstName(t), p)
  /\ alive' = alive \ {t}
  /\ waiting' = [x \in Tasks |-> waiting[x] /\ x \notin ExitWaiters(t) \cup NamedWaiters(n)]
  /\ UNCHANGED <<born, created, call, panic>>

Next ==
  \E t \in Tasks :
    \/ \E p \in Tasks :
         \/ Spawn(t, p)
         \/ BeginExecution(t, p)
         \/ Block(t, WaitProcessCall(p))
         \/ \E n \in Names : RegisterName(t, p, n) \/ RefusedRegisterName(t, p, n)
    \/ \E n \in Names : Block(t, ProcessIdByNameCall(n))
    \/ Resume(t)
    \/ Sysexit(t)
    \/ KillOnException(t)

\* A task that can run is switched to (see RunnableTasksRun of Scheduler).
Spec == Init /\ [][Next]_vars /\ \A t \in Tasks : WF_vars(Resume(t))

-----------------------------------------------------------------------------
(* Properties.                                                             *)

Calls == {NoCall} \cup {ProcessIdByNameCall(n) : n \in Names}
                  \cup {WaitProcessCall(p) : p \in Tasks}

NamesDiffer(q) == \A i, j \in DOMAIN q : q[i].name = q[j].name => i = j

\* Type invariant: in registered, a map, each name has one task.
TypeOK ==
  /\ born \subseteq Tasks /\ alive \subseteq born /\ created \subseteq born \ alive
  /\ registered \in Seq([name : Names, task : Tasks])
  /\ NamesDiffer(registered)
  /\ waiting \in [Tasks -> BOOLEAN]
  /\ call \in [Tasks -> Calls]
  /\ panic \in {"no", "name", "wait"}
  /\ renamed \subseteq Tasks

\* A name leads to a live process, so that nobody is sent to a dead one, but for
\* the names of killed processes, which the kill of isr_handler, half-copied from
\* sysexit, leaves, and the further names of a process that had several, of which
\* sysexit erases one: a process ended in the middle of registerName leaves none.
OnlyKillsLeaveNames ==
  \A i \in DOMAIN registered : registered[i].task \in alive \cup Faulty \cup renamed

\* A process that waits for another to end waits for one that still runs; one
\* that waits for a name waits for a name nobody has.
NoWaitInVain ==
  \A t \in Tasks : waiting[t] => t \in alive /\ Blocks(call[t])

\* ASSERT(!shallBlock) of assignInternalTask (Tasks.cpp:164), for waitProcess:
\* a process that ended is not found running by those released for its end.
ResumedWaitsComplete == panic # "wait"

\* A process released from a wait for another, which has begun, finds it gone;
\* no pid is used again, so it stays gone.
ReleasedWaitsAreOver ==
  \A t \in Tasks : call[t].kind = "wait" =>
    /\ call[t].pid \in born \ created
    /\ ~waiting[t] => call[t].pid \notin alive

\* Inductive invariant.
ProcessesInv ==
  TypeOK /\ NoWaitInVain /\ ReleasedWaitsAreOver /\ ResumedWaitsComplete

\* The same ASSERT, for every call.
ResumedCallsComplete == panic = "no"

\* Whoever waits for a process that ends, or for a name that gets registered,
\* gets its answer.
WaitersAreTold ==
  \A t \in Tasks :
    (call[t] # NoCall /\ ~Blocks(call[t])) ~> (call[t] = NoCall \/ panic # "no")
=============================================================================
