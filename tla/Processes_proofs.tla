-------------------------- MODULE Processes_proofs --------------------------
(***************************************************************************)
(* Nobody waits in vain, a released waitProcess completes, and names lead  *)
(* to live processes: for any processes, names and privileges, faults and  *)
(* refused calls included.                                                 *)
(*                                                                         *)
(* A process is released from waitProcess when the other one leaves the    *)
(* task list.  It resumes later, so the argument needs that the other one  *)
(* cannot come back in between: it has been begun (waitProcess blocks only *)
(* for processes on the list), and its pid is not given again.             *)
(***************************************************************************)
EXTENDS Processes, SequenceLemmas

\* Erasing a name keeps the others, and adds none; where the task has another
\* name left, it had two.
LEMMA WithoutFirstNameKeeps ==
  ASSUME NEW R, registered \in Seq(R), NEW t
  PROVE  /\ WithoutFirstName(t) \in Seq(R)
         /\ \E g \in [DOMAIN WithoutFirstName(t) -> DOMAIN registered] :
              /\ \A i \in DOMAIN WithoutFirstName(t) : WithoutFirstName(t)[i] = registered[g[i]]
              /\ \A i, j \in DOMAIN WithoutFirstName(t) : i # j => g[i] # g[j]
              /\ \A i \in DOMAIN WithoutFirstName(t) : registered[g[i]].task = t =>
                   \E k \in DOMAIN registered : k # g[i] /\ registered[k].task = t
<1> DEFINE I == {i \in 1 .. Len(registered) : registered[i].task = t}
           k == CHOOSE x \in I : \A y \in I : x =< y
<1>1. CASE I = {}
  <2>1. WithoutFirstName(t) = registered
    BY <1>1 DEF WithoutFirstName, RemoveFirstMatch
  <2> DEFINE g == [i \in DOMAIN registered |-> i]
  <2>2. \A i \in DOMAIN registered : registered[i].task # t
    BY <1>1
  <2>3. g \in [DOMAIN registered -> DOMAIN registered] /\ \A i \in DOMAIN registered : g[i] = i
    OBVIOUS
  <2> HIDE DEF g
  <2> QED BY <2>1, <2>2, <2>3
<1>2. CASE I # {}
  <2>1. WithoutFirstName(t) = RemoveAt(registered, k)
    BY <1>2 DEF WithoutFirstName, RemoveFirstMatch, SelectInSeq, Min
  <2>2. PICK m \in I : \A j \in I : m <= j
    <3>1. I \subseteq Nat
      OBVIOUS
    <3> HIDE DEF I
    <3> QED BY <1>2, <3>1, LeastElement
  <2>3. k \in 1 .. Len(registered) /\ registered[k].task = t
    BY <2>2
  <2> HIDE DEF I, k
  <2> DEFINE u == RemoveAt(registered, k)
  <2>4. u \in Seq(R)
    BY <2>3, RemoveAtRemoves
  <2>5. PICK g \in [DOMAIN u -> DOMAIN registered] :
          /\ \A i \in DOMAIN u : u[i] = registered[g[i]] /\ g[i] # k
          /\ \A i, j \in DOMAIN u : i < j => g[i] < g[j]
    BY <2>3, RemoveAtKeepsOrder
  <2>6. DOMAIN u = 1 .. Len(u) /\ Len(u) \in Nat /\ DOMAIN registered = 1 .. Len(registered)
    BY <2>4
  <2> HIDE DEF u
  <2>7. \A i, j \in DOMAIN u : i # j => g[i] # g[j]
    <3> SUFFICES ASSUME NEW i \in DOMAIN u, NEW j \in DOMAIN u, i # j
                 PROVE  g[i] # g[j]
      OBVIOUS
    <3>1. i \in Nat /\ j \in Nat /\ g[i] \in Nat /\ g[j] \in Nat
      BY <2>6
    <3> QED BY <2>5, <3>1
  <2>8. k \in DOMAIN registered
    BY <2>3, <2>6
  <2>9. \A i \in DOMAIN u : registered[g[i]].task = t =>
          \E j \in DOMAIN registered : j # g[i] /\ registered[j].task = t
    BY <2>3, <2>5, <2>8
  <2>10. u = WithoutFirstName(t)
    BY <2>1 DEF u
  <2> QED BY <2>4, <2>5, <2>7, <2>9, <2>10
<1> QED BY <1>1, <1>2

\* So it keeps what is true of every name, and names that differ.
LEMMA WithoutFirstNameIsAMap ==
  ASSUME NEW R, registered \in Seq(R), NamesDiffer(registered), NEW t
  PROVE  /\ WithoutFirstName(t) \in Seq(R)
         /\ NamesDiffer(WithoutFirstName(t))
         /\ \A i \in DOMAIN WithoutFirstName(t) :
              \E j \in DOMAIN registered : WithoutFirstName(t)[i] = registered[j]
<1> DEFINE u == WithoutFirstName(t)
<1>1. PICK g \in [DOMAIN u -> DOMAIN registered] :
        /\ \A i \in DOMAIN u : u[i] = registered[g[i]]
        /\ \A i, j \in DOMAIN u : i # j => g[i] # g[j]
  BY WithoutFirstNameKeeps
<1>2. u \in Seq(R)
  BY WithoutFirstNameKeeps
<1> HIDE DEF u
<1>3. NamesDiffer(u)
  BY <1>1 DEF NamesDiffer
<1>4. u = WithoutFirstName(t)
  BY DEF u
<1> QED BY <1>1, <1>2, <1>3, <1>4

-----------------------------------------------------------------------------
LEMMA InitInv == Init => ProcessesInv
<1> SUFFICES ASSUME Init PROVE ProcessesInv
  OBVIOUS
<1>1. TypeOK
  BY ProcessesAssumption DEF Init, TypeOK, Calls, NamesDiffer
<1>2. NoWaitInVain /\ ReleasedWaitsAreOver /\ ResumedWaitsComplete
  BY DEF Init, NoWaitInVain, ReleasedWaitsAreOver, ResumedWaitsComplete, NoCall
<1> QED BY <1>1, <1>2 DEF ProcessesInv

\* Spawning touches nothing that anybody waits for.
LEMMA SpawnKeepsInv ==
  ASSUME ProcessesInv, NEW t \in Tasks, NEW p \in Tasks, Spawn(t, p)
  PROVE  ProcessesInv'
<1> USE DEF ProcessesInv
<1>1. TypeOK'
  BY DEF Spawn, FreshPid, TypeOK, Calls
<1>2. NoWaitInVain'
  BY DEF Spawn, NoWaitInVain, Blocks, IsRegistered, Has
<1>3. ReleasedWaitsAreOver'
  BY DEF Spawn, FreshPid, ReleasedWaitsAreOver, TypeOK
<1>4. ResumedWaitsComplete'
  BY DEF Spawn, ResumedWaitsComplete
<1> QED BY <1>1, <1>2, <1>3, <1>4

\* A process that begins is none that anybody was released for.
LEMMA BeginExecutionKeepsInv ==
  ASSUME ProcessesInv, NEW t \in Tasks, NEW p \in Tasks, BeginExecution(t, p)
  PROVE  ProcessesInv'
<1> USE DEF ProcessesInv
<1>1. TypeOK'
  BY DEF BeginExecution, TypeOK, Calls
<1>2. NoWaitInVain'
  BY DEF BeginExecution, NoWaitInVain, Blocks, IsRegistered, Has
<1>3. ReleasedWaitsAreOver'
  BY DEF BeginExecution, ReleasedWaitsAreOver, TypeOK
<1>4. ResumedWaitsComplete'
  BY DEF BeginExecution, ResumedWaitsComplete
<1> QED BY <1>1, <1>2, <1>3, <1>4

\* A name that nobody has is added to the map.
LEMMA RegisteredIsAMap ==
  ASSUME NEW q \in Seq([name : Names, task : Tasks]), NamesDiffer(q),
         NEW n \in Names, NEW p \in Tasks, ~Has(q, n)
  PROVE  /\ Registered(q, n, p) \in Seq([name : Names, task : Tasks])
         /\ NamesDiffer(Registered(q, n, p))
         /\ \A m : Has(Registered(q, n, p), m) => Has(q, m) \/ m = n
<1> DEFINE r == [name |-> n, task |-> p]
           u == Append(q, r)
<1>1. r \in [name : Names, task : Tasks] /\ r.name = n
  OBVIOUS
<1> HIDE DEF r
<1>2. /\ u \in Seq([name : Names, task : Tasks])
      /\ DOMAIN u = DOMAIN q \cup {Len(q) + 1}
      /\ \A i \in DOMAIN q : u[i] = q[i]
      /\ u[Len(q) + 1] = r
  BY <1>1
<1>3. u = Registered(q, n, p)
  BY DEF Registered, r
<1> HIDE DEF u
<1>4. NamesDiffer(u)
  BY <1>1, <1>2 DEF NamesDiffer, Has
<1>5. \A m : Has(u, m) => Has(q, m) \/ m = n
  BY <1>1, <1>2 DEF Has
<1> QED BY <1>2, <1>3, <1>4, <1>5

\* What the steps have in common that release processes: they release those that
\* their change makes wait in vain, and none that waits for one still there.
LEMMA ReleaseKeepsInv ==
  ASSUME ProcessesInv, NEW R,
         alive' \subseteq alive, UNCHANGED <<born, created, call, panic>>,
         waiting' = [x \in Tasks |-> waiting[x] /\ x \notin R],
         registered' \in Seq([name : Names, task : Tasks]), NamesDiffer(registered'),
         renamed' \subseteq Tasks,
         \A x \in Tasks : waiting[x] /\ x \notin R => x \in alive' /\ Blocks(call[x])',
         \A x \in R : call[x].kind = "wait" => call[x].pid \notin alive'
  PROVE  ProcessesInv'
<1> USE DEF ProcessesInv
<1>1. TypeOK'
  BY DEF TypeOK
<1>2. NoWaitInVain'
  BY DEF NoWaitInVain
<1>3. ReleasedWaitsAreOver'
  <2> SUFFICES ASSUME NEW x \in Tasks, call'[x].kind = "wait"
               PROVE  /\ call'[x].pid \in born' \ created'
                      /\ ~waiting'[x] => call'[x].pid \notin alive'
    BY DEF ReleasedWaitsAreOver
  <2>1. /\ call'[x] = call[x] /\ call[x].pid \in born \ created
        /\ ~waiting[x] => call[x].pid \notin alive
    BY DEF ReleasedWaitsAreOver
  <2>2. CASE x \in R
    BY <2>1, <2>2
  <2>3. CASE x \notin R
    <3>1. waiting'[x] = (waiting[x] /\ x \notin R)
      OBVIOUS
    <3>2. ~waiting'[x] => ~waiting[x]
      BY <2>3, <3>1
    <3> QED BY <2>1, <3>2
  <2> QED BY <2>2, <2>3
<1>4. ResumedWaitsComplete'
  BY DEF ResumedWaitsComplete
<1> QED BY <1>1, <1>2, <1>3, <1>4

\* Whoever waits for a name that is registered, or for a process that leaves, is
\* released; others wait on.
LEMMA OthersWaitOn ==
  ASSUME ProcessesInv, NEW x \in Tasks, waiting[x], NEW E \in SUBSET Tasks, NEW N \in SUBSET Names,
         alive' = alive \ E, UNCHANGED call, x \notin E,
         \A m : IsRegistered(m)' => IsRegistered(m) \/ m \in N,
         \A t \in E : x \notin ExitWaiters(t),
         \A n \in N : x \notin NamedWaiters(n)
  PROVE  x \in alive' /\ Blocks(call[x])'
<1>1. x \in alive /\ Blocks(call[x]) /\ call[x] \in Calls /\ call'[x] = call[x]
  BY DEF ProcessesInv, TypeOK, NoWaitInVain
<1>2. CASE call[x].kind = "wait"
  <2>1. ASSUME NEW t \in E PROVE call[x].pid # t
    <3>1. call[x] # WaitProcessCall(t)
      BY <1>1 DEF ExitWaiters
    <3> QED BY <1>1, <1>2, <3>1 DEF Calls, NoCall, ProcessIdByNameCall, WaitProcessCall
  <2> QED BY <1>1, <1>2, <2>1 DEF Blocks
<1>3. CASE call[x].kind = "name"
  <2>1. ASSUME NEW n \in N PROVE call[x].name # n
    <3>1. call[x] # ProcessIdByNameCall(n)
      BY <1>1 DEF NamedWaiters
    <3> QED BY <1>1, <1>3, <3>1 DEF Calls, NoCall, ProcessIdByNameCall, WaitProcessCall
  <2> QED BY <1>1, <1>3, <2>1 DEF Blocks
<1>4. CASE call[x].kind \notin {"wait", "name"}
  BY <1>1, <1>4 DEF Blocks
<1> QED BY <1>2, <1>3, <1>4

LEMMA RegisterNameKeepsInv ==
  ASSUME ProcessesInv, NEW t \in Tasks, NEW p \in Tasks, NEW n \in Names,
         RegisterName(t, p, n)
  PROVE  ProcessesInv'
<1>1. /\ registered' = Registered(registered, n, p) /\ ~Has(registered, n)
      /\ registered \in Seq([name : Names, task : Tasks]) /\ NamesDiffer(registered)
      /\ waiting' = [x \in Tasks |-> waiting[x] /\ x \notin NamedWaiters(n)]
      /\ UNCHANGED <<born, alive, created, call, panic>>
      /\ renamed' \subseteq Tasks
  BY DEF RegisterName, Renamed, ProcessesInv, TypeOK, IsRegistered
<1>2. /\ registered' \in Seq([name : Names, task : Tasks]) /\ NamesDiffer(registered')
      /\ \A m : Has(registered', m) => Has(registered, m) \/ m = n
  BY <1>1, RegisteredIsAMap
<1>3. \A x \in Tasks : waiting[x] /\ x \notin NamedWaiters(n) =>
        x \in alive' /\ Blocks(call[x])'
  <2> SUFFICES ASSUME NEW x \in Tasks, waiting[x], x \notin NamedWaiters(n)
               PROVE  x \in alive' /\ Blocks(call[x])'
    OBVIOUS
  <2>1. \A m : IsRegistered(m)' => IsRegistered(m) \/ m \in {n}
    BY <1>2 DEF IsRegistered
  <2>2. alive' = alive \ {} /\ UNCHANGED call
    BY <1>1
  <2>3. {} \in SUBSET Tasks /\ {n} \in SUBSET Names /\ x \notin {}
        /\ (\A m \in {} : x \notin ExitWaiters(m)) /\ \A m \in {n} : x \notin NamedWaiters(m)
    OBVIOUS
  <2> QED BY <2>1, <2>2, <2>3, OthersWaitOn
<1>4. \A x \in NamedWaiters(n) : call[x].kind = "wait" => call[x].pid \notin alive'
  BY DEF NamedWaiters, ProcessIdByNameCall
<1> QED BY <1>1, <1>2, <1>3, <1>4, ReleaseKeepsInv

\* A call that blocks does so for something that is not there yet.
LEMMA BlockKeepsInv ==
  ASSUME ProcessesInv, NEW t \in Tasks, NEW c \in Calls, Block(t, c)
  PROVE  ProcessesInv'
<1> USE DEF ProcessesInv
<1>1. TypeOK'
  BY DEF Block, TypeOK
<1>2. /\ waiting' = [waiting EXCEPT ![t] = TRUE]
      /\ call' = [call EXCEPT ![t] = c]
      /\ UNCHANGED <<born, alive, created, registered, panic>>
      /\ t \in alive /\ Blocks(c)
      /\ waiting \in [Tasks -> BOOLEAN] /\ call \in [Tasks -> Calls]
      /\ alive \subseteq born /\ created \subseteq born \ alive
  BY DEF Block, InUserMode, TypeOK
<1>3. NoWaitInVain'
  BY <1>2 DEF NoWaitInVain, Blocks, IsRegistered, Has
<1>4. ReleasedWaitsAreOver'
  BY <1>2 DEF ReleasedWaitsAreOver, Blocks
<1>5. ResumedWaitsComplete'
  BY <1>2 DEF ResumedWaitsComplete
<1> QED BY <1>1, <1>3, <1>4, <1>5

\* The process a resumed waitProcess asks for is gone.
LEMMA ResumeKeepsInv ==
  ASSUME ProcessesInv, NEW t \in Tasks, Resume(t)
  PROVE  ProcessesInv'
<1> USE DEF ProcessesInv
<1>1. /\ call' = [call EXCEPT ![t] = NoCall]
      /\ panic' = IF Blocks(call[t]) THEN call[t].kind ELSE "no"
      /\ UNCHANGED <<born, alive, created, registered, waiting, renamed>>
      /\ ~waiting[t]
      /\ waiting \in [Tasks -> BOOLEAN] /\ call \in [Tasks -> Calls]
  BY DEF Resume, TypeOK
<1>2. call[t].kind = "wait" => ~Blocks(call[t])
  BY <1>1 DEF ReleasedWaitsAreOver, Blocks
<1>3. panic' \in {"no", "name"}
  BY <1>1, <1>2 DEF Blocks
<1>4. TypeOK'
  BY <1>1, <1>3 DEF TypeOK, Calls
<1>5. NoWaitInVain'
  BY <1>1 DEF NoWaitInVain, Blocks, IsRegistered, Has
<1>6. ReleasedWaitsAreOver'
  BY <1>1 DEF ReleasedWaitsAreOver, NoCall
<1>7. ResumedWaitsComplete'
  BY <1>3 DEF ResumedWaitsComplete
<1> QED BY <1>4, <1>5, <1>6, <1>7

\* No name is added when a process leaves.
LEMMA LeaveKeepsInv ==
  ASSUME ProcessesInv, NEW t \in Tasks, InUserMode(t), Leave(t), UNCHANGED renamed,
         registered' \in Seq([name : Names, task : Tasks]), NamesDiffer(registered'),
         \A n : IsRegistered(n)' => IsRegistered(n)
  PROVE  ProcessesInv'
<1>1. /\ waiting' = [x \in Tasks |-> waiting[x] /\ x \notin ExitWaiters(t)]
      /\ alive' = alive \ {t}
      /\ UNCHANGED <<born, created, call, panic>>
      /\ ~waiting[t] /\ renamed' \subseteq Tasks
  BY DEF Leave, InUserMode, ProcessesInv, TypeOK
<1>2. \A x \in Tasks : waiting[x] /\ x \notin ExitWaiters(t) =>
        x \in alive' /\ Blocks(call[x])'
  <2> SUFFICES ASSUME NEW x \in Tasks, waiting[x], x \notin ExitWaiters(t)
               PROVE  x \in alive' /\ Blocks(call[x])'
    OBVIOUS
  <2>1. \A m : IsRegistered(m)' => IsRegistered(m) \/ m \in {}
    OBVIOUS
  <2>2. x \notin {t} /\ alive' = alive \ {t} /\ UNCHANGED call
    BY <1>1
  <2>3. {t} \in SUBSET Tasks /\ {} \in SUBSET Names
        /\ (\A m \in {t} : x \notin ExitWaiters(m)) /\ \A m \in {} : x \notin NamedWaiters(m)
    OBVIOUS
  <2> QED BY <2>1, <2>2, <2>3, OthersWaitOn
<1>3. \A x \in ExitWaiters(t) : call[x].kind = "wait" => call[x].pid \notin alive'
  BY <1>1 DEF ExitWaiters, WaitProcessCall
<1> QED BY <1>1, <1>2, <1>3, ReleaseKeepsInv

\* The process leaves, and the name is registered all the same.
LEMMA RefusedRegisterNameKeepsInv ==
  ASSUME ProcessesInv, NEW t \in Tasks, NEW p \in Tasks, NEW n \in Names,
         RefusedRegisterName(t, p, n)
  PROVE  ProcessesInv'
<1> DEFINE R == ExitWaiters(t) \cup NamedWaiters(n)
<1>1. /\ registered' = Registered(WithoutFirstName(t), n, p) /\ ~Has(WithoutFirstName(t), n)
      /\ registered \in Seq([name : Names, task : Tasks]) /\ NamesDiffer(registered)
      /\ waiting' = [x \in Tasks |-> waiting[x] /\ x \notin R]
      /\ alive' = alive \ {t} /\ ~waiting[t]
      /\ UNCHANGED <<born, created, call, panic>>
      /\ renamed' \subseteq Tasks
  BY DEF RefusedRegisterName, InUserMode, Renamed, ProcessesInv, TypeOK
<1>2. /\ WithoutFirstName(t) \in Seq([name : Names, task : Tasks])
      /\ NamesDiffer(WithoutFirstName(t))
      /\ \A i \in DOMAIN WithoutFirstName(t) :
           \E j \in DOMAIN registered : WithoutFirstName(t)[i] = registered[j]
  BY <1>1, WithoutFirstNameIsAMap
<1>3. /\ registered' \in Seq([name : Names, task : Tasks]) /\ NamesDiffer(registered')
      /\ \A m : Has(registered', m) => Has(WithoutFirstName(t), m) \/ m = n
  BY <1>1, <1>2, RegisteredIsAMap
<1>4. \A m : IsRegistered(m)' => IsRegistered(m) \/ m \in {n}
  BY <1>2, <1>3, ZenonT(40) DEF IsRegistered, Has
<1>5. \A x \in Tasks : waiting[x] /\ x \notin R => x \in alive' /\ Blocks(call[x])'
  <2> SUFFICES ASSUME NEW x \in Tasks, waiting[x], x \notin R
               PROVE  x \in alive' /\ Blocks(call[x])'
    OBVIOUS
  <2>1. x \notin {t}
    BY <1>1
  <2> QED BY <1>1, <1>4, <2>1, OthersWaitOn
<1>6. \A x \in R : call[x].kind = "wait" => call[x].pid \notin alive'
  BY <1>1 DEF ExitWaiters, NamedWaiters, WaitProcessCall, ProcessIdByNameCall
<1> HIDE DEF R
<1> QED BY <1>1, <1>3, <1>5, <1>6, ReleaseKeepsInv

LEMMA SysexitKeepsInv ==
  ASSUME ProcessesInv, NEW t \in Tasks, Sysexit(t)
  PROVE  ProcessesInv'
<1>1. /\ registered \in Seq([name : Names, task : Tasks])
      /\ NamesDiffer(registered)
      /\ registered' = WithoutFirstName(t)
      /\ InUserMode(t) /\ Leave(t) /\ UNCHANGED renamed
  BY DEF ProcessesInv, TypeOK, Sysexit
<1>2. /\ registered' \in Seq([name : Names, task : Tasks])
      /\ NamesDiffer(registered')
      /\ \A i \in DOMAIN registered' :
           \E j \in DOMAIN registered : registered'[i] = registered[j]
  BY <1>1, WithoutFirstNameIsAMap
<1>3. \A n : IsRegistered(n)' => IsRegistered(n)
  BY <1>2 DEF IsRegistered, Has
<1> QED BY <1>1, <1>2, <1>3, LeaveKeepsInv

LEMMA KillKeepsInv ==
  ASSUME ProcessesInv, NEW t \in Tasks, KillOnException(t)
  PROVE  ProcessesInv'
<1>1. /\ registered \in Seq([name : Names, task : Tasks])
      /\ NamesDiffer(registered)
      /\ registered' = registered
      /\ InUserMode(t) /\ Leave(t) /\ UNCHANGED renamed
  BY DEF ProcessesInv, TypeOK, KillOnException
<1>2. \A n : IsRegistered(n)' => IsRegistered(n)
  BY <1>1 DEF IsRegistered
<1>3. registered' \in Seq([name : Names, task : Tasks]) /\ NamesDiffer(registered')
  BY <1>1
<1> QED BY <1>1, <1>2, <1>3, LeaveKeepsInv

LEMMA StutterKeepsInv ==
  ASSUME ProcessesInv, UNCHANGED vars
  PROVE  ProcessesInv'
  BY DEF ProcessesInv, vars, TypeOK, NoWaitInVain, ReleasedWaitsAreOver,
         ResumedWaitsComplete, Blocks, IsRegistered, Has

\* The inductive invariant: every kernel entry keeps it.
THEOREM ProcessesKeepInv == Spec => []ProcessesInv
<1>1. Init => ProcessesInv
  BY InitInv
<1>2. ProcessesInv /\ [Next]_vars => ProcessesInv'
  <2> SUFFICES ASSUME ProcessesInv, [Next]_vars PROVE ProcessesInv'
    OBVIOUS
  <2>1. ASSUME NEW t \in Tasks, NEW p \in Tasks,
               \/ Spawn(t, p) \/ BeginExecution(t, p)
               \/ \E n \in Names : RegisterName(t, p, n) \/ RefusedRegisterName(t, p, n)
        PROVE  ProcessesInv'
    BY <2>1, SpawnKeepsInv, BeginExecutionKeepsInv, RegisterNameKeepsInv,
       RefusedRegisterNameKeepsInv
  <2>2. ASSUME NEW t \in Tasks, NEW p \in Tasks, Block(t, WaitProcessCall(p))
        PROVE  ProcessesInv'
    <3>1. WaitProcessCall(p) \in Calls
      BY DEF Calls
    <3> QED BY <2>2, <3>1, BlockKeepsInv
  <2>3. ASSUME NEW t \in Tasks, NEW n \in Names, Block(t, ProcessIdByNameCall(n))
        PROVE  ProcessesInv'
    <3>1. ProcessIdByNameCall(n) \in Calls
      BY DEF Calls
    <3> QED BY <2>3, <3>1, BlockKeepsInv
  <2>4. ASSUME NEW t \in Tasks, Resume(t) \/ Sysexit(t) \/ KillOnException(t)
        PROVE  ProcessesInv'
    BY <2>4, ResumeKeepsInv, SysexitKeepsInv, KillKeepsInv
  <2> QED BY <2>1, <2>2, <2>3, <2>4, StutterKeepsInv DEF Next
<1> QED BY <1>1, <1>2, PTL DEF Spec

\* Type correctness of the process model.
THEOREM ProcessesAreTyped == Spec => []TypeOK
<1>1. ProcessesInv => TypeOK
  BY DEF ProcessesInv
<1> QED BY <1>1, ProcessesKeepInv, PTL

\* Nobody waits for a process that has left or for a name that is registered:
\* registerName, sysexit and the kill of a faulting process release them all.
THEOREM NobodyWaitsInVain == Spec => []NoWaitInVain
<1>1. ProcessesInv => NoWaitInVain
  BY DEF ProcessesInv
<1> QED BY <1>1, ProcessesKeepInv, PTL

\* ASSERT(!shallBlock) of assignInternalTask holds for waitProcess: the process
\* waited for is gone when its waiter resumes, however late.
THEOREM WaitsComplete == Spec => []ResumedWaitsComplete
<1>1. ProcessesInv => ResumedWaitsComplete
  BY DEF ProcessesInv
<1> QED BY <1>1, ProcessesKeepInv, PTL

-----------------------------------------------------------------------------
\* Whoever has two names is in renamed.
NamedOnce(q) ==
  \A i, j \in DOMAIN q : i # j /\ q[i].task = q[j].task => q[i].task \in renamed

\* Inductive invariant of the names; the second part is OnlyKillsLeaveNames.
NamesInv == NamedOnce(registered) /\ OnlyKillsLeaveNames

\* sysexit leaves no name of a process that had one.
LEMMA ExitKeepsNames ==
  ASSUME NEW R, registered \in Seq(R), NamesInv, NEW t
  PROVE  /\ NamedOnce(WithoutFirstName(t))
         /\ \A i \in DOMAIN WithoutFirstName(t) :
              WithoutFirstName(t)[i].task \in (alive \ {t}) \cup Faulty \cup renamed
<1> DEFINE u == WithoutFirstName(t)
<1>1. PICK g \in [DOMAIN u -> DOMAIN registered] :
        /\ \A i \in DOMAIN u : u[i] = registered[g[i]]
        /\ \A i, j \in DOMAIN u : i # j => g[i] # g[j]
        /\ \A i \in DOMAIN u : registered[g[i]].task = t =>
             \E k \in DOMAIN registered : k # g[i] /\ registered[k].task = t
  BY WithoutFirstNameKeeps
<1> HIDE DEF u
<1>2. NamedOnce(u)
  BY <1>1 DEF NamesInv, NamedOnce
<1>3. ASSUME NEW i \in DOMAIN u
      PROVE  u[i].task \in (alive \ {t}) \cup Faulty \cup renamed
  <2>1. CASE u[i].task = t
    BY <1>1, <2>1 DEF NamesInv, NamedOnce
  <2>2. CASE u[i].task # t
    BY <1>1, <2>2 DEF NamesInv, OnlyKillsLeaveNames
  <2> QED BY <2>1, <2>2
<1> QED BY <1>2, <1>3 DEF u

\* A live process gets another name.
LEMMA RegisterKeepsNames ==
  ASSUME NEW q \in Seq([name : Names, task : Tasks]), NEW n \in Names, NEW p \in Tasks,
         NEW L, p \in L,
         NamedOnce(q), \A i \in DOMAIN q : q[i].task \in L \cup Faulty \cup renamed,
         registered' = Registered(q, n, p), renamed' = Renamed(q, p), alive' = L
  PROVE  NamesInv'
<1> DEFINE r == [name |-> n, task |-> p]
           u == Append(q, r)
<1>1. r \in [name : Names, task : Tasks] /\ r.task = p
  OBVIOUS
<1> HIDE DEF r
<1>2. /\ DOMAIN u = DOMAIN q \cup {Len(q) + 1}
      /\ \A i \in DOMAIN q : u[i] = q[i]
      /\ u[Len(q) + 1] = r
  BY <1>1
<1>3. u = registered'
  BY DEF Registered, r
<1> HIDE DEF u
<1>4. renamed \subseteq renamed' /\ ((\E i \in DOMAIN q : q[i].task = p) => p \in renamed')
  BY DEF Renamed
<1>5. NamedOnce(registered)'
  <2> SUFFICES ASSUME NEW i \in DOMAIN u, NEW j \in DOMAIN u, i # j, u[i].task = u[j].task
               PROVE  u[i].task \in renamed'
    BY <1>3 DEF NamedOnce
  <2>1. CASE i \in DOMAIN q /\ j \in DOMAIN q
    BY <1>2, <1>4, <2>1 DEF NamedOnce
  <2>2. CASE ~(i \in DOMAIN q /\ j \in DOMAIN q)
    BY <1>1, <1>2, <1>4, <2>2
  <2> QED BY <2>1, <2>2
<1>6. \A i \in DOMAIN u : u[i].task \in L \cup Faulty \cup renamed'
  BY <1>1, <1>2, <1>4
<1> QED BY <1>3, <1>5, <1>6 DEF NamesInv, OnlyKillsLeaveNames

\* Every step keeps the names right.
LEMMA NextKeepsNames ==
  ASSUME TypeOK, NamesInv, [Next]_vars
  PROVE  NamesInv'
<1>1. registered \in Seq([name : Names, task : Tasks])
  BY DEF TypeOK
<1>2. ASSUME UNCHANGED <<registered, renamed>>, alive \subseteq alive' \cup Faulty
      PROVE  NamesInv'
  BY <1>2 DEF NamesInv, NamedOnce, OnlyKillsLeaveNames
<1>3. ASSUME NEW t \in Tasks, NEW p \in Tasks,
             Spawn(t, p) \/ BeginExecution(t, p) \/ Block(t, WaitProcessCall(p))
      PROVE  NamesInv'
  BY <1>2, <1>3 DEF Spawn, BeginExecution, Block
<1>4. ASSUME NEW t \in Tasks, NEW p \in Tasks, NEW n \in Names, RegisterName(t, p, n)
      PROVE  NamesInv'
  <2>1. \A i \in DOMAIN registered : registered[i].task \in alive \cup Faulty \cup renamed
    BY DEF NamesInv, OnlyKillsLeaveNames
  <2>2. NamedOnce(registered)
    BY DEF NamesInv
  <2> QED BY <1>1, <1>4, <2>1, <2>2, RegisterKeepsNames DEF RegisterName
<1>5. ASSUME NEW t \in Tasks, NEW p \in Tasks, NEW n \in Names, RefusedRegisterName(t, p, n)
      PROVE  NamesInv'
  <2>1. WithoutFirstName(t) \in Seq([name : Names, task : Tasks])
    BY <1>1, WithoutFirstNameKeeps
  <2>2. /\ NamedOnce(WithoutFirstName(t))
        /\ \A i \in DOMAIN WithoutFirstName(t) :
             WithoutFirstName(t)[i].task \in (alive \ {t}) \cup Faulty \cup renamed
    BY <1>1, ExitKeepsNames
  <2>3. /\ registered' = Registered(WithoutFirstName(t), n, p)
        /\ renamed' = Renamed(WithoutFirstName(t), p)
        /\ alive' = alive \ {t} /\ p \in alive \ {t}
    BY <1>5 DEF RefusedRegisterName
  <2> QED BY <2>1, <2>2, <2>3, RegisterKeepsNames
<1>6. ASSUME NEW t \in Tasks, Sysexit(t)
      PROVE  NamesInv'
  <2>1. registered' = WithoutFirstName(t) /\ alive' = alive \ {t} /\ UNCHANGED renamed
    BY <1>6 DEF Sysexit, Leave
  <2>2. /\ NamedOnce(WithoutFirstName(t))
        /\ \A i \in DOMAIN WithoutFirstName(t) :
             WithoutFirstName(t)[i].task \in (alive \ {t}) \cup Faulty \cup renamed
    BY <1>1, ExitKeepsNames
  <2> QED BY <2>1, <2>2 DEF NamesInv, NamedOnce, OnlyKillsLeaveNames
<1>7. ASSUME NEW t \in Tasks,
             \/ \E n \in Names : Block(t, ProcessIdByNameCall(n))
             \/ Resume(t) \/ KillOnException(t)
      PROVE  NamesInv'
  BY <1>2, <1>7 DEF Block, Resume, KillOnException, Leave
<1>8. CASE UNCHANGED vars
  BY <1>2, <1>8 DEF vars
<1> QED BY <1>3, <1>4, <1>5, <1>6, <1>7, <1>8 DEF Next

\* A name leads to a live process but for the names that kills leave and for the
\* further names of a process with several: sysexit erases the name it has.
THEOREM NamesLeadToTheLiving == Spec => []OnlyKillsLeaveNames
<1>1. Init => NamesInv
  BY DEF Init, NamesInv, NamedOnce, OnlyKillsLeaveNames
<1>2. TypeOK /\ NamesInv /\ [Next]_vars => NamesInv'
  BY NextKeepsNames
<1>3. NamesInv => OnlyKillsLeaveNames
  BY DEF NamesInv
<1> QED BY <1>1, <1>2, <1>3, ProcessesAreTyped, PTL DEF Spec
=============================================================================
