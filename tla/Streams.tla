------------------------------ MODULE Streams -------------------------------
(***************************************************************************)
(* Streams (UserIPC.cpp; Stream and Listener in Tasks.cpp): a writer's     *)
(* bytes are appended to the buffer of every listener, and a reader blocks *)
(* while its listener's buffer is empty.  A blocked reader leaves itself   *)
(* in the listener's one hook, which the next write releases.              *)
(*                                                                         *)
(* Each node is one registered stream, whose owner stays alive.  Bytes are *)
(* numbered in the order they are written to a node.  A task that is not   *)
(* waiting may be the next to run (the timer can switch at any moment):    *)
(* it makes a system call or, if it was released from one, completes it.   *)
(***************************************************************************)
EXTENDS Naturals, Sequences, FiniteSets

CONSTANTS
  Tasks, NoTask,
  Nodes,        \* the streams
  Shared,       \* whether tasks read from each other's listeners
  MaxIds,       \* bound: writers and listeners of a node
  MaxWritten,   \* bound: bytes written to a node
  MaxChunk      \* bound: bytes in one write or read

ASSUME StreamsAssumption ==
  /\ NoTask \notin Tasks
  /\ Shared \in BOOLEAN
  /\ {MaxIds, MaxWritten, MaxChunk} \subseteq Nat

VARIABLES
  exclusive,    \* Stream::_exclusive
  writers,      \* Stream::_writers
  buffer,       \* Listener::_buffer, of each id in Stream::_listeners
  hooked,       \* Listener::_hooked, likewise
  lastId,       \* Stream::_wl_id
  holder,       \* the task that was given an id
  alive,        \* the tasks that have not exited
  waiting,      \* Task::userWaiting
  call,         \* Task::userCall
  panic,        \* "no", or what stopped the machine
  written, joined, got   \* history, see Broadcast

streamVars == <<exclusive, writers, buffer, hooked, lastId, holder>>
taskVars == <<alive, waiting, call, panic>>
history == <<written, joined, got>>
vars == <<streamVars, taskVars, history>>

NoCall == [kind |-> "none"]
OtherCall == [kind |-> "other"]
ReadStreamCall(s, l, n) == [kind |-> "read", node |-> s, listener |-> l, n |-> n]

Extended(f, x, v) == [y \in DOMAIN f \cup {x} |-> IF y = x THEN v ELSE f[y]]

Init ==
  /\ exclusive = [s \in Nodes |-> FALSE]
  /\ writers = [s \in Nodes |-> {}]
  /\ buffer = [s \in Nodes |-> <<>>]
  /\ hooked = [s \in Nodes |-> <<>>]
  /\ lastId = [s \in Nodes |-> 0]
  /\ holder = [s \in Nodes |-> <<>>]
  /\ alive = Tasks
  /\ waiting = [t \in Tasks |-> FALSE]
  /\ call = [t \in Tasks |-> NoCall]
  /\ panic = "no"
  /\ written = [s \in Nodes |-> 0]
  /\ joined = [s \in Nodes |-> <<>>]
  /\ got = [s \in Nodes |-> <<>>]

InUserMode(t) ==
  panic = "no" /\ t \in alive /\ ~waiting[t] /\ call[t] = NoCall

\* Stream::_nextId: writers and listeners are numbered together.
NextId(s) == lastId[s] + 1

GiveId(t, s) ==
  /\ NextId(s) <= MaxIds
  /\ lastId' = [lastId EXCEPT ![s] = NextId(s)]
  /\ holder' = [holder EXCEPT ![s] = Extended(@, NextId(s), t)]

-----------------------------------------------------------------------------
MayWrite(s, excl) == ~exclusive[s] /\ (excl => writers[s] = {})

\* obtainStreamWriter; when it may not, it returns -1 and changes nothing.
ObtainWriter(t, s, excl) ==
  /\ InUserMode(t)
  /\ MayWrite(s, excl)
  /\ GiveId(t, s)
  /\ exclusive' = [exclusive EXCEPT ![s] = excl]
  /\ writers' = [writers EXCEPT ![s] = @ \cup {NextId(s)}]
  /\ UNCHANGED <<buffer, hooked, taskVars, history>>

ObtainListener(t, s) ==
  /\ InUserMode(t)
  /\ GiveId(t, s)
  /\ buffer' = [buffer EXCEPT ![s] = Extended(@, NextId(s), <<>>)]
  /\ hooked' = [hooked EXCEPT ![s] = Extended(@, NextId(s), NoTask)]
  /\ joined' = [joined EXCEPT ![s] = Extended(@, NextId(s), written[s])]
  /\ got' = [got EXCEPT ![s] = Extended(@, NextId(s), <<>>)]
  /\ UNCHANGED <<exclusive, writers, taskVars, written>>

\* Listener::append.
Appended(b, bytes) == b \o bytes

\* Mutants of Unblocked: a write releases the tasks in the hooks from any wait,
\* or releases nobody.
UnblockedFromAnything(s) == {t \in Tasks : \E l \in DOMAIN hooked[s] : hooked[s][l] = t}
UnblockedNever(s) == {}

\* Listener::append's unblockType: the task in each listener's hook is released
\* from whichever stream it is reading, and stays in the hook.
Unblocked(s) == {t \in Tasks : /\ call[t].kind = "read"
                               /\ \E l \in DOMAIN hooked[s] : hooked[s][l] = t}

HasWriter(t, s) == \E id \in writers[s] : holder[s][id] = t

WriteAllListeners(s, bytes) ==
  /\ buffer' = [buffer EXCEPT ![s] = [l \in DOMAIN @ |-> Appended(@[l], bytes)]]
  /\ waiting' = [x \in Tasks |-> waiting[x] /\ x \notin Unblocked(s)]

WriteStream(t, s, n) ==
  LET bytes == [i \in 1 .. n |-> written[s] + i]
  IN  /\ InUserMode(t)
      /\ HasWriter(t, s)
      /\ written[s] + n <= MaxWritten
      /\ WriteAllListeners(s, bytes)
      /\ written' = [written EXCEPT ![s] = @ + n]
      /\ UNCHANGED <<exclusive, writers, hooked, lastId, holder, alive, call,
                     panic, joined, got>>

Least(m, n) == IF m <= n THEN m ELSE n

\* Mutant of Cut: drops the whole buffer.
CutAll(b, n) == <<>>

\* Listener::cut.
Cut(b, n) == SubSeq(b, n + 1, Len(b))

\* ReadStreamCall::operator (), when there is something to read.
TakeBytes(s, l, n) ==
  LET b == buffer[s][l]
      len == Least(Len(b), n)
  IN  /\ buffer' = [buffer EXCEPT ![s][l] = Cut(b, len)]
      /\ got' = [got EXCEPT ![s][l] = @ \o SubSeq(b, 1, len)]

MayRead(t, s, l) == l \in DOMAIN buffer[s] /\ (Shared \/ holder[s][l] = t)

\* readStream and readStreamUnblock on a listener with bytes; the latter
\* returns at once without them.
ReadStream(t, s, l, n) ==
  /\ InUserMode(t)
  /\ MayRead(t, s, l)
  /\ buffer[s][l] # <<>>
  /\ TakeBytes(s, l, n)
  /\ UNCHANGED <<exclusive, writers, hooked, lastId, holder, taskVars, written,
                 joined>>

\* readStream on a listener without.
BlockOnStream(t, s, l, n) ==
  /\ InUserMode(t)
  /\ MayRead(t, s, l)
  /\ buffer[s][l] = <<>>
  /\ waiting' = [waiting EXCEPT ![t] = TRUE]
  /\ call' = [call EXCEPT ![t] = ReadStreamCall(s, l, n)]
  /\ hooked' = [hooked EXCEPT ![s][l] = t]
  /\ UNCHANGED <<exclusive, writers, buffer, lastId, holder, alive, panic,
                 history>>

\* assignInternalTask resumes t: the call is evaluated again and must complete.
ResumeRead(t) ==
  LET c == call[t]
  IN  /\ panic = "no" /\ ~waiting[t] /\ c.kind = "read"
      /\ call' = [call EXCEPT ![t] = NoCall]
      /\ IF buffer[c.node][c.listener] = <<>>
         THEN /\ panic' = "resumed call blocks again"
              /\ UNCHANGED <<buffer, got>>
         ELSE /\ TakeBytes(c.node, c.listener, c.n)
              /\ UNCHANGED panic
      /\ UNCHANGED <<exclusive, writers, hooked, lastId, holder, alive, waiting,
                     written, joined>>

\* A task may wait in a call of another kind (for time, say), which ends.
BlockOnOther(t) ==
  /\ InUserMode(t)
  /\ waiting' = [waiting EXCEPT ![t] = TRUE]
  /\ call' = [call EXCEPT ![t] = OtherCall]
  /\ UNCHANGED <<streamVars, alive, panic, history>>

ResumeOther(t) ==
  /\ panic = "no" /\ call[t] = OtherCall /\ waiting[t]
  /\ waiting' = [waiting EXCEPT ![t] = FALSE]
  /\ call' = [call EXCEPT ![t] = NoCall]
  /\ UNCHANGED <<streamVars, alive, panic, history>>

\* A task exits: its writers, listeners and hooks stay.
Exit(t) ==
  /\ InUserMode(t)
  /\ alive' = alive \ {t}
  /\ UNCHANGED <<streamVars, waiting, call, panic, history>>

Next ==
  \/ \E t \in Tasks, s \in Nodes :
       \/ \E excl \in BOOLEAN : ObtainWriter(t, s, excl)
       \/ ObtainListener(t, s)
       \/ \E n \in 1 .. MaxChunk :
            \/ WriteStream(t, s, n)
            \/ \E l \in DOMAIN buffer[s] :
                 ReadStream(t, s, l, n) \/ BlockOnStream(t, s, l, n)
  \/ \E t \in Tasks : ResumeRead(t) \/ BlockOnOther(t) \/ ResumeOther(t) \/ Exit(t)

Spec == Init /\ [][Next]_vars

-----------------------------------------------------------------------------
(* Properties.                                                             *)

\* Every node is a broadcast of its bytes: no listener loses one, gets one
\* twice, or gets them in another order than they were written.
Log == INSTANCE Broadcast WITH Listeners <- 1 .. MaxIds

StreamsBroadcast == Log!Spec

\* A reader sleeps only while its listener is empty (UserIPC.cpp:284, "Block
\* until such time as some data is available").  It takes a hook that still
\* names the reader when the next write comes.  A released reader finds bytes
\* (ASSERT(!shallBlock), Tasks.cpp:164).
ReadersSleepOnlyWhenEmpty ==
  /\ \A t \in Tasks : waiting[t] /\ call[t].kind = "read" =>
       buffer[call[t].node][call[t].listener] = <<>>
  /\ panic = "no"

\* A write releases no task from a wait that is not for a stream.
OtherWaitsAreKept ==
  \A t \in Tasks : call[t] = OtherCall => waiting[t]
=============================================================================
