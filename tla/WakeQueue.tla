----------------------------- MODULE WakeQueue ------------------------------
(***************************************************************************)
(* Timer's list of wake events (Timer.cpp), a sequence of records          *)
(*     [toWake : task, uid : Nat, usLeft : Nat]                            *)
(* whose usLeft is counted down only for the event at the head.  The       *)
(* functions have no state: Timer and Scheduler hold the queue.            *)
(***************************************************************************)
EXTENDS Naturals, SequencesExt

CONSTANT UsPerTick     \* 1000000 / hz, the microseconds between two ticks

ASSUME UsPerTickAssumption == UsPerTick \in Nat \ {0}

\* WakeEvent; and that no two events of a queue share a uid.
EventsFor(T) == [toWake : T, uid : Nat, usLeft : Nat]
UidsDiffer(q) == \A i, j \in DOMAIN q : q[i].uid = q[j].uid => i = j

\* Timer::tick, the queue it leaves: only the head is counted down, and the
\* remainder of an event that comes due is not carried to the next one.
HeadIsDue(q) == q # <<>> /\ Head(q).usLeft <= UsPerTick

\* Mutant of AfterTick: the event that came due stays at the head.
AfterTickUnpopped(q) ==
  IF q = <<>> \/ HeadIsDue(q) THEN q
  ELSE [q EXCEPT ![1].usLeft = @ - UsPerTick]

AfterTick(q) ==
  IF q = <<>> THEN q
  ELSE IF HeadIsDue(q) THEN Tail(q)
  ELSE [q EXCEPT ![1].usLeft = @ - UsPerTick]

\* The sum of usLeft over the first k events.
UsThrough(q, k) == FoldLeft(LAMBDA sum, e : sum + e.usLeft, 0, SubSeq(q, 1, k))

\* Mutant of RunningTotal: does not stop before exceeding us.
RunningTotalOfAll(q, us) == UsThrough(q, Len(q))

\* Timer::wakeIn's runningTotal: the sum over the longest prefix of the queue
\* that comes due within us.
RunningTotal(q, us) ==
  LET fits == {r \in 0 .. us : r = 0 \/ \E k \in DOMAIN q : r = UsThrough(q, k)}
  IN  CHOOSE r \in fits : \A s \in fits : s <= r

\* Timer::wakeIn: what is left after the prefix, but always at the back of the
\* queue, not behind that prefix.
WithWakeEvent(q, us, t, uid) ==
  Append(q, [toWake |-> t, uid |-> uid, usLeft |-> us - RunningTotal(q, us)])

\* Timer::desched: whether an event has the uid, and the queue without it, its
\* time handed to the event behind it.
IsScheduled(q, uid) == \E i \in DOMAIN q : q[i].uid = uid

\* Mutant of Descheduled: unlinks the head, whichever event was found.
DescheduledHead(q, uid) == IF IsScheduled(q, uid) THEN Tail(q) ELSE q

Descheduled(q, uid) ==
  LET i == CHOOSE i \in DOMAIN q : q[i].uid = uid
  IN  IF ~IsScheduled(q, uid) THEN q
      ELSE [j \in 1 .. Len(q) - 1 |->
              IF j < i THEN q[j]
              ELSE IF j = i
                   THEN [q[j + 1] EXCEPT !.usLeft = @ + q[i].usLeft]
                   ELSE q[j + 1]]
=============================================================================
