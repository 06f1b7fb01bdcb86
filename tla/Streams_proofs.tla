--------------------------- MODULE Streams_proofs ---------------------------
(***************************************************************************)
(* Two parts of the kernel that share no state: the streams, with the      *)
(* console's line at the end of one, and the heaps.                        *)
(*                                                                         *)
(* Streams are broadcasts: what the kernel does with buffers and cuts      *)
(* implements Broadcast, for any tasks, nodes and bounds.                  *)
(*                                                                         *)
(* What a listener has received and what its buffer holds, one after the   *)
(* other, are the bytes written since it joined (Logged).                  *)
(*                                                                         *)
(* Around the stream of the keyboard (Terminal), the line that getline has *)
(* is on the screen, an invariant of what putChar does to the cells; and   *)
(* the lines it returns are those that the events mean: every event is at  *)
(* one place on its way, in the keyboard, the port, the service, the       *)
(* stream or the lines, and overtakes none.                                *)
(*                                                                         *)
(* Heaps: the entries of a heap tile it, whatever is allocated and freed,  *)
(* and until an empty allocation is freed the heap implements Allocator:   *)
(* for heaps, pages and indexes of any size.  Entries move in the index    *)
(* with every insertion and removal, and free finds its neighbours by      *)
(* address.  Where several entries have the address, all but one are       *)
(* empty; that it finds the right one depends on the empty ones being      *)
(* first in the index.                                                     *)
(***************************************************************************)
EXTENDS Streams, Terminal, Heap, SequenceLemmas, FiniteSetTheorems

Calls == {NoCall, OtherCall} \cup
         {ReadStreamCall(s, l, n) : s \in Nodes, l \in 1 .. MaxIds, n \in 1 .. MaxChunk}

\* A listener that joined after j of w bytes has got g, and its buffer is b.
Logged(w, j, g, b) ==
  /\ w \in Nat /\ j \in Nat /\ g \in Seq(Nat) /\ b \in Seq(Nat)
  /\ j + Len(g) + Len(b) = w
  /\ \A i \in 1 .. Len(b) : b[i] = j + Len(g) + i

Listeners(s) == DOMAIN buffer[s]

IdsAreGiven ==
  /\ lastId \in [Nodes -> 0 .. MaxIds]
  /\ \A s \in Nodes : Listeners(s) \subseteq 1 .. lastId[s]

Maps ==
  /\ written \in [Nodes -> Nat]
  /\ DOMAIN buffer = Nodes /\ DOMAIN joined = Nodes /\ DOMAIN got = Nodes
  /\ \A s \in Nodes : /\ buffer[s] \in [Listeners(s) -> Seq(Nat)]
                      /\ joined[s] \in [Listeners(s) -> Nat]
                      /\ got[s] \in [Listeners(s) -> Seq(Nat)]

\* A call that reads names a listener of its node.
CallsAreFormed ==
  /\ call \in [Tasks -> Calls]
  /\ \A t \in Tasks : call[t].kind = "read" => call[t].listener \in Listeners(call[t].node)

LogInv ==
  /\ IdsAreGiven
  /\ Maps
  /\ CallsAreFormed
  /\ \A s \in Nodes : \A l \in Listeners(s) :
       Logged(written[s], joined[s][l], got[s][l], buffer[s][l])

-----------------------------------------------------------------------------
(* One listener.                                                           *)

LEMMA JoinLogs == \A w \in Nat : Logged(w, w, <<>>, <<>>)
BY DEF Logged

LEMMA WriteLogs ==
  ASSUME NEW w, NEW j, NEW g, NEW b, Logged(w, j, g, b), NEW n \in Nat
  PROVE  Logged(w + n, j, g, Appended(b, [i \in 1 .. n |-> w + i]))
<1> DEFINE new == [i \in 1 .. n |-> w + i]
           b2 == b \o new
           from == j + Len(g)
           m == Len(b)
<1>1. /\ w \in Nat /\ j \in Nat /\ g \in Seq(Nat) /\ b \in Seq(Nat)
      /\ from + m = w /\ from \in Nat /\ m \in Nat
      /\ \A i \in 1 .. m : b[i] = from + i
      /\ m = Len(b) /\ from = j + Len(g)
  BY DEF Logged
<1>2. new \in Seq(Nat) /\ Len(new) = n /\ \A i \in 1 .. n : new[i] = w + i
  BY <1>1
<1> HIDE DEF new, from, m
<1>3. /\ b2 \in Seq(Nat) /\ Len(b2) = m + n
      /\ \A i \in 1 .. m : b2[i] = b[i]
      /\ \A i \in 1 .. n : b2[m + i] = new[i]
  <2>1. \A u, v \in Seq(Nat) :
          /\ u \o v \in Seq(Nat) /\ Len(u \o v) = Len(u) + Len(v)
          /\ \A i \in 1 .. Len(u) : (u \o v)[i] = u[i]
          /\ \A i \in 1 .. Len(v) : (u \o v)[Len(u) + i] = v[i]
    BY ConcatAt
  <2> QED BY <1>1, <1>2, <2>1
<1> HIDE DEF b2
<1>4. ASSUME NEW i \in 1 .. m + n PROVE b2[i] = from + i
  <2>1. CASE i <= m
    BY <1>1, <1>3, <2>1
  <2>2. CASE ~(i <= m)
    <3>1. i - m \in 1 .. n /\ m + (i - m) = i /\ w + (i - m) = from + i
      BY <1>1, <2>2, SMTT(30)
    <3>2. b2[m + (i - m)] = new[i - m] /\ new[i - m] = w + (i - m)
      BY <1>2, <1>3, <3>1
    <3> QED BY <3>1, <3>2
  <2> QED BY <2>1, <2>2
<1>5. from + (m + n) = w + n /\ w + n \in Nat
  BY <1>1
<1>6. Logged(w + n, j, g, b2)
  BY <1>1, <1>3, <1>4, <1>5 DEF Logged
<1> QED BY <1>6 DEF b2, new, Appended

\* A read takes the bytes that follow those the listener has.
LEMMA TakeLogs ==
  ASSUME NEW w, NEW j, NEW g, NEW b, Logged(w, j, g, b), b # <<>>,
         NEW n \in Nat, n >= 1
  PROVE  LET k == Least(Len(b), n)
         IN  /\ k \in 1 .. n
             /\ j + Len(g) + k <= w
             /\ SubSeq(b, 1, k) = [i \in 1 .. k |-> j + Len(g) + i]
             /\ Logged(w, j, g \o SubSeq(b, 1, k), Cut(b, k))
<1> DEFINE m == Len(b)
           k == Least(m, n)
           from == j + Len(g)
           taken == SubSeq(b, 1, k)
           rest == SubSeq(b, k + 1, m)
           g2 == g \o taken
<1>1. /\ w \in Nat /\ j \in Nat /\ g \in Seq(Nat) /\ b \in Seq(Nat)
      /\ from + m = w /\ from \in Nat
      /\ \A i \in 1 .. m : b[i] = from + i
      /\ Len(g) \in Nat /\ from = j + Len(g)
  BY DEF Logged
<1>2. m \in Nat /\ m >= 1 /\ m = Len(b)
  BY <1>1
<1>3. k \in 1 .. n /\ k \in 1 .. m
  BY <1>2 DEF Least
<1>4. /\ taken \in Seq(Nat) /\ Len(taken) = k
      /\ \A i \in 1 .. k : taken[i] = b[i]
  <2> HIDE DEF k
  <2> QED BY <1>1, <1>2, <1>3, SubSeqProperties
<1>5. /\ rest \in Seq(Nat) /\ Len(rest) = m - k
      /\ \A i \in 1 .. m - k : rest[i] = b[k + i]
  <2> HIDE DEF k
  <2> QED BY <1>1, <1>2, <1>3, SubSeqProperties, SMTT(30)
<1> HIDE DEF k, m, taken, rest, from
<1>6. g2 \in Seq(Nat) /\ Len(g2) = Len(g) + k
  BY <1>1, <1>4, ConcatAt
<1>7. taken = [i \in 1 .. k |-> from + i]
  <2>1. \A i \in 1 .. k : taken[i] = from + i
    BY <1>1, <1>2, <1>3, <1>4, SMTT(30)
  <2> QED BY <1>3, <1>4, <2>1
<1> HIDE DEF g2
<1>8. Logged(w, j, g2, rest)
  <2>1. j + Len(g2) = from + k
    BY <1>1, <1>3, <1>6
  <2>2. from + k + (m - k) = w
    <3>1. from + m = w /\ from \in Nat /\ m \in Nat /\ k \in Nat
      BY <1>1, <1>2, <1>3
    <3> QED BY <3>1
  <2>3. \A i \in 1 .. m - k : rest[i] = from + k + i
    <3> SUFFICES ASSUME NEW i \in 1 .. m - k PROVE rest[i] = from + k + i
      OBVIOUS
    <3>1. k + i \in 1 .. m /\ from + (k + i) = from + k + i
      BY <1>1, <1>2, <1>3
    <3> QED BY <1>1, <1>5, <3>1
  <2> QED BY <1>1, <1>5, <1>6, <2>1, <2>2, <2>3 DEF Logged
<1>9. from + k <= w
  BY <1>1, <1>2, <1>3
<1> QED BY <1>3, <1>7, <1>8, <1>9 DEF k, taken, rest, g2, m, from, Cut

-----------------------------------------------------------------------------
(* The steps.                                                              *)

LEMMA InitLogs == Init => LogInv
<1> SUFFICES ASSUME Init PROVE LogInv
  OBVIOUS
<1>1. \A s \in Nodes : Listeners(s) = {}
  BY DEF Init, Listeners
<1>2. IdsAreGiven
  BY <1>1, StreamsAssumption DEF Init, IdsAreGiven
<1>3. Maps
  BY <1>1 DEF Init, Maps
<1>4. CallsAreFormed
  BY DEF Init, CallsAreFormed, Calls, NoCall
<1> QED BY <1>1, <1>2, <1>3, <1>4 DEF LogInv

\* Ids that writers get are no listener's.
LEMMA WriterLogs ==
  ASSUME LogInv, NEW t \in Tasks, NEW s \in Nodes, NEW excl \in BOOLEAN,
         ObtainWriter(t, s, excl)
  PROVE  LogInv' /\ UNCHANGED Log!vars
<1>1. UNCHANGED <<buffer, call, written, joined, got>>
  BY DEF ObtainWriter, taskVars, history
<1>2. /\ lastId' = [lastId EXCEPT ![s] = NextId(s)] /\ NextId(s) <= MaxIds
      /\ lastId \in [Nodes -> 0 .. MaxIds] /\ MaxIds \in Nat
      /\ \A x \in Nodes : Listeners(x) \subseteq 1 .. lastId[x]
  BY StreamsAssumption DEF ObtainWriter, GiveId, LogInv, IdsAreGiven
<1>3. \A x \in Nodes : Listeners(x)' = Listeners(x)
  BY <1>1 DEF Listeners
<1>4. IdsAreGiven'
  <2>1. lastId' \in [Nodes -> 0 .. MaxIds] /\ \A x \in Nodes : lastId'[x] >= lastId[x]
    BY <1>2 DEF NextId
  <2>2. \A x \in Nodes : 1 .. lastId[x] \subseteq 1 .. lastId'[x]
    BY <1>2, <2>1
  <2> QED BY <1>1, <1>2, <2>1, <2>2 DEF IdsAreGiven, Listeners
<1>5. Maps' /\ CallsAreFormed'
  BY <1>1 DEF LogInv, Maps, CallsAreFormed, Listeners
<1>6. (\A x \in Nodes : \A l \in Listeners(x) :
         Logged(written[x], joined[x][l], got[x][l], buffer[x][l]))'
  BY <1>1 DEF LogInv, Listeners
<1> QED BY <1>1, <1>4, <1>5, <1>6 DEF LogInv, Log!vars

\* Steps that touch no stream.
LEMMA OthersLog ==
  ASSUME LogInv, UNCHANGED <<buffer, lastId, written, joined, got>>, CallsAreFormed'
  PROVE  LogInv' /\ UNCHANGED Log!vars
<1>1. IdsAreGiven' /\ Maps'
  BY DEF LogInv, IdsAreGiven, Maps, Listeners
<1>2. (\A x \in Nodes : \A l \in Listeners(x) :
         Logged(written[x], joined[x][l], got[x][l], buffer[x][l]))'
  BY DEF LogInv, Listeners
<1> QED BY <1>1, <1>2 DEF LogInv, Log!vars

\* A listener joins.
LEMMA ListenerLogs ==
  ASSUME LogInv, NEW t \in Tasks, NEW s \in Nodes, ObtainListener(t, s)
  PROVE  LogInv' /\ Log!Next
<1> DEFINE l == NextId(s)
<1>1. /\ lastId' = [lastId EXCEPT ![s] = l] /\ l <= MaxIds
      /\ buffer' = [buffer EXCEPT ![s] = Extended(buffer[s], l, <<>>)]
      /\ joined' = [joined EXCEPT ![s] = Extended(joined[s], l, written[s])]
      /\ got' = [got EXCEPT ![s] = Extended(got[s], l, <<>>)]
      /\ written' = written /\ call' = call
  BY DEF ObtainListener, GiveId, taskVars
<1>2. /\ lastId \in [Nodes -> 0 .. MaxIds] /\ MaxIds \in Nat
      /\ \A x \in Nodes : Listeners(x) \subseteq 1 .. lastId[x]
      /\ Maps
      /\ \A x \in Nodes : \A k \in Listeners(x) :
           Logged(written[x], joined[x][k], got[x][k], buffer[x][k])
  BY StreamsAssumption DEF LogInv, IdsAreGiven
<1>3. l \in 1 .. MaxIds /\ l \notin Listeners(s) /\ l = lastId[s] + 1
  BY <1>1, <1>2 DEF NextId
<1> HIDE DEF l
<1>4. \A x \in Nodes \ {s} : /\ buffer'[x] = buffer[x] /\ joined'[x] = joined[x]
                             /\ got'[x] = got[x]
  BY <1>1, <1>2 DEF Maps
<1>5. /\ buffer'[s] = [k \in Listeners(s) \cup {l} |-> IF k = l THEN <<>> ELSE buffer[s][k]]
      /\ joined'[s] = [k \in Listeners(s) \cup {l} |-> IF k = l THEN written[s] ELSE joined[s][k]]
      /\ got'[s] = [k \in Listeners(s) \cup {l} |-> IF k = l THEN <<>> ELSE got[s][k]]
  BY <1>1, <1>2 DEF Maps, Extended, Listeners
<1>6. /\ DOMAIN buffer'[s] = Listeners(s) \cup {l}
      /\ \A x \in Nodes \ {s} : DOMAIN buffer'[x] = Listeners(x)
  BY <1>4, <1>5 DEF Listeners
<1>7. IdsAreGiven'
  <2>1. lastId' \in [Nodes -> 0 .. MaxIds]
    BY <1>1, <1>2, <1>3
  <2>2. \A x \in Nodes : DOMAIN buffer'[x] \subseteq 1 .. lastId'[x]
    BY <1>1, <1>2, <1>3, <1>6
  <2> QED BY <2>1, <2>2 DEF IdsAreGiven, Listeners
<1>8. Maps'
  <2>1. DOMAIN buffer' = Nodes /\ DOMAIN joined' = Nodes /\ DOMAIN got' = Nodes
    BY <1>1, <1>2 DEF Maps
  <2>2. written' \in [Nodes -> Nat] /\ written[s] \in Nat
    BY <1>1, <1>2 DEF Maps
  <2>3. <<>> \in Seq(Nat)
    OBVIOUS
  <2>4. \A x \in Nodes : /\ buffer'[x] \in [DOMAIN buffer'[x] -> Seq(Nat)]
                         /\ joined'[x] \in [DOMAIN buffer'[x] -> Nat]
                         /\ got'[x] \in [DOMAIN buffer'[x] -> Seq(Nat)]
    <3> SUFFICES ASSUME NEW x \in Nodes
                 PROVE  /\ buffer'[x] \in [DOMAIN buffer'[x] -> Seq(Nat)]
                        /\ joined'[x] \in [DOMAIN buffer'[x] -> Nat]
                        /\ got'[x] \in [DOMAIN buffer'[x] -> Seq(Nat)]
      OBVIOUS
    <3>1. /\ buffer[x] \in [Listeners(x) -> Seq(Nat)]
          /\ joined[x] \in [Listeners(x) -> Nat]
          /\ got[x] \in [Listeners(x) -> Seq(Nat)]
      BY <1>2 DEF Maps
    <3>2. CASE x = s
      <4>1. /\ buffer[s] \in [Listeners(s) -> Seq(Nat)]
            /\ joined[s] \in [Listeners(s) -> Nat]
            /\ got[s] \in [Listeners(s) -> Seq(Nat)]
        BY <3>1, <3>2
      <4>2. buffer'[s] \in [Listeners(s) \cup {l} -> Seq(Nat)]
        BY <1>5, <2>3, <4>1
      <4>3. joined'[s] \in [Listeners(s) \cup {l} -> Nat]
        BY <1>5, <2>2, <4>1
      <4>4. got'[s] \in [Listeners(s) \cup {l} -> Seq(Nat)]
        BY <1>5, <2>3, <4>1
      <4> QED BY <1>6, <3>2, <4>2, <4>3, <4>4
    <3>3. CASE x # s
      BY <1>4, <1>6, <3>1, <3>3
    <3> QED BY <3>2, <3>3
  <2> QED BY <2>1, <2>2, <2>4 DEF Maps, Listeners
<1>9. CallsAreFormed'
  <2> SUFFICES ASSUME NEW x \in Tasks, call[x].kind = "read"
               PROVE  call[x].listener \in DOMAIN buffer'[call[x].node]
    BY <1>1 DEF LogInv, CallsAreFormed, Listeners
  <2>1. call[x].listener \in Listeners(call[x].node) /\ call[x] \in Calls
    BY DEF LogInv, CallsAreFormed
  <2>2. call[x].node \in Nodes
    BY <2>1 DEF Calls, NoCall, OtherCall, ReadStreamCall
  <2> QED BY <1>6, <2>1, <2>2
<1>10. \A x \in Nodes : \A k \in DOMAIN buffer'[x] :
         Logged(written'[x], joined'[x][k], got'[x][k], buffer'[x][k])
  <2>1. Logged(written[s], written[s], <<>>, <<>>)
    BY <1>2, JoinLogs DEF Maps
  <2> SUFFICES ASSUME NEW x \in Nodes, NEW k \in DOMAIN buffer'[x]
               PROVE  Logged(written'[x], joined'[x][k], got'[x][k], buffer'[x][k])
    OBVIOUS
  <2>2. CASE x = s /\ k = l
    BY <1>1, <1>5, <2>1, <2>2
  <2>3. CASE x = s /\ k # l
    BY <1>1, <1>2, <1>5, <1>6, <2>3
  <2>4. CASE x # s
    BY <1>1, <1>2, <1>4, <1>6, <2>4
  <2> QED BY <2>2, <2>3, <2>4
<1>11. Log!Join(s, l)
  <2>1. l \notin DOMAIN joined[s]
    BY <1>2, <1>3 DEF Maps
  <2> QED BY <1>1, <2>1 DEF Log!Join, Log!Extended, Extended
<1>12. Log!Next
  BY <1>3, <1>11 DEF Log!Next
<1> QED BY <1>7, <1>8, <1>9, <1>10, <1>12 DEF LogInv, Listeners

\* A write is appended to every buffer.
LEMMA WriteLogsAll ==
  ASSUME LogInv, NEW t \in Tasks, NEW s \in Nodes, NEW n \in 1 .. MaxChunk,
         WriteStream(t, s, n)
  PROVE  LogInv' /\ Log!Next
<1> DEFINE bytes == [i \in 1 .. n |-> written[s] + i]
<1>1. /\ buffer' = [buffer EXCEPT ![s] =
                      [l \in DOMAIN buffer[s] |-> Appended(buffer[s][l], bytes)]]
      /\ written' = [written EXCEPT ![s] = @ + n]
      /\ UNCHANGED <<lastId, call, joined, got>>
  BY DEF WriteStream, WriteAllListeners
<1>2. /\ Maps /\ n \in Nat /\ written[s] \in Nat
      /\ \A x \in Nodes : \A k \in Listeners(x) :
           Logged(written[x], joined[x][k], got[x][k], buffer[x][k])
  BY StreamsAssumption DEF LogInv, Maps
<1>3. \A k \in Listeners(s) :
        Logged(written[s] + n, joined[s][k], got[s][k], Appended(buffer[s][k], bytes))
  BY <1>2, WriteLogs
<1> HIDE DEF bytes
<1>4. /\ \A x \in Nodes \ {s} : buffer'[x] = buffer[x] /\ written'[x] = written[x]
      /\ written'[s] = written[s] + n
      /\ buffer'[s] = [l \in Listeners(s) |-> Appended(buffer[s][l], bytes)]
      /\ \A x \in Nodes : DOMAIN buffer'[x] = Listeners(x)
  BY <1>1, <1>2 DEF Maps, Listeners
<1>5. \A x \in Nodes : \A k \in DOMAIN buffer'[x] :
         Logged(written'[x], joined'[x][k], got'[x][k], buffer'[x][k])
  BY <1>1, <1>2, <1>3, <1>4
<1>6. Maps'
  <2>1. DOMAIN buffer' = Nodes /\ DOMAIN joined' = Nodes /\ DOMAIN got' = Nodes
    BY <1>1, <1>2 DEF Maps
  <2>2. written' \in [Nodes -> Nat]
    BY <1>1, <1>2 DEF Maps
  <2>3. \A x \in Nodes : \A k \in DOMAIN buffer'[x] : buffer'[x][k] \in Seq(Nat)
    BY <1>5 DEF Logged
  <2>4. \A x \in Nodes : /\ buffer'[x] \in [DOMAIN buffer'[x] -> Seq(Nat)]
                         /\ joined'[x] \in [DOMAIN buffer'[x] -> Nat]
                         /\ got'[x] \in [DOMAIN buffer'[x] -> Seq(Nat)]
    BY <1>1, <1>2, <1>4, <2>3 DEF Maps
  <2> QED BY <2>1, <2>2, <2>4 DEF Maps, Listeners
<1>7. IdsAreGiven'
  BY <1>1, <1>4 DEF LogInv, IdsAreGiven, Listeners
<1>8. CallsAreFormed'
  <2> SUFFICES ASSUME NEW x \in Tasks, call[x].kind = "read"
               PROVE  call[x].listener \in DOMAIN buffer'[call[x].node]
    BY <1>1 DEF LogInv, CallsAreFormed, Listeners
  <2>1. call[x].listener \in Listeners(call[x].node) /\ call[x] \in Calls
    BY DEF LogInv, CallsAreFormed
  <2>2. call[x].node \in Nodes
    BY <2>1 DEF Calls, NoCall, OtherCall, ReadStreamCall
  <2> QED BY <1>4, <2>1, <2>2
<1>9. Log!Next
  BY <1>1 DEF Log!Next, Log!Publish
<1> QED BY <1>5, <1>6, <1>7, <1>8, <1>9 DEF LogInv, Listeners

\* A read takes from one.
LEMMA TakeBytesLogs ==
  ASSUME LogInv, NEW s \in Nodes, NEW l \in Listeners(s), NEW n \in 1 .. MaxChunk,
         buffer[s][l] # <<>>, TakeBytes(s, l, n),
         UNCHANGED <<lastId, written, joined>>, CallsAreFormed
  PROVE  /\ IdsAreGiven' /\ Maps'
         /\ \A x \in Nodes : Listeners(x)' = Listeners(x)
         /\ \A x \in Nodes : \A k \in DOMAIN buffer'[x] :
              Logged(written'[x], joined'[x][k], got'[x][k], buffer'[x][k])
         /\ Log!Next
<1> DEFINE b == buffer[s][l]
           g == got[s][l]
           k == Least(Len(b), n)
           b2 == Cut(b, k)
           g2 == g \o SubSeq(b, 1, k)
<1>1. buffer' = [buffer EXCEPT ![s][l] = b2] /\ got' = [got EXCEPT ![s][l] = g2]
  BY DEF TakeBytes
<1>2. /\ Maps /\ n \in Nat /\ n >= 1
      /\ \A x \in Nodes : \A m \in Listeners(x) :
           Logged(written[x], joined[x][m], got[x][m], buffer[x][m])
      /\ MaxChunk \in Nat
  BY StreamsAssumption DEF LogInv
<1>3. /\ k \in 1 .. n
      /\ joined[s][l] + Len(g) + k <= written[s]
      /\ SubSeq(b, 1, k) = [i \in 1 .. k |-> joined[s][l] + Len(g) + i]
      /\ Logged(written[s], joined[s][l], g2, b2)
  <2>1. Logged(written[s], joined[s][l], g, b)
    BY <1>2
  <2> HIDE DEF b, g
  <2> QED BY <1>2, <2>1, TakeLogs DEF b
<1> HIDE DEF b2, k
<1>4. /\ \A x \in Nodes \ {s} : buffer'[x] = buffer[x] /\ got'[x] = got[x]
      /\ buffer'[s] = [buffer[s] EXCEPT ![l] = b2]
      /\ got'[s] = [got[s] EXCEPT ![l] = g2]
      /\ DOMAIN buffer' = Nodes /\ DOMAIN got' = Nodes
  <2> HIDE DEF g2
  <2> QED BY <1>1, <1>2 DEF Maps
<1> HIDE DEF g2
<1>5. /\ \A x \in Nodes : DOMAIN buffer'[x] = Listeners(x)
      /\ \A m \in Listeners(s) \ {l} : buffer'[s][m] = buffer[s][m] /\ got'[s][m] = got[s][m]
      /\ buffer'[s][l] = b2 /\ got'[s][l] = g2
  BY <1>2, <1>4 DEF Maps, Listeners
<1>6. \A x \in Nodes : \A m \in DOMAIN buffer'[x] :
         Logged(written'[x], joined'[x][m], got'[x][m], buffer'[x][m])
  <2> SUFFICES ASSUME NEW x \in Nodes, NEW m \in Listeners(x)
               PROVE  Logged(written[x], joined[x][m], got'[x][m], buffer'[x][m])
    BY <1>5
  <2>1. CASE x = s /\ m = l
    BY <1>3, <1>5, <2>1
  <2>2. CASE x = s /\ m # l
    BY <1>2, <1>5, <2>2
  <2>3. CASE x # s
    BY <1>2, <1>4, <2>3
  <2> QED BY <2>1, <2>2, <2>3
<1>7. Maps'
  <2>1. b2 \in Seq(Nat) /\ g2 \in Seq(Nat)
    BY <1>3 DEF Logged
  <2>2. \A x \in Nodes : /\ buffer'[x] \in [DOMAIN buffer'[x] -> Seq(Nat)]
                         /\ joined'[x] \in [DOMAIN buffer'[x] -> Nat]
                         /\ got'[x] \in [DOMAIN buffer'[x] -> Seq(Nat)]
    <3> SUFFICES ASSUME NEW x \in Nodes
                 PROVE  /\ buffer'[x] \in [Listeners(x) -> Seq(Nat)]
                        /\ joined[x] \in [Listeners(x) -> Nat]
                        /\ got'[x] \in [Listeners(x) -> Seq(Nat)]
      BY <1>5
    <3>1. /\ buffer[x] \in [Listeners(x) -> Seq(Nat)]
          /\ joined[x] \in [Listeners(x) -> Nat]
          /\ got[x] \in [Listeners(x) -> Seq(Nat)]
      BY <1>2 DEF Maps
    <3>2. CASE x = s
      <4>1. buffer'[s] \in [Listeners(s) -> Seq(Nat)]
        BY <1>4, <2>1, <3>1, <3>2
      <4>2. got'[s] \in [Listeners(s) -> Seq(Nat)]
        BY <1>4, <2>1, <3>1, <3>2
      <4> QED BY <3>1, <3>2, <4>1, <4>2
    <3>3. CASE x # s
      BY <1>4, <3>1, <3>3
    <3> QED BY <3>2, <3>3
  <2> QED BY <1>2, <1>4, <2>2 DEF Maps, Listeners
<1>8. IdsAreGiven'
  BY <1>5 DEF LogInv, IdsAreGiven, Listeners
<1>9. Log!Next
  <2>1. k \in 1 .. MaxChunk /\ l \in 1 .. MaxIds
    <3>1. k \in 1 .. MaxChunk
      BY <1>2, <1>3
    <3>2. Listeners(s) \subseteq 1 .. lastId[s] /\ lastId[s] \in 0 .. MaxIds /\ MaxIds \in Nat
      BY StreamsAssumption DEF LogInv, IdsAreGiven
    <3> QED BY <3>1, <3>2
  <2>2. l \in DOMAIN joined[s]
    BY <1>2 DEF Maps
  <2>3. got' = [got EXCEPT ![s][l] = @ \o [i \in 1 .. k |-> joined[s][l] + Len(@) + i]]
    BY <1>1, <1>3 DEF g2
  <2>4. Log!Receive(s, l, k)
    BY <1>3, <2>2, <2>3 DEF Log!Receive
  <2> QED BY <2>1, <2>4 DEF Log!Next
<1> QED BY <1>5, <1>6, <1>7, <1>8, <1>9 DEF Listeners

\* A call ends, or is one that reads from a listener there is.
LEMMA CallsStayFormed ==
  ASSUME CallsAreFormed, \A x \in Nodes : Listeners(x) \subseteq Listeners(x)',
         NEW t \in Tasks, NEW c \in Calls, call' = [call EXCEPT ![t] = c],
         c.kind = "read" => c.listener \in Listeners(c.node)'
  PROVE  CallsAreFormed'
<1> DEFINE L(x) == DOMAIN buffer'[x]
<1>1. /\ call \in [Tasks -> Calls]
      /\ \A x \in Tasks : call[x].kind = "read" => call[x].listener \in Listeners(call[x].node)
  BY DEF CallsAreFormed
<1>2. \A x \in Nodes : Listeners(x) \subseteq L(x)
  BY DEF Listeners
<1>3. call' \in [Tasks -> Calls]
  BY <1>1
<1>4. ASSUME NEW x \in Tasks, call'[x].kind = "read"
      PROVE  call'[x].listener \in L(call'[x].node)
  <2>1. CASE x = t
    BY <1>1, <1>4, <2>1 DEF Listeners
  <2>2. CASE x # t
    <3>1. call'[x] = call[x] /\ call[x] \in Calls
      BY <1>1, <2>2
    <3>2. call[x].node \in Nodes
      BY <1>4, <3>1 DEF Calls, NoCall, OtherCall, ReadStreamCall
    <3> QED BY <1>1, <1>2, <1>4, <3>1, <3>2
  <2> QED BY <2>1, <2>2
<1> QED BY <1>3, <1>4 DEF CallsAreFormed, Listeners

LEMMA CallTypes ==
  /\ NoCall \in Calls /\ NoCall.kind # "read"
  /\ OtherCall \in Calls /\ OtherCall.kind # "read"
BY DEF Calls, NoCall, OtherCall

LEMMA ReadLogs ==
  ASSUME LogInv, NEW t \in Tasks, NEW s \in Nodes, NEW l \in DOMAIN buffer[s],
         NEW n \in 1 .. MaxChunk, ReadStream(t, s, l, n)
  PROVE  LogInv' /\ Log!Next
<1>1. /\ buffer[s][l] # <<>> /\ TakeBytes(s, l, n)
      /\ UNCHANGED <<lastId, written, joined, call>>
      /\ l \in Listeners(s) /\ CallsAreFormed
  BY DEF ReadStream, taskVars, LogInv, Listeners
<1>2. /\ IdsAreGiven' /\ Maps' /\ Log!Next
      /\ \A x \in Nodes : Listeners(x)' = Listeners(x)
      /\ \A x \in Nodes : \A k \in DOMAIN buffer'[x] :
           Logged(written'[x], joined'[x][k], got'[x][k], buffer'[x][k])
  BY <1>1, TakeBytesLogs
<1>3. CallsAreFormed'
  <2> SUFFICES ASSUME NEW x \in Tasks, call[x].kind = "read"
               PROVE  call[x].listener \in DOMAIN buffer'[call[x].node]
    BY <1>1 DEF CallsAreFormed, Listeners
  <2>1. call[x].listener \in Listeners(call[x].node) /\ call[x] \in Calls
    BY <1>1 DEF CallsAreFormed
  <2>2. call[x].node \in Nodes
    BY <2>1 DEF Calls, NoCall, OtherCall, ReadStreamCall
  <2> QED BY <1>2, <2>1, <2>2 DEF Listeners
<1> QED BY <1>2, <1>3 DEF LogInv, Listeners

LEMMA BlockLogs ==
  ASSUME LogInv, NEW t \in Tasks, NEW s \in Nodes, NEW l \in DOMAIN buffer[s],
         NEW n \in 1 .. MaxChunk, BlockOnStream(t, s, l, n)
  PROVE  LogInv' /\ UNCHANGED Log!vars
<1>1. /\ UNCHANGED <<buffer, lastId, written, joined, got>>
      /\ call' = [call EXCEPT ![t] = ReadStreamCall(s, l, n)]
      /\ l \in Listeners(s)
  BY DEF BlockOnStream, history, Listeners
<1>2. l \in 1 .. MaxIds
  <2>1. Listeners(s) \subseteq 1 .. lastId[s] /\ lastId[s] \in 0 .. MaxIds /\ MaxIds \in Nat
    BY StreamsAssumption DEF LogInv, IdsAreGiven
  <2> QED BY <1>1, <2>1
<1>3. /\ ReadStreamCall(s, l, n) \in Calls
      /\ ReadStreamCall(s, l, n).listener = l /\ ReadStreamCall(s, l, n).node = s
  BY <1>2 DEF Calls, ReadStreamCall
<1>4. \A x \in Nodes : Listeners(x)' = Listeners(x)
  BY <1>1 DEF Listeners
<1>5. CallsAreFormed'
  <2>1. CallsAreFormed
    BY DEF LogInv
  <2>2. l \in Listeners(s)'
    BY <1>1, <1>4
  <2> QED BY <1>1, <1>3, <1>4, <2>1, <2>2, CallsStayFormed
<1> QED BY <1>1, <1>5, OthersLog

LEMMA ResumeReadLogs ==
  ASSUME LogInv, NEW t \in Tasks, ResumeRead(t)
  PROVE  LogInv' /\ (Log!Next \/ UNCHANGED Log!vars)
<1> DEFINE c == call[t]
<1>1. /\ call' = [call EXCEPT ![t] = NoCall] /\ c.kind = "read"
      /\ UNCHANGED <<lastId, written, joined>>
      /\ CallsAreFormed
  BY DEF ResumeRead, LogInv
<1>2. c \in Calls /\ c.listener \in Listeners(c.node)
  BY <1>1 DEF CallsAreFormed
<1>3. c.node \in Nodes /\ c.n \in 1 .. MaxChunk
  BY <1>1, <1>2 DEF Calls, NoCall, OtherCall, ReadStreamCall
<1>4. CASE buffer[c.node][c.listener] = <<>>
  <2>1. UNCHANGED <<buffer, got>>
    BY <1>4 DEF ResumeRead
  <2>2. \A x \in Nodes : Listeners(x)' = Listeners(x)
    BY <2>1 DEF Listeners
  <2>3. CallsAreFormed'
    BY <1>1, <2>2, CallTypes, CallsStayFormed
  <2> QED BY <1>1, <2>1, <2>3, OthersLog
<1>5. CASE buffer[c.node][c.listener] # <<>>
  <2>1. TakeBytes(c.node, c.listener, c.n)
    BY <1>5 DEF ResumeRead
  <2>2. /\ IdsAreGiven' /\ Maps' /\ Log!Next
        /\ \A x \in Nodes : Listeners(x)' = Listeners(x)
        /\ \A x \in Nodes : \A k \in DOMAIN buffer'[x] :
             Logged(written'[x], joined'[x][k], got'[x][k], buffer'[x][k])
    <3> HIDE DEF c
    <3> QED BY <1>1, <1>2, <1>3, <1>5, <2>1, TakeBytesLogs
  <2>3. CallsAreFormed'
    BY <1>1, <2>2, CallTypes, CallsStayFormed
  <2> QED BY <2>2, <2>3 DEF LogInv, Listeners
<1> QED BY <1>4, <1>5

\* Waits for other things, and exits.
LEMMA OtherCallLogs ==
  ASSUME LogInv, NEW t \in Tasks, BlockOnOther(t) \/ ResumeOther(t) \/ Exit(t)
  PROVE  LogInv' /\ UNCHANGED Log!vars
<1>1. /\ UNCHANGED <<buffer, lastId, written, joined, got>>
      /\ CallsAreFormed
  BY DEF BlockOnOther, ResumeOther, Exit, streamVars, history, LogInv
<1>2. \A x \in Nodes : Listeners(x)' = Listeners(x)
  BY <1>1 DEF Listeners
<1>3. CallsAreFormed'
  <2>1. CASE BlockOnOther(t)
    <3>1. call' = [call EXCEPT ![t] = OtherCall]
      BY <2>1 DEF BlockOnOther
    <3> QED BY <1>1, <1>2, <3>1, CallTypes, CallsStayFormed
  <2>2. CASE ResumeOther(t)
    <3>1. call' = [call EXCEPT ![t] = NoCall]
      BY <2>2 DEF ResumeOther
    <3> QED BY <1>1, <1>2, <3>1, CallTypes, CallsStayFormed
  <2>3. CASE Exit(t)
    <3>1. call' = call
      BY <2>3 DEF Exit
    <3> QED BY <1>1, <3>1 DEF CallsAreFormed, Listeners
  <2> QED BY <2>1, <2>2, <2>3
<1> QED BY <1>1, <1>3, OthersLog

LEMMA NextLogs == LogInv /\ [Next]_vars => LogInv' /\ [Log!Next]_(Log!vars)
<1> SUFFICES ASSUME LogInv, [Next]_vars
             PROVE  LogInv' /\ (Log!Next \/ UNCHANGED Log!vars)
  OBVIOUS
<1>1. CASE UNCHANGED vars
  <2>1. UNCHANGED <<buffer, lastId, written, joined, got, call>>
    BY <1>1 DEF vars, streamVars, taskVars, history
  <2>2. CallsAreFormed'
    BY <2>1 DEF LogInv, CallsAreFormed, Listeners
  <2> QED BY <2>1, <2>2, OthersLog
<1>2. CASE \E t \in Tasks, s \in Nodes :
             \/ \E excl \in BOOLEAN : ObtainWriter(t, s, excl)
             \/ ObtainListener(t, s)
             \/ \E n \in 1 .. MaxChunk :
                  \/ WriteStream(t, s, n)
                  \/ \E l \in DOMAIN buffer[s] :
                       ReadStream(t, s, l, n) \/ BlockOnStream(t, s, l, n)
  <2>1. PICK t \in Tasks, s \in Nodes :
             \/ \E excl \in BOOLEAN : ObtainWriter(t, s, excl)
             \/ ObtainListener(t, s)
             \/ \E n \in 1 .. MaxChunk :
                  \/ WriteStream(t, s, n)
                  \/ \E l \in DOMAIN buffer[s] :
                       ReadStream(t, s, l, n) \/ BlockOnStream(t, s, l, n)
    BY <1>2
  <2>2. CASE \E excl \in BOOLEAN : ObtainWriter(t, s, excl)
    BY <2>2, WriterLogs
  <2>3. CASE ObtainListener(t, s)
    BY <2>3, ListenerLogs
  <2>4. CASE \E n \in 1 .. MaxChunk : WriteStream(t, s, n)
    BY <2>4, WriteLogsAll
  <2>5. CASE \E n \in 1 .. MaxChunk : \E l \in DOMAIN buffer[s] : ReadStream(t, s, l, n)
    BY <2>5, ReadLogs
  <2>6. CASE \E n \in 1 .. MaxChunk : \E l \in DOMAIN buffer[s] : BlockOnStream(t, s, l, n)
    BY <2>6, BlockLogs
  <2> QED BY <2>1, <2>2, <2>3, <2>4, <2>5, <2>6
<1>3. CASE \E t \in Tasks : ResumeRead(t) \/ BlockOnOther(t) \/ ResumeOther(t) \/ Exit(t)
  BY <1>3, ResumeReadLogs, OtherCallLogs
<1> QED BY <1>1, <1>2, <1>3 DEF Next

-----------------------------------------------------------------------------
(* Readers.                                                                *)

\* A reader holds its listener; it waits in its hook while there is nothing to
\* read, and was released because there is something.
ReaderIsFormed(t) ==
  call[t].kind = "read" =>
    /\ holder[call[t].node][call[t].listener] = t
    /\ waiting[t] => /\ hooked[call[t].node][call[t].listener] = t
                     /\ buffer[call[t].node][call[t].listener] = <<>>
    /\ ~waiting[t] => buffer[call[t].node][call[t].listener] # <<>>

HooksAndHolders ==
  /\ DOMAIN hooked = Nodes /\ DOMAIN holder = Nodes
  /\ \A s \in Nodes : DOMAIN hooked[s] = Listeners(s) /\ Listeners(s) \subseteq DOMAIN holder[s]

ReadersInv ==
  /\ waiting \in [Tasks -> BOOLEAN]
  /\ panic = "no"
  /\ HooksAndHolders
  /\ \A t \in Tasks : ReaderIsFormed(t)

LEMMA InitReads == Init => ReadersInv
BY DEF Init, ReadersInv, HooksAndHolders, Listeners, ReaderIsFormed, NoCall

\* Nothing changes for a task in a read.
LEMMA ReaderStays ==
  ASSUME LogInv, ReadersInv, NEW t \in Tasks, call'[t] = call[t], waiting'[t] = waiting[t],
         \A s \in Nodes : \A l \in Listeners(s) :
            call[t].kind = "read" /\ call[t].node = s /\ call[t].listener = l =>
               /\ hooked'[s][l] = hooked[s][l] /\ holder'[s][l] = holder[s][l]
               /\ buffer'[s][l] = buffer[s][l]
  PROVE  ReaderIsFormed(t)'
<1> SUFFICES ASSUME call[t].kind = "read"
             PROVE  /\ holder'[call[t].node][call[t].listener] = t
                    /\ waiting[t] => /\ hooked'[call[t].node][call[t].listener] = t
                                     /\ buffer'[call[t].node][call[t].listener] = <<>>
                    /\ ~waiting[t] => buffer'[call[t].node][call[t].listener] # <<>>
  BY DEF ReaderIsFormed
<1>1. call[t].listener \in Listeners(call[t].node) /\ call[t] \in Calls
  BY DEF LogInv, CallsAreFormed
<1>2. call[t].node \in Nodes
  BY <1>1 DEF Calls, NoCall, OtherCall, ReadStreamCall
<1>3. /\ hooked'[call[t].node][call[t].listener] = hooked[call[t].node][call[t].listener]
      /\ holder'[call[t].node][call[t].listener] = holder[call[t].node][call[t].listener]
      /\ buffer'[call[t].node][call[t].listener] = buffer[call[t].node][call[t].listener]
  BY <1>1, <1>2
<1>4. /\ holder[call[t].node][call[t].listener] = t
      /\ waiting[t] => /\ hooked[call[t].node][call[t].listener] = t
                       /\ buffer[call[t].node][call[t].listener] = <<>>
      /\ ~waiting[t] => buffer[call[t].node][call[t].listener] # <<>>
  BY DEF ReadersInv, ReaderIsFormed
<1> QED BY <1>3, <1>4

LEMMA IdsRead ==
  ASSUME LogInv, ReadersInv, NEW t \in Tasks, NEW s \in Nodes,
         ObtainListener(t, s) \/ \E excl \in BOOLEAN : ObtainWriter(t, s, excl)
  PROVE  ReadersInv'
<1> DEFINE k == NextId(s)
<1>1. /\ UNCHANGED <<waiting, call, panic>>
      /\ holder' = [holder EXCEPT ![s] = Extended(holder[s], k, t)]
  BY DEF ObtainListener, ObtainWriter, GiveId, taskVars
<1>2. /\ Maps /\ HooksAndHolders
      /\ \A x \in Nodes : Listeners(x) \subseteq 1 .. lastId[x]
      /\ lastId[s] \in Nat /\ k = lastId[s] + 1
  BY StreamsAssumption DEF LogInv, ReadersInv, IdsAreGiven, NextId
<1>3. k \notin Listeners(s)
  BY <1>2
<1> HIDE DEF k
<1>4. /\ \A x \in Nodes : \A l \in Listeners(x) : holder'[x][l] = holder[x][l]
      /\ DOMAIN holder' = Nodes
      /\ \A x \in Nodes : Listeners(x) \subseteq DOMAIN holder'[x]
      /\ k \in DOMAIN holder'[s]
  BY <1>1, <1>2, <1>3 DEF HooksAndHolders, Extended
<1>5. CASE ObtainListener(t, s)
  <2>1. /\ hooked' = [hooked EXCEPT ![s] = Extended(hooked[s], k, NoTask)]
        /\ buffer' = [buffer EXCEPT ![s] = Extended(buffer[s], k, <<>>)]
    BY <1>5 DEF ObtainListener, k
  <2>2. /\ \A x \in Nodes : \A l \in Listeners(x) :
             hooked'[x][l] = hooked[x][l] /\ buffer'[x][l] = buffer[x][l]
        /\ DOMAIN hooked' = Nodes
        /\ DOMAIN hooked'[s] = Listeners(s) \cup {k}
        /\ DOMAIN buffer'[s] = Listeners(s) \cup {k}
        /\ \A x \in Nodes \ {s} : /\ DOMAIN hooked'[x] = Listeners(x)
                                  /\ DOMAIN buffer'[x] = Listeners(x)
    BY <1>2, <1>3, <2>1 DEF Maps, HooksAndHolders, Extended, Listeners
  <2>3. HooksAndHolders'
    BY <1>4, <2>2, ZenonT(40) DEF HooksAndHolders, Listeners
  <2>4. \A x \in Tasks : ReaderIsFormed(x)'
    BY <1>1, <1>4, <2>2, ReaderStays
  <2> QED BY <1>1, <2>3, <2>4 DEF ReadersInv
<1>6. CASE \E excl \in BOOLEAN : ObtainWriter(t, s, excl)
  <2>1. hooked' = hooked /\ buffer' = buffer
    BY <1>6 DEF ObtainWriter
  <2>2. HooksAndHolders'
    BY <1>2, <1>4, <2>1 DEF HooksAndHolders, Listeners
  <2>3. \A x \in Tasks : ReaderIsFormed(x)'
    BY <1>1, <1>4, <2>1, ReaderStays
  <2> QED BY <1>1, <2>2, <2>3 DEF ReadersInv
<1> QED BY <1>5, <1>6

\* A write releases the readers of its node, who then have something to read.
LEMMA WriteReads ==
  ASSUME LogInv, ReadersInv, \A x, y \in Nodes : x = y,
         NEW t \in Tasks, NEW s \in Nodes, NEW n \in 1 .. MaxChunk,
         WriteStream(t, s, n)
  PROVE  ReadersInv'
<1> DEFINE bytes == [i \in 1 .. n |-> written[s] + i]
<1>1. /\ buffer' = [buffer EXCEPT ![s] =
                      [l \in DOMAIN buffer[s] |-> Appended(buffer[s][l], bytes)]]
      /\ UNCHANGED <<hooked, holder, call, panic>>
      /\ waiting' = [x \in Tasks |-> waiting[x] /\ x \notin Unblocked(s)]
  BY DEF WriteStream, WriteAllListeners
<1>2. /\ Maps /\ HooksAndHolders /\ waiting \in [Tasks -> BOOLEAN]
      /\ n \in Nat /\ n >= 1 /\ written[s] \in Nat
  BY StreamsAssumption DEF LogInv, ReadersInv, Maps
<1>3. \A l \in Listeners(s) : Appended(buffer[s][l], bytes) # <<>>
  <2> SUFFICES ASSUME NEW l \in Listeners(s)
               PROVE  Appended(buffer[s][l], bytes) # <<>>
    OBVIOUS
  <2>1. buffer[s][l] \in Seq(Nat)
    BY <1>2 DEF Maps
  <2>2. bytes \in Seq(Nat) /\ Len(bytes) = n
    BY <1>2
  <2> HIDE DEF bytes
  <2>3. Len(buffer[s][l] \o bytes) = Len(buffer[s][l]) + Len(bytes)
    BY <2>1, <2>2, ConcatAt
  <2>4. Len(buffer[s][l] \o bytes) >= 1 /\ Len(buffer[s][l]) \in Nat
    BY <1>2, <2>1, <2>2, <2>3
  <2> QED BY <2>4 DEF Appended
<1> HIDE DEF bytes
<1>4. /\ buffer'[s] = [l \in Listeners(s) |-> Appended(buffer[s][l], bytes)]
      /\ DOMAIN buffer'[s] = Listeners(s)
  BY <1>1, <1>2 DEF Maps, Listeners
<1>5. HooksAndHolders'
  BY <1>1, <1>2, <1>4 DEF HooksAndHolders, Listeners
<1>6. waiting' \in [Tasks -> BOOLEAN]
  BY <1>1
<1>7. ASSUME NEW x \in Tasks PROVE ReaderIsFormed(x)'
  <2> SUFFICES ASSUME call[x].kind = "read"
               PROVE  /\ holder[call[x].node][call[x].listener] = x
                      /\ ~waiting'[x]
                      /\ buffer'[call[x].node][call[x].listener] # <<>>
    BY <1>1 DEF ReaderIsFormed
  <2>1. call[x].listener \in Listeners(call[x].node) /\ call[x] \in Calls
    BY DEF LogInv, CallsAreFormed
  <2>2. call[x].node \in Nodes
    BY <2>1 DEF Calls, NoCall, OtherCall, ReadStreamCall
  <2>3. call[x].node = s
    BY <2>2
  <2>4. /\ holder[s][call[x].listener] = x
        /\ waiting[x] => hooked[s][call[x].listener] = x
    BY <2>3 DEF ReadersInv, ReaderIsFormed
  <2>5. ~waiting'[x]
    <3>1. CASE waiting[x]
      <4>1. call[x].listener \in DOMAIN hooked[s]
        BY <1>2, <2>1, <2>3 DEF HooksAndHolders
      <4>2. x \in Unblocked(s)
        BY <2>4, <3>1, <4>1 DEF Unblocked
      <4> QED BY <1>1, <4>2
    <3>2. CASE ~waiting[x]
      BY <1>1, <3>2
    <3> QED BY <3>1, <3>2
  <2>6. buffer'[s][call[x].listener] # <<>>
    BY <1>3, <1>4, <2>1, <2>3
  <2> QED BY <2>3, <2>4, <2>5, <2>6
<1> QED BY <1>1, <1>5, <1>6, <1>7 DEF ReadersInv

LEMMA TakeBytesElsewhere ==
  ASSUME Maps, NEW s \in Nodes, NEW l \in Listeners(s), NEW n, TakeBytes(s, l, n)
  PROVE  /\ \A x \in Nodes : Listeners(x)' = Listeners(x)
         /\ \A x \in Nodes : \A m \in Listeners(x) :
              ~(x = s /\ m = l) => buffer'[x][m] = buffer[x][m]
<1>1. PICK b2 : buffer' = [buffer EXCEPT ![s][l] = b2]
  BY DEF TakeBytes
<1>2. /\ \A x \in Nodes \ {s} : buffer'[x] = buffer[x]
      /\ buffer'[s] = [buffer[s] EXCEPT ![l] = b2]
  BY <1>1 DEF Maps
<1>3. /\ \A x \in Nodes : DOMAIN buffer'[x] = Listeners(x)
      /\ \A m \in Listeners(s) \ {l} : buffer'[s][m] = buffer[s][m]
  BY <1>2 DEF Maps, Listeners
<1> QED BY <1>2, <1>3 DEF Listeners

\* Without shared listeners nobody takes what another waits for.
LEMMA ReadReads ==
  ASSUME LogInv, ReadersInv, Shared = FALSE,
         NEW t \in Tasks, NEW s \in Nodes, NEW l \in DOMAIN buffer[s],
         NEW n \in 1 .. MaxChunk, ReadStream(t, s, l, n)
  PROVE  ReadersInv'
<1>1. /\ UNCHANGED <<hooked, holder, waiting, call, panic>>
      /\ TakeBytes(s, l, n) /\ holder[s][l] = t /\ call[t].kind # "read"
      /\ l \in Listeners(s) /\ Maps
  BY DEF ReadStream, taskVars, MayRead, InUserMode, NoCall, Listeners, LogInv
<1>2. /\ \A x \in Nodes : Listeners(x)' = Listeners(x)
      /\ \A x \in Nodes : \A m \in Listeners(x) :
           ~(x = s /\ m = l) => buffer'[x][m] = buffer[x][m]
  BY <1>1, TakeBytesElsewhere
<1>3. HooksAndHolders'
  BY <1>1, <1>2 DEF ReadersInv, HooksAndHolders
<1>4. ASSUME NEW x \in Tasks PROVE ReaderIsFormed(x)'
  <2>1. call[x].kind = "read" => ~(call[x].node = s /\ call[x].listener = l)
    <3>1. call[x].kind = "read" => holder[call[x].node][call[x].listener] = x
      BY DEF ReadersInv, ReaderIsFormed
    <3> QED BY <1>1, <3>1
  <2> QED BY <1>1, <1>2, <2>1, ReaderStays
<1> QED BY <1>1, <1>3, <1>4 DEF ReadersInv

LEMMA BlockReads ==
  ASSUME LogInv, ReadersInv, Shared = FALSE,
         NEW t \in Tasks, NEW s \in Nodes, NEW l \in DOMAIN buffer[s],
         NEW n \in 1 .. MaxChunk, BlockOnStream(t, s, l, n)
  PROVE  ReadersInv'
<1>1. /\ UNCHANGED <<buffer, holder, panic>>
      /\ waiting' = [waiting EXCEPT ![t] = TRUE]
      /\ call' = [call EXCEPT ![t] = ReadStreamCall(s, l, n)]
      /\ hooked' = [hooked EXCEPT ![s][l] = t]
      /\ holder[s][l] = t /\ buffer[s][l] = <<>>
      /\ l \in Listeners(s) /\ CallsAreFormed /\ HooksAndHolders
      /\ waiting \in [Tasks -> BOOLEAN]
  BY DEF BlockOnStream, MayRead, Listeners, LogInv, ReadersInv
<1>2. call \in [Tasks -> Calls]
  BY <1>1 DEF CallsAreFormed
<1>3. /\ \A x \in Nodes \ {s} : hooked'[x] = hooked[x]
      /\ hooked'[s] = [hooked[s] EXCEPT ![l] = t]
      /\ DOMAIN hooked' = Nodes
  BY <1>1 DEF HooksAndHolders
<1>4. /\ hooked'[s][l] = t
      /\ \A m \in Listeners(s) \ {l} : hooked'[s][m] = hooked[s][m]
      /\ \A x \in Nodes : DOMAIN hooked'[x] = Listeners(x)
  BY <1>1, <1>3 DEF HooksAndHolders
<1>5. HooksAndHolders'
  BY <1>1, <1>3, <1>4 DEF HooksAndHolders, Listeners
<1>6. waiting' \in [Tasks -> BOOLEAN]
  BY <1>1
<1>7. ASSUME NEW x \in Tasks PROVE ReaderIsFormed(x)'
  <2>1. CASE x = t
    <3>1. /\ call'[t] = ReadStreamCall(s, l, n) /\ waiting'[t] = TRUE
          /\ ReadStreamCall(s, l, n).node = s /\ ReadStreamCall(s, l, n).listener = l
      BY <1>1, <1>2 DEF ReadStreamCall
    <3> QED BY <1>1, <1>4, <2>1, <3>1 DEF ReaderIsFormed
  <2>2. CASE x # t
    <3>1. call[x].kind = "read" => ~(call[x].node = s /\ call[x].listener = l)
      <4>1. call[x].kind = "read" => holder[call[x].node][call[x].listener] = x
        BY DEF ReadersInv, ReaderIsFormed
      <4> QED BY <1>1, <2>2, <4>1
    <3>2. call'[x] = call[x] /\ waiting'[x] = waiting[x]
      BY <1>1, <1>2, <2>2
    <3> QED BY <1>1, <1>3, <1>4, <3>1, <3>2, ReaderStays, ZenonT(40)
  <2> QED BY <2>1, <2>2
<1> QED BY <1>1, <1>5, <1>6, <1>7 DEF ReadersInv

LEMMA ResumeReadReads ==
  ASSUME LogInv, ReadersInv, NEW t \in Tasks, ResumeRead(t)
  PROVE  ReadersInv'
<1> DEFINE c == call[t]
<1>1. /\ call' = [call EXCEPT ![t] = NoCall] /\ c.kind = "read" /\ ~waiting[t]
      /\ UNCHANGED <<hooked, holder, waiting>>
      /\ CallsAreFormed /\ Maps
  BY DEF ResumeRead, LogInv
<1>2. c \in Calls /\ c.listener \in Listeners(c.node) /\ call \in [Tasks -> Calls]
  BY <1>1 DEF CallsAreFormed
<1>3. c.node \in Nodes
  BY <1>1, <1>2 DEF Calls, NoCall, OtherCall, ReadStreamCall
<1>4. /\ buffer[c.node][c.listener] # <<>>
      /\ holder[c.node][c.listener] = t
  BY <1>1 DEF ReadersInv, ReaderIsFormed
<1>5. TakeBytes(c.node, c.listener, c.n) /\ panic' = panic
  BY <1>4 DEF ResumeRead
<1> HIDE DEF c
<1>6. /\ \A x \in Nodes : Listeners(x)' = Listeners(x)
      /\ \A x \in Nodes : \A m \in Listeners(x) :
           ~(x = c.node /\ m = c.listener) => buffer'[x][m] = buffer[x][m]
  BY <1>1, <1>2, <1>3, <1>5, TakeBytesElsewhere
<1>7. HooksAndHolders'
  BY <1>1, <1>6 DEF ReadersInv, HooksAndHolders
<1>8. ASSUME NEW x \in Tasks PROVE ReaderIsFormed(x)'
  <2>1. CASE x = t
    <3>1. call'[t] = NoCall
      BY <1>1, <1>2
    <3> QED BY <2>1, <3>1, CallTypes DEF ReaderIsFormed
  <2>2. CASE x # t
    <3>1. call[x].kind = "read" => ~(call[x].node = c.node /\ call[x].listener = c.listener)
      <4>1. call[x].kind = "read" => holder[call[x].node][call[x].listener] = x
        BY DEF ReadersInv, ReaderIsFormed
      <4> QED BY <1>4, <2>2, <4>1
    <3>2. call'[x] = call[x] /\ waiting'[x] = waiting[x]
      BY <1>1, <1>2, <2>2
    <3> QED BY <1>1, <1>6, <3>1, <3>2, ReaderStays
  <2> QED BY <2>1, <2>2
<1> QED BY <1>1, <1>5, <1>7, <1>8 DEF ReadersInv

LEMMA OtherCallReads ==
  ASSUME LogInv, ReadersInv, NEW t \in Tasks,
         BlockOnOther(t) \/ ResumeOther(t) \/ Exit(t)
  PROVE  ReadersInv'
<1>1. /\ UNCHANGED <<buffer, hooked, holder, panic>>
      /\ call \in [Tasks -> Calls] /\ waiting \in [Tasks -> BOOLEAN]
      /\ HooksAndHolders
  BY DEF BlockOnOther, ResumeOther, Exit, streamVars, LogInv, CallsAreFormed, ReadersInv
<1>2. HooksAndHolders'
  BY <1>1 DEF HooksAndHolders, Listeners
<1>3. /\ waiting' \in [Tasks -> BOOLEAN]
      /\ \A x \in Tasks \ {t} : call'[x] = call[x] /\ waiting'[x] = waiting[x]
      /\ \/ call'[t] = call[t] /\ waiting'[t] = waiting[t]
         \/ call'[t].kind # "read"
  <2>1. CASE BlockOnOther(t)
    BY <1>1, <2>1, CallTypes DEF BlockOnOther
  <2>2. CASE ResumeOther(t)
    BY <1>1, <2>2, CallTypes DEF ResumeOther
  <2>3. CASE Exit(t)
    BY <1>1, <2>3 DEF Exit
  <2> QED BY <2>1, <2>2, <2>3
<1>4. \A x \in Tasks : ReaderIsFormed(x)'
  <2> SUFFICES ASSUME NEW x \in Tasks PROVE ReaderIsFormed(x)'
    OBVIOUS
  <2>1. CASE call'[x] = call[x] /\ waiting'[x] = waiting[x]
    BY <1>1, <2>1, ReaderStays
  <2>2. CASE call'[x].kind # "read"
    BY <2>2 DEF ReaderIsFormed
  <2> QED BY <1>3, <2>1, <2>2
<1> QED BY <1>1, <1>2, <1>3, <1>4 DEF ReadersInv

LEMMA NextReads ==
  ASSUME Shared = FALSE, \A x, y \in Nodes : x = y, LogInv, ReadersInv, [Next]_vars
  PROVE  ReadersInv'
<1>1. CASE UNCHANGED vars
  <2>1. UNCHANGED <<buffer, hooked, holder, waiting, call, panic>>
    BY <1>1 DEF vars, streamVars, taskVars
  <2> QED BY <2>1 DEF ReadersInv, HooksAndHolders, Listeners, ReaderIsFormed
<1>2. CASE \E t \in Tasks, s \in Nodes :
             \/ \E excl \in BOOLEAN : ObtainWriter(t, s, excl)
             \/ ObtainListener(t, s)
             \/ \E n \in 1 .. MaxChunk :
                  \/ WriteStream(t, s, n)
                  \/ \E l \in DOMAIN buffer[s] :
                       ReadStream(t, s, l, n) \/ BlockOnStream(t, s, l, n)
  BY <1>2, IdsRead, WriteReads, ReadReads, BlockReads
<1>3. CASE \E t \in Tasks : ResumeRead(t) \/ BlockOnOther(t) \/ ResumeOther(t) \/ Exit(t)
  BY <1>3, ResumeReadReads, OtherCallReads
<1> QED BY <1>1, <1>2, <1>3 DEF Next

\* A task waits until what it waits for comes, if that is not a stream.
OthersInv == waiting \in [Tasks -> BOOLEAN] /\ call \in [Tasks -> Calls] /\ OtherWaitsAreKept

LEMMA NextKeepsOthers == LogInv /\ LogInv' /\ OthersInv /\ [Next]_vars => OthersInv'
<1> SUFFICES ASSUME LogInv, LogInv', OthersInv, [Next]_vars PROVE OthersInv'
  OBVIOUS
<1>1. call' \in [Tasks -> Calls]
  BY DEF LogInv, CallsAreFormed
<1>2. waiting' \in [Tasks -> BOOLEAN]
  <2>1. \/ waiting' = waiting
        \/ \E t \in Tasks : \/ waiting' = [waiting EXCEPT ![t] = TRUE]
                            \/ waiting' = [waiting EXCEPT ![t] = FALSE]
        \/ \E s \in Nodes : waiting' = [x \in Tasks |-> waiting[x] /\ x \notin Unblocked(s)]
    <3>1. CASE UNCHANGED vars
      BY <3>1 DEF vars, taskVars
    <3>2. CASE Next
      <4>1. CASE \E t \in Tasks, s \in Nodes :
                   \/ \E excl \in BOOLEAN : ObtainWriter(t, s, excl)
                   \/ ObtainListener(t, s)
                   \/ \E n \in 1 .. MaxChunk :
                        \/ WriteStream(t, s, n)
                        \/ \E l \in DOMAIN buffer[s] :
                             ReadStream(t, s, l, n) \/ BlockOnStream(t, s, l, n)
        BY <4>1 DEF taskVars, ObtainWriter, ObtainListener, WriteStream,
           WriteAllListeners, ReadStream, BlockOnStream
      <4>2. CASE \E t \in Tasks : ResumeRead(t) \/ BlockOnOther(t) \/ ResumeOther(t) \/ Exit(t)
        BY <4>2 DEF ResumeRead, BlockOnOther, ResumeOther, Exit
      <4> QED BY <3>2, <4>1, <4>2 DEF Next
    <3> QED BY <3>1, <3>2
  <2> QED BY <2>1 DEF OthersInv
<1>3. ASSUME NEW x \in Tasks, call'[x] = OtherCall PROVE waiting'[x]
  <2>1. call[x] = OtherCall => waiting[x]
    BY DEF OthersInv, OtherWaitsAreKept
  <2>2. CASE UNCHANGED <<call, waiting>>
    BY <1>3, <2>1, <2>2
  <2>3. CASE \E t \in Tasks, s \in Nodes, n \in 1 .. MaxChunk : WriteStream(t, s, n)
    <3>1. PICK s \in Nodes :
            call' = call /\ waiting' = [y \in Tasks |-> waiting[y] /\ y \notin Unblocked(s)]
      BY <2>3 DEF WriteStream, WriteAllListeners
    <3>2. x \notin Unblocked(s)
      BY <1>3, <3>1, CallTypes DEF Unblocked
    <3> QED BY <1>3, <2>1, <3>1, <3>2
  <2>4. CASE \E t \in Tasks, s \in Nodes, n \in 1 .. MaxChunk : \E l \in DOMAIN buffer[s] :
               BlockOnStream(t, s, l, n)
    BY <1>3, <2>1, <2>4 DEF BlockOnStream, OthersInv
  <2>5. CASE \E t \in Tasks : ResumeRead(t) \/ BlockOnOther(t) \/ ResumeOther(t)
    <3>1. PICK t \in Tasks : ResumeRead(t) \/ BlockOnOther(t) \/ ResumeOther(t)
      BY <2>5
    <3>2. \/ call' = [call EXCEPT ![t] = NoCall] /\ waiting' = waiting
          \/ call' = [call EXCEPT ![t] = OtherCall] /\ waiting' = [waiting EXCEPT ![t] = TRUE]
          \/ call' = [call EXCEPT ![t] = NoCall] /\ waiting' = [waiting EXCEPT ![t] = FALSE]
      BY <3>1 DEF ResumeRead, BlockOnOther, ResumeOther
    <3>3. NoCall # OtherCall /\ call \in [Tasks -> Calls] /\ waiting \in [Tasks -> BOOLEAN]
      BY DEF NoCall, OtherCall, OthersInv
    <3>4. CASE x = t
      BY <1>3, <3>2, <3>3, <3>4
    <3>5. CASE x # t
      BY <1>3, <2>1, <3>2, <3>3, <3>5
    <3> QED BY <3>4, <3>5
  <2> QED BY <2>2, <2>3, <2>4, <2>5 DEF Next, vars, taskVars, ObtainWriter, ObtainListener,
             ReadStream, Exit
<1> QED BY <1>1, <1>2, <1>3 DEF OthersInv, OtherWaitsAreKept

-----------------------------------------------------------------------------
(* The theorems.                                                           *)

\* Every listener gets every byte written since it joined, once, in order: the
\* buffers, cuts and released reads of the kernel implement Broadcast.
THEOREM StreamsAreBroadcasts == Spec => StreamsBroadcast
<1>1. Init => Log!Init
  BY DEF Init, Log!Init
<1> QED BY <1>1, InitLogs, NextLogs, PTL DEF Spec, StreamsBroadcast, Log!Spec

\* Without shared listeners, and with one stream, a reader sleeps only while its
\* listener is empty, and a released one has something to read.  With two streams
\* a hook that is left over releases a reader of the other.
THEOREM ReadersAreReleased ==
  ASSUME Shared = FALSE, \A x, y \in Nodes : x = y
  PROVE  Spec => []ReadersSleepOnlyWhenEmpty
<1>1. LogInv /\ ReadersInv /\ [Next]_vars => LogInv' /\ ReadersInv'
  BY NextLogs, NextReads
<1>2. ReadersInv => ReadersSleepOnlyWhenEmpty
  BY DEF ReadersInv, ReaderIsFormed, ReadersSleepOnlyWhenEmpty
<1> QED BY <1>1, <1>2, InitLogs, InitReads, PTL DEF Spec

\* A write releases nobody from another wait, however many streams and listeners
\* there are and whoever reads from them.
THEOREM OtherWaitsStay == Spec => []OtherWaitsAreKept
<1>1. Init => OthersInv
  BY DEF Init, OthersInv, OtherWaitsAreKept, Calls, NoCall, OtherCall
<1>2. LogInv /\ OthersInv /\ [Next]_vars => LogInv' /\ OthersInv'
  BY NextLogs, NextKeepsOthers
<1>3. OthersInv => OtherWaitsAreKept
  BY DEF OthersInv
<1> QED BY <1>1, <1>2, <1>3, InitLogs, PTL DEF Spec

-----------------------------------------------------------------------------
(* The stream that the keyboard service writes and getline reads: the line *)
(* is on the screen.  Terminal takes the stream as Broadcast promises it.  *)

\* What a screen, a stream and a line are made of.
Characters == STRING \cup {Newline, Backspace, Tab, Nul, Blank, "a", "1", "A", "!"}

Screens == [cells : [Cells -> Characters], x : 0 .. Width - 1, y : 0 .. Height - 1,
            begin : Cells \cup {Lost}]

\* The screen is blank from the cursor on.
BlankFrom(s, p) == \A i \in Cells : i >= p => s.cells[i] = Blank

\* The line a screen shows, from where it begins.
Shows(s, line) ==
  s.begin # Lost =>
    /\ At(s) = s.begin + Len(line)
    /\ \A i \in DOMAIN line : s.cells[s.begin + i - 1] = line[i]

\* A product has the order of its first factor.
LEMMA RowOrder ==
  ASSUME NEW W \in Nat, NEW a \in Nat, NEW b \in Nat, a <= b
  PROVE  a * W \in Nat /\ b * W \in Nat /\ a * W <= b * W
<1>1. PICK k \in Nat : b = a + k
  OBVIOUS
<1>2. b * W = a * W + k * W
  BY <1>1
<1>3. a * W \in Nat /\ k * W \in Nat /\ b * W \in Nat
  OBVIOUS
<1> QED BY <1>2, <1>3

\* The cells of a row lie between its beginning and the next row's.
LEMMA CursorIsOnScreen ==
  ASSUME NEW W \in Nat \ {0}, NEW H \in Nat \ {0}, NEW x \in 0 .. W - 1, NEW y \in 0 .. H - 1
  PROVE  /\ y * W \in Nat /\ W * H \in Nat /\ (H - 1) * W \in Nat
         /\ (H - 1) * W + W = W * H
         /\ (y + 1) * W = y * W + W
         /\ y * W + W <= W * H
         /\ y * W + x \in 0 .. W * H - 1
<1>1. y + 1 \in Nat /\ H \in Nat /\ y + 1 <= H /\ H - 1 \in Nat /\ W \in Nat
  OBVIOUS
<1>2. (y + 1) * W <= H * W /\ H * W \in Nat /\ y * W \in Nat /\ (H - 1) * W \in Nat
  BY <1>1, RowOrder
<1>3. (y + 1) * W = y * W + W /\ (H - 1) * W + W = H * W /\ H * W = W * H
  BY <1>1
<1> DEFINE p == y * W
           q == W * H
<1>4. p \in Nat /\ q \in Nat /\ p + W <= q /\ y * W = p
  BY <1>2, <1>3
<1>5. y * W + x = p + x
  OBVIOUS
<1> HIDE DEF p, q
<1>6. p + x \in 0 .. q - 1
  BY <1>4
<1> QED BY <1>2, <1>3, <1>4, <1>5, <1>6 DEF p, q

\* A new line: the next row, or the last one of a screen that has moved up.
LEMMA NewlineMoves ==
  ASSUME NEW s \in Screens
  PROVE  LET t == ShiftCursorNewline(s)
         IN  /\ t \in Screens
             /\ s.y + 1 < Height => t = [s EXCEPT !.x = 0, !.y = s.y + 1]
             /\ s.y + 1 = Height =>
                  /\ t.x = 0 /\ t.y = Height - 1
                  /\ \A i \in Cells :
                       t.cells[i] = IF i + Width \in Cells THEN s.cells[i + Width] ELSE Blank
                  /\ t.begin = IF s.begin \in Width .. Height * Width
                               THEN s.begin - Width ELSE Lost
<1> DEFINE u == [s EXCEPT !.x = 0, !.y = s.y + 1]
<1>1. Width \in Nat \ {0} /\ Height \in Nat \ {0} /\ 1 < Height
  BY TerminalAssumption
<1>2. /\ s.x \in 0 .. Width - 1 /\ s.y \in 0 .. Height - 1 /\ s.cells \in [Cells -> Characters]
      /\ s.begin \in Cells \cup {Lost}
  BY DEF Screens
<1>3. s = [cells |-> s.cells, x |-> s.x, y |-> s.y, begin |-> s.begin]
  BY DEF Screens
<1>4. u = [cells |-> s.cells, x |-> 0, y |-> s.y + 1, begin |-> s.begin]
  <2> DEFINE v == [s EXCEPT !.x = 0]
  <2>1. v = [cells |-> s.cells, x |-> 0, y |-> s.y, begin |-> s.begin]
    BY <1>2, <1>3
  <2>2. u = [v EXCEPT !.y = s.y + 1]
    OBVIOUS
  <2> HIDE DEF v, u
  <2> QED BY <2>1, <2>2
<1>5. CASE s.y + 1 < Height
  <2>1. ShiftCursorNewline(s) = u
    BY <1>4, <1>5 DEF ShiftCursorNewline, Scroll
  <2>2. u \in Screens
    BY <1>1, <1>2, <1>4, <1>5 DEF Screens
  <2>3. ~(s.y + 1 = Height)
    BY <1>1, <1>2, <1>5
  <2> QED BY <2>1, <2>2, <2>3
<1>6. CASE s.y + 1 = Height
  <2> DEFINE c == [i \in Cells |-> IF i + Width \in Cells THEN s.cells[i + Width]
                                    ELSE Blank]
             b == IF s.begin \in Width .. Height * Width THEN s.begin - Width ELSE Lost
             t == [cells |-> c, x |-> 0, y |-> Height - 1, begin |-> b]
  <2>1. At(u) = Height * Width
    <3>1. u.x = 0 /\ u.y = Height
      BY <1>4, <1>6
    <3>2. Height * Width + 0 = Height * Width
      BY <1>1
    <3> QED BY <3>1, <3>2 DEF At
  <2>2. ~(u.y < Height) /\ u.begin = s.begin /\ u.cells = s.cells
    BY <1>1, <1>4, <1>6
  <2>3. ShiftCursorNewline(s) = [u EXCEPT !.cells = c, !.y = Height - 1, !.begin = b]
    BY <2>1, <2>2 DEF ShiftCursorNewline, Scroll
  <2>4. ShiftCursorNewline(s) = t
    BY <1>4, <2>3
  <2>5. c \in [Cells -> Characters]
    <3>1. \A i \in Cells : s.cells[i] \in Characters
      BY <1>2
    <3>2. Blank \in Characters
      BY DEF Characters
    <3> QED BY <3>1, <3>2
  <2>6. b \in Cells \cup {Lost}
    <3>1. CASE s.begin \in Width .. Height * Width
      <4>1. Width * Height \in Nat /\ Height * Width = Width * Height
        BY <1>1
      <4>2. s.begin - Width \in 0 .. Width * Height - 1
        BY <1>1, <3>1, <4>1
      <4> QED BY <3>1, <4>2 DEF Cells
    <3> QED BY <3>1
  <2>7. t \in Screens
    <3>1. Height - 1 \in 0 .. Height - 1 /\ 0 \in 0 .. Width - 1
      BY <1>1
    <3> HIDE DEF c, b
    <3> QED BY <2>5, <2>6, <3>1 DEF Screens
  <2>8. ~(s.y + 1 < Height)
    BY <1>1, <1>6
  <2> QED BY <2>4, <2>7, <2>8, <1>6
<1> QED BY <1>1, <1>2, <1>5, <1>6

\* A character is written at the cursor, which moves to the next cell: in its
\* row, in the next row, or in the last one of a screen that has moved up.
LEMMA PutCharMoves ==
  ASSUME NEW s \in Screens,
         NEW c \in Characters \ {Newline, Tab, Backspace}
  PROVE  LET t == PutChar(s, c)
         IN  /\ t \in Screens
             /\ At(s) \in Cells
             /\ s.x + 1 < Width \/ s.y + 1 < Height =>
                  /\ At(t) = At(s) + 1
                  /\ t.cells = [s.cells EXCEPT ![At(s)] = c]
                  /\ t.begin = s.begin
             /\ s.x + 1 = Width /\ s.y + 1 = Height =>
                  /\ At(s) + 1 = Height * Width
                  /\ At(t) = Height * Width - Width
                  /\ \A i \in Cells :
                       t.cells[i] = IF i + Width \in Cells
                                    THEN [s.cells EXCEPT ![At(s)] = c][i + Width] ELSE Blank
                  /\ t.begin = IF s.begin \in Width .. Height * Width
                               THEN s.begin - Width ELSE Lost
<1> DEFINE u == [s EXCEPT !.cells[At(s)] = c]
           t == PutChar(s, c)
           d == [s.cells EXCEPT ![At(s)] = c]
<1>1. Width \in Nat \ {0} /\ Height \in Nat \ {0}
  BY TerminalAssumption
<1>2. /\ s.x \in 0 .. Width - 1 /\ s.y \in 0 .. Height - 1 /\ s.cells \in [Cells -> Characters]
      /\ s.begin \in Cells \cup {Lost}
      /\ s = [cells |-> s.cells, x |-> s.x, y |-> s.y, begin |-> s.begin]
  BY DEF Screens
<1>3. /\ s.y * Width \in Nat /\ Width * Height \in Nat
      /\ (s.y + 1) * Width = s.y * Width + Width
      /\ s.y * Width + s.x \in 0 .. Width * Height - 1
      /\ (Height - 1) * Width + Width = Width * Height /\ (Height - 1) * Width \in Nat
      /\ Width * Height = Height * Width
  BY <1>1, <1>2, CursorIsOnScreen
<1>4. At(s) \in Cells /\ At(s) = s.y * Width + s.x
  BY <1>3 DEF At, Cells
<1>5. d \in [Cells -> Characters]
  BY <1>2, <1>4
<1>6. u = [cells |-> d, x |-> s.x, y |-> s.y, begin |-> s.begin]
  BY <1>2
<1>7. u \in Screens
  <2> HIDE DEF u, d
  <2> QED BY <1>2, <1>5, <1>6 DEF Screens
<1>8. t = ShiftCursor(u)
  BY DEF PutChar
<1> HIDE DEF u, d, t
<1>9. u.cells = d /\ u.x = s.x /\ u.y = s.y /\ u.begin = s.begin
  BY <1>6
<1>10. CASE s.x + 1 < Width
  <2>1. t = [u EXCEPT !.x = u.x + 1]
    BY <1>8, <1>9, <1>10 DEF ShiftCursor
  <2>2. t = [cells |-> d, x |-> s.x + 1, y |-> s.y, begin |-> s.begin]
    BY <1>6, <2>1
  <2>3. t \in Screens
    <3>1. s.x + 1 \in 0 .. Width - 1
      BY <1>1, <1>2, <1>10
    <3> QED BY <1>2, <1>5, <2>2, <3>1 DEF Screens
  <2>4. At(t) = At(s) + 1
    <3>1. At(t) = s.y * Width + (s.x + 1)
      BY <2>2 DEF At
    <3> QED BY <1>2, <1>3, <1>4, <3>1
  <2>5. t.cells = d /\ t.begin = s.begin /\ ~(s.x + 1 = Width)
    BY <1>1, <1>2, <1>10, <2>2
  <2> QED BY <1>4, <2>3, <2>4, <2>5 DEF t, d
<1>11. CASE ~(s.x + 1 < Width)
  <2>0. s.x + 1 = Width /\ ~(u.x + 1 < Width)
    BY <1>1, <1>2, <1>9, <1>11
  <2>1. t = ShiftCursorNewline(u)
    BY <1>8, <2>0 DEF ShiftCursor
  <2>2. /\ t \in Screens
        /\ u.y + 1 < Height => t = [u EXCEPT !.x = 0, !.y = u.y + 1]
        /\ u.y + 1 = Height =>
                  /\ t.x = 0 /\ t.y = Height - 1
                  /\ \A i \in Cells :
                       t.cells[i] = IF i + Width \in Cells THEN u.cells[i + Width] ELSE Blank
                  /\ t.begin = IF u.begin \in Width .. Height * Width
                               THEN u.begin - Width ELSE Lost
    BY <1>7, <2>1, NewlineMoves
  <2>3. CASE s.y + 1 < Height
    <3>1. t = [u EXCEPT !.x = 0, !.y = u.y + 1]
      BY <1>9, <2>2, <2>3
    <3>2. t.cells = d /\ t.begin = s.begin /\ t.x = 0 /\ t.y = s.y + 1
      <4> DEFINE v == [u EXCEPT !.x = 0]
      <4>1. v = [cells |-> d, x |-> 0, y |-> s.y, begin |-> s.begin]
        BY <1>6
      <4>2. t = [v EXCEPT !.y = s.y + 1]
        BY <1>9, <3>1
      <4> HIDE DEF v
      <4> QED BY <4>1, <4>2
    <3>3. At(t) = (s.y + 1) * Width + 0
      BY <3>2 DEF At
    <3>4. At(t) = At(s) + 1
      BY <1>1, <1>2, <1>3, <1>4, <2>0, <3>3
    <3>5. ~(s.y + 1 = Height)
      BY <1>1, <1>2, <2>3
    <3> QED BY <1>4, <2>2, <3>2, <3>4, <3>5 DEF t, d
  <2>4. CASE s.y + 1 = Height
    <3>1. At(t) = (Height - 1) * Width + 0
      BY <1>9, <2>2, <2>4 DEF At
    <3>2. At(t) = Height * Width - Width
      BY <1>1, <1>3, <3>1
    <3>3. At(s) + 1 = Height * Width
      <4>1. s.y = Height - 1
        BY <1>1, <1>2, <2>4
      <4>2. At(s) = (Height - 1) * Width + s.x
        BY <1>4, <4>1
      <4> QED BY <1>1, <1>2, <1>3, <2>0, <4>2
    <3>4. ~(s.y + 1 < Height) /\ ~(s.x + 1 < Width)
      BY <1>1, <1>2, <1>11, <2>4
    <3>5. /\ \A i \in Cells :
               t.cells[i] = IF i + Width \in Cells THEN d[i + Width] ELSE Blank
          /\ t.begin = IF s.begin \in Width .. Height * Width
                       THEN s.begin - Width ELSE Lost
      BY <1>9, <2>2, <2>4
    <3> QED BY <1>4, <2>2, <3>2, <3>3, <3>4, <3>5 DEF t, d
  <2> QED BY <1>1, <1>2, <2>3, <2>4
<1> QED BY <1>10, <1>11

\* The cell under the cursor.
LEMMA CursorCell ==
  ASSUME NEW s \in Screens
  PROVE  /\ At(s) \in Cells /\ At(s) \in Nat
         /\ Width * Height \in Nat /\ Height * Width = Width * Height
         /\ Cells = 0 .. Width * Height - 1
         /\ Lost \notin Cells
<1>1. Width \in Nat \ {0} /\ Height \in Nat \ {0}
  BY TerminalAssumption
<1>2. s.x \in 0 .. Width - 1 /\ s.y \in 0 .. Height - 1
  BY DEF Screens
<1>3. Width * Height \in Nat /\ s.y * Width + s.x \in 0 .. Width * Height - 1
  BY <1>1, <1>2, CursorIsOnScreen
<1>4. Width * Height = Height * Width
  BY <1>1
<1> QED BY <1>3, <1>4 DEF At, Cells, Lost

\* What is written at the cursor extends the line, and leaves the rest blank.
LEMMA PutCharShows ==
  ASSUME NEW s \in Screens, BlankFrom(s, At(s)),
         NEW c \in Characters \ {Newline, Tab, Backspace}
  PROVE  LET t == PutChar(s, c)
         IN  /\ t \in Screens
             /\ BlankFrom(t, At(t))
             /\ s.begin = Lost => t.begin = Lost
             /\ \A line \in Seq(Characters) : Shows(s, line) => Shows(t, Append(line, c))
<1> DEFINE t == PutChar(s, c)
           d == [s.cells EXCEPT ![At(s)] = c]
           n == Width * Height
           p == At(s)
<1>1. Width \in Nat \ {0} /\ Height \in Nat \ {0} /\ 1 < Height
  BY TerminalAssumption
<1>2. /\ s.x \in 0 .. Width - 1 /\ s.y \in 0 .. Height - 1 /\ s.cells \in [Cells -> Characters]
      /\ s.begin \in Cells \cup {Lost}
  BY DEF Screens
<1>3. n \in Nat /\ Height * Width = n /\ Cells = 0 .. n - 1 /\ Lost = n + 1 /\ p \in 0 .. n - 1
  BY CursorCell DEF Lost
<1>4. /\ t \in Screens
      /\ s.x + 1 < Width \/ s.y + 1 < Height =>
           At(t) = p + 1 /\ t.cells = d /\ t.begin = s.begin
      /\ s.x + 1 = Width /\ s.y + 1 = Height =>
           /\ p + 1 = n /\ At(t) = n - Width
           /\ \A i \in Cells :
                t.cells[i] = IF i + Width \in Cells THEN d[i + Width] ELSE Blank
           /\ t.begin = IF s.begin \in Width .. n THEN s.begin - Width ELSE Lost
  BY <1>3, PutCharMoves
<1>5. d \in [Cells -> Characters] /\ \A i \in Cells : d[i] = IF i = p THEN c ELSE s.cells[i]
  BY <1>2, <1>3
<1>6. \A i \in Cells : i >= p => s.cells[i] = Blank
  BY DEF BlankFrom
<1> HIDE DEF t, d, n, p
<1>7. ASSUME NEW line \in Seq(Characters), Shows(s, line), s.begin # Lost
      PROVE  /\ Len(line) \in Nat /\ s.begin \in 0 .. n - 1 /\ p = s.begin + Len(line)
             /\ Append(line, c) \in Seq(Characters) /\ Len(Append(line, c)) = Len(line) + 1
             /\ DOMAIN Append(line, c) = 1 .. Len(line) + 1
             /\ \A i \in 1 .. Len(line) + 1 : d[s.begin + i - 1] = Append(line, c)[i]
  <2>1. /\ Len(line) \in Nat /\ s.begin \in 0 .. n - 1 /\ p = s.begin + Len(line)
        /\ \A i \in 1 .. Len(line) : s.cells[s.begin + i - 1] = line[i]
    <3>1. p = s.begin + Len(line) /\ \A i \in DOMAIN line : s.cells[s.begin + i - 1] = line[i]
      BY <1>7 DEF Shows, p
    <3>2. Len(line) \in Nat /\ DOMAIN line = 1 .. Len(line)
      OBVIOUS
    <3>3. s.begin \in 0 .. n - 1
      BY <1>2, <1>3, <1>7
    <3> QED BY <3>1, <3>2, <3>3
  <2>2. /\ Append(line, c) \in Seq(Characters) /\ Len(Append(line, c)) = Len(line) + 1
        /\ DOMAIN Append(line, c) = 1 .. Len(line) + 1
        /\ Append(line, c)[Len(line) + 1] = c
        /\ \A i \in 1 .. Len(line) : Append(line, c)[i] = line[i]
    OBVIOUS
  <2>3. ASSUME NEW i \in 1 .. Len(line) + 1 PROVE d[s.begin + i - 1] = Append(line, c)[i]
    <3>1. CASE i = Len(line) + 1
      <4>1. s.begin + i - 1 = p
        BY <2>1, <3>1
      <4> QED BY <1>3, <1>5, <2>2, <3>1, <4>1
    <3>2. CASE i # Len(line) + 1
      <4>0. Len(line) \in Nat /\ s.begin \in Nat /\ p \in 0 .. n - 1 /\ p = s.begin + Len(line)
        BY <1>3, <2>1
      <4> DEFINE k == Len(line)
                 b == s.begin
      <4>a. /\ k \in Nat /\ b \in Nat /\ p \in 0 .. n - 1 /\ p = b + k /\ n \in Nat
            /\ i \in 1 .. k + 1 /\ i # k + 1
        BY <1>3, <3>2, <4>0
      <4> HIDE DEF k, b
      <4>b. i \in 1 .. k /\ b + i - 1 # p /\ b + i - 1 \in 0 .. n - 1
        BY <4>a
      <4>1. i \in 1 .. Len(line) /\ s.begin + i - 1 # p /\ s.begin + i - 1 \in 0 .. n - 1
        BY <4>b DEF k, b
      <4>2. d[s.begin + i - 1] = s.cells[s.begin + i - 1]
        BY <1>3, <1>5, <4>1
      <4> QED BY <2>1, <2>2, <4>1, <4>2
    <3> QED BY <3>1, <3>2
  <2> QED BY <2>1, <2>2, <2>3
<1>8. CASE s.x + 1 < Width \/ s.y + 1 < Height
  <2>1. At(t) = p + 1 /\ t.cells = d /\ t.begin = s.begin
    BY <1>4, <1>8
  <2>2. BlankFrom(t, At(t))
    <3>1. ASSUME NEW i \in Cells, i >= p + 1 PROVE d[i] = Blank
      <4>1. i >= p /\ i # p
        BY <1>3, <3>1
      <4> QED BY <1>5, <1>6, <4>1
    <3> QED BY <2>1, <3>1 DEF BlankFrom
  <2>3. ASSUME NEW line \in Seq(Characters), Shows(s, line) PROVE Shows(t, Append(line, c))
    <3>1. SUFFICES ASSUME s.begin # Lost PROVE Shows(t, Append(line, c))
      BY <2>1 DEF Shows
    <3>2. /\ At(t) = t.begin + Len(Append(line, c))
          /\ \A i \in DOMAIN Append(line, c) : t.cells[t.begin + i - 1] = Append(line, c)[i]
      <4> DEFINE k == Len(line)
                 b == s.begin
                 l == Append(line, c)
      <4>1. /\ k \in Nat /\ b \in 0 .. n - 1 /\ p = b + k /\ Len(l) = k + 1
            /\ DOMAIN l = 1 .. k + 1
            /\ \A i \in 1 .. k + 1 : d[b + i - 1] = l[i]
        BY <1>7, <2>3, <3>1
      <4>2. t.begin = b /\ t.cells = d /\ At(t) = p + 1
        BY <2>1
      <4> HIDE DEF k, b, l
      <4>3. b + (k + 1) = p + 1
        BY <1>3, <4>1
      <4>4. At(t) = t.begin + Len(l)
        BY <4>1, <4>2, <4>3
      <4>5. \A i \in DOMAIN l : t.cells[t.begin + i - 1] = l[i]
        BY <4>1, <4>2, Zenon
      <4> QED BY <4>4, <4>5 DEF l
    <3> QED BY <3>2 DEF Shows
  <2> QED BY <1>4, <2>1, <2>2, <2>3 DEF t
<1>9. CASE ~(s.x + 1 < Width \/ s.y + 1 < Height)
  <2>1. /\ p + 1 = n /\ At(t) = n - Width
        /\ \A i \in Cells :
             t.cells[i] = IF i + Width \in Cells THEN d[i + Width] ELSE Blank
        /\ t.begin = IF s.begin \in Width .. n THEN s.begin - Width ELSE Lost
    <3>1. s.x + 1 = Width /\ s.y + 1 = Height
      BY <1>1, <1>2, <1>9
    <3> QED BY <1>4, <3>1
  <2>2. BlankFrom(t, At(t))
    <3>1. ASSUME NEW i \in Cells, i >= n - Width PROVE t.cells[i] = Blank
      <4>1. i + Width \notin Cells
        BY <1>1, <1>3, <3>1
      <4> QED BY <2>1, <4>1
    <3> QED BY <2>1, <3>1 DEF BlankFrom
  <2>3. s.begin = Lost => t.begin = Lost
    BY <1>1, <1>3, <2>1
  <2>4. ASSUME NEW line \in Seq(Characters), Shows(s, line) PROVE Shows(t, Append(line, c))
    <3>1. SUFFICES ASSUME t.begin # Lost PROVE Shows(t, Append(line, c))
      BY DEF Shows
    <3>2. s.begin # Lost /\ s.begin \in Width .. n /\ t.begin = s.begin - Width
      BY <2>1, <2>3, <3>1
    <3>3. /\ Len(line) \in Nat /\ s.begin \in 0 .. n - 1 /\ p = s.begin + Len(line)
          /\ Len(Append(line, c)) = Len(line) + 1
          /\ DOMAIN Append(line, c) = 1 .. Len(line) + 1
          /\ \A i \in 1 .. Len(line) + 1 : d[s.begin + i - 1] = Append(line, c)[i]
      BY <1>7, <2>4, <3>2
    <3> DEFINE k == Len(line)
               b == s.begin
    <3>4. /\ k \in Nat /\ b \in 0 .. n - 1 /\ p = b + k /\ p + 1 = n /\ At(t) = n - Width
          /\ Len(Append(line, c)) = k + 1 /\ t.begin = b - Width /\ b \in Width .. n
          /\ DOMAIN Append(line, c) = 1 .. k + 1
      BY <2>1, <3>2, <3>3
    <3>5. \A i \in 1 .. k + 1 : d[b + i - 1] = Append(line, c)[i]
      BY <3>3
    <3> HIDE DEF k, b
    <3>6. At(t) = t.begin + Len(Append(line, c))
      BY <1>1, <1>3, <3>4
    <3>7. ASSUME NEW i \in 1 .. k + 1
          PROVE  t.cells[t.begin + i - 1] = Append(line, c)[i]
      <4>1. /\ t.begin + i - 1 \in Cells /\ t.begin + i - 1 + Width \in Cells
            /\ t.begin + i - 1 + Width = b + i - 1
        BY <1>1, <1>3, <3>4
      <4>2. t.cells[t.begin + i - 1] = d[b + i - 1]
        BY <2>1, <4>1
      <4> QED BY <3>5, <4>2
    <3> QED BY <3>6, <3>7, <3>4 DEF Shows
  <2> QED BY <1>4, <2>2, <2>3, <2>4 DEF t
<1> QED BY <1>8, <1>9

\* After a new line the rest is blank as well.
LEMMA NewlineShows ==
  ASSUME NEW s \in Screens, BlankFrom(s, At(s))
  PROVE  LET t == ShiftCursorNewline(s)
         IN  /\ t \in Screens
             /\ BlankFrom(t, At(t))
             /\ s.begin = Lost => t.begin = Lost
<1> DEFINE t == ShiftCursorNewline(s)
           n == Width * Height
<1>1. Width \in Nat \ {0} /\ Height \in Nat \ {0} /\ 1 < Height
  BY TerminalAssumption
<1>2. s.x \in 0 .. Width - 1 /\ s.y \in 0 .. Height - 1
  BY DEF Screens
<1>3. n \in Nat /\ Height * Width = n /\ Cells = 0 .. n - 1 /\ Lost = n + 1
  BY CursorCell DEF Lost
<1>4. /\ s.y * Width \in Nat /\ (s.y + 1) * Width = s.y * Width + Width
      /\ (Height - 1) * Width + Width = n /\ (Height - 1) * Width \in Nat
  BY <1>1, <1>2, CursorIsOnScreen
<1>5. At(s) = s.y * Width + s.x
  BY DEF At
<1>6. \A i \in Cells : i >= At(s) => s.cells[i] = Blank
  BY DEF BlankFrom
<1>7. /\ t \in Screens
      /\ s.y + 1 < Height => t = [s EXCEPT !.x = 0, !.y = s.y + 1]
      /\ s.y + 1 = Height =>
           /\ t.x = 0 /\ t.y = Height - 1
           /\ \A i \in Cells :
                t.cells[i] = IF i + Width \in Cells THEN s.cells[i + Width] ELSE Blank
           /\ t.begin = IF s.begin \in Width .. Height * Width
                        THEN s.begin - Width ELSE Lost
  BY NewlineMoves
<1> HIDE DEF t, n
<1>8. CASE s.y + 1 < Height
  <2>1. t.cells = s.cells /\ t.begin = s.begin /\ t.x = 0 /\ t.y = s.y + 1
    <3> DEFINE v == [s EXCEPT !.x = 0]
    <3>1. v = [cells |-> s.cells, x |-> 0, y |-> s.y, begin |-> s.begin]
      BY DEF Screens
    <3>2. t = [v EXCEPT !.y = s.y + 1]
      BY <1>7, <1>8
    <3> HIDE DEF v
    <3> QED BY <3>1, <3>2
  <2>2. At(t) = (s.y + 1) * Width + 0
    BY <2>1 DEF At
  <2>3. At(t) >= At(s) /\ At(t) \in Nat /\ At(s) \in Nat
    BY <1>1, <1>2, <1>4, <1>5, <2>2
  <2>4. \A i \in Cells : i >= At(t) => i >= At(s)
    BY <1>3, <2>3
  <2>5. BlankFrom(t, At(t))
    BY <1>6, <2>1, <2>4 DEF BlankFrom
  <2> QED BY <1>7, <2>1, <2>5 DEF t
<1>9. CASE s.y + 1 = Height
  <2>1. At(t) = (Height - 1) * Width + 0
    BY <1>7, <1>9 DEF At
  <2>2. At(t) = n - Width
    BY <1>1, <1>3, <1>4, <2>1
  <2>3. ASSUME NEW i \in Cells, i >= n - Width PROVE t.cells[i] = Blank
    <3>1. i + Width \notin Cells
      BY <1>1, <1>3, <2>3
    <3> QED BY <1>7, <1>9, <3>1
  <2>4. BlankFrom(t, At(t))
    BY <2>2, <2>3 DEF BlankFrom
  <2>5. s.begin = Lost => t.begin = Lost
    BY <1>1, <1>3, <1>7, <1>9
  <2> QED BY <1>7, <2>4, <2>5 DEF t
<1> QED BY <1>1, <1>2, <1>8, <1>9

\* A tab leaves the rest blank, and the line's beginning is given up.
LEMMA TabShows ==
  ASSUME NEW s \in Screens, BlankFrom(s, At(s))
  PROVE  LET t == ShiftCursorTab(s)
         IN  t \in Screens /\ BlankFrom(t, At(t)) /\ t.begin = Lost
<1> DEFINE t == ShiftCursorTab(s)
           u == [s EXCEPT !.begin = Lost]
           x == s.x - (s.x % TabWidth) + TabWidth
<1>1. Width \in Nat \ {0} /\ Height \in Nat \ {0} /\ TabWidth \in Nat \ {0}
  BY TerminalAssumption
<1>2. /\ s.x \in 0 .. Width - 1 /\ s.y \in 0 .. Height - 1 /\ s.cells \in [Cells -> Characters]
  BY DEF Screens
<1>3. u \in Screens /\ u = [cells |-> s.cells, x |-> s.x, y |-> s.y, begin |-> Lost]
  BY DEF Screens
<1>4. x \in Nat /\ s.x < x
  <2>1. s.x % TabWidth \in 0 .. TabWidth - 1
    BY <1>1, <1>2
  <2> QED BY <1>1, <1>2, <2>1
<1>5. t = IF x < Width THEN [u EXCEPT !.x = x] ELSE ShiftCursorNewline(u)
  BY DEF ShiftCursorTab
<1>6. \A i \in Cells : i >= At(s) => s.cells[i] = Blank
  BY DEF BlankFrom
<1>7. s.y * Width \in Nat /\ At(s) = s.y * Width + s.x /\ Cells = 0 .. Width * Height - 1
      /\ Width * Height \in Nat
  BY <1>1, <1>2, CursorCell DEF At
<1> HIDE DEF t, u, x
<1>8. CASE x < Width
  <2>1. t = [cells |-> s.cells, x |-> x, y |-> s.y, begin |-> Lost]
    BY <1>3, <1>5, <1>8
  <2>2. x \in 0 .. Width - 1
    BY <1>1, <1>4, <1>8
  <2>3. t \in Screens
    BY <1>2, <2>1, <2>2 DEF Screens
  <2>4. At(t) = s.y * Width + x
    BY <2>1 DEF At
  <2>5. \A i \in Cells : i >= At(t) => i >= At(s)
    <3> DEFINE r == s.y * Width
    <3>1. r \in Nat /\ At(s) = r + s.x /\ At(t) = r + x
      BY <1>7, <2>4
    <3>2. At(s) \in Nat /\ At(t) \in Nat /\ At(t) >= At(s)
      <4> HIDE DEF r
      <4> QED BY <1>2, <1>4, <3>1
    <3>3. \A i \in Cells : i \in Nat
      BY <1>7
    <3> QED BY <3>2, <3>3
  <2>6. BlankFrom(t, At(t))
    BY <1>6, <2>1, <2>5 DEF BlankFrom
  <2> QED BY <2>1, <2>3, <2>6 DEF t
<1>9. CASE ~(x < Width)
  <2>1. t = ShiftCursorNewline(u)
    BY <1>5, <1>9
  <2>2. At(u) = At(s) /\ u.cells = s.cells /\ u.begin = Lost
    BY <1>3 DEF At
  <2>3. BlankFrom(u, At(u))
    BY <2>2 DEF BlankFrom
  <2> QED BY <1>3, <2>1, <2>2, <2>3, NewlineShows DEF t
<1> QED BY <1>8, <1>9

\* Backwards the cursor moves to the cell before; from the first one to the last
\* one of its row.
LEMMA BackspaceMoves ==
  ASSUME NEW s \in Screens
  PROVE  LET t == ShiftCursorBackward(s)
         IN  /\ t \in Screens /\ t.cells = s.cells /\ t.begin = s.begin
             /\ At(s) > 0 => At(t) = At(s) - 1
             /\ At(s) = 0 => At(t) = Width - 1 /\ t.y = 0
<1> DEFINE t == ShiftCursorBackward(s)
<1>1. Width \in Nat \ {0} /\ Height \in Nat \ {0}
  BY TerminalAssumption
<1>2. /\ s.x \in 0 .. Width - 1 /\ s.y \in 0 .. Height - 1 /\ s.cells \in [Cells -> Characters]
      /\ s.begin \in Cells \cup {Lost}
      /\ s = [cells |-> s.cells, x |-> s.x, y |-> s.y, begin |-> s.begin]
  BY DEF Screens
<1>3. s.y * Width \in Nat /\ At(s) = s.y * Width + s.x
  BY <1>1, <1>2 DEF At
<1>4. CASE s.x > 0
  <2>1. t = [s EXCEPT !.x = s.x - 1]
    BY <1>4 DEF ShiftCursorBackward
  <2>2. t = [cells |-> s.cells, x |-> s.x - 1, y |-> s.y, begin |-> s.begin]
    BY <1>2, <2>1
  <2> HIDE DEF t
  <2>3. s.x - 1 \in 0 .. Width - 1
    BY <1>1, <1>2, <1>4
  <2>4. t \in Screens
    BY <1>2, <2>2, <2>3 DEF Screens
  <2>5. At(t) = s.y * Width + (s.x - 1)
    BY <2>2 DEF At
  <2>6. At(s) > 0 /\ At(t) = At(s) - 1
    BY <1>2, <1>3, <1>4, <2>5
  <2> QED BY <2>2, <2>4, <2>6 DEF t
<1>5. CASE s.x = 0
  <2> DEFINE y == IF s.y = 0 THEN 0 ELSE s.y - 1
             v == [s EXCEPT !.x = Width - 1]
  <2>1. t = [v EXCEPT !.y = y]
    BY <1>2, <1>5 DEF ShiftCursorBackward
  <2>2. v = [cells |-> s.cells, x |-> Width - 1, y |-> s.y, begin |-> s.begin]
    BY <1>2
  <2> HIDE DEF v, t
  <2>3. t = [cells |-> s.cells, x |-> Width - 1, y |-> y, begin |-> s.begin]
    BY <2>1, <2>2
  <2>4. y \in 0 .. Height - 1 /\ Width - 1 \in 0 .. Width - 1
    BY <1>1, <1>2
  <2>5. At(t) = y * Width + (Width - 1)
    BY <2>3 DEF At
  <2>6. t \in Screens
    BY <1>2, <2>3, <2>4 DEF Screens
  <2>7. CASE s.y = 0
    <3>1. y = 0 /\ 0 * Width = 0
      BY <1>1, <2>7
    <3>2. At(t) = Width - 1 /\ At(s) = 0
      BY <1>1, <1>3, <1>5, <2>5, <2>7, <3>1
    <3> QED BY <2>3, <2>6, <3>1, <3>2 DEF t
  <2>8. CASE s.y # 0
    <3>1. y \in Nat /\ s.y = y + 1
      BY <1>2, <2>8
    <3>2. s.y * Width = y * Width + Width /\ y * Width \in Nat
      BY <1>1, <3>1
    <3>3. At(s) > 0 /\ At(t) = At(s) - 1
      BY <1>1, <1>3, <1>5, <2>5, <3>2
    <3> QED BY <2>3, <2>6, <3>3 DEF t
  <2> QED BY <2>7, <2>8
<1> QED BY <1>2, <1>4, <1>5

\* Backspace, blank, backspace: the last character of the line is taken back.
Rubbed(s) ==
  ShiftCursorBackward(PutChar(ShiftCursorBackward(s), Blank))

LEMMA RubShows ==
  ASSUME NEW s \in Screens, BlankFrom(s, At(s))
  PROVE  LET t == Rubbed(s)
         IN  /\ t \in Screens
             /\ BlankFrom(t, At(t))
             /\ t.begin = s.begin
             /\ \A line \in Seq(Characters) :
                  line # <<>> /\ Shows(s, line) => Shows(t, Front(line))
<1> DEFINE t == Rubbed(s)
           u == ShiftCursorBackward(s)
           v == PutChar(u, Blank)
           n == Width * Height
           p == At(s)
           q == At(u)
<1>1. Width \in Nat \ {0} /\ Height \in Nat \ {0} /\ 1 < Height
  BY TerminalAssumption
<1>2. s.cells \in [Cells -> Characters] /\ s.begin \in Cells \cup {Lost}
  BY DEF Screens
<1>3. n \in Nat /\ Height * Width = n /\ Cells = 0 .. n - 1 /\ Lost = n + 1 /\ p \in 0 .. n - 1
  BY CursorCell DEF Lost
<1>4. /\ u \in Screens /\ u.cells = s.cells /\ u.begin = s.begin
      /\ p > 0 => q = p - 1
      /\ p = 0 => q = Width - 1 /\ u.y = 0
  BY BackspaceMoves
<1>5. Blank \in Characters \ {Newline, Tab, Backspace}
  BY DEF Characters, Blank, Newline, Tab, Backspace
<1> HIDE DEF u, n, p, q
<1>6. /\ v \in Screens
      /\ q \in Cells
      /\ u.x + 1 < Width \/ u.y + 1 < Height =>
           At(v) = q + 1 /\ v.cells = [u.cells EXCEPT ![q] = Blank] /\ v.begin = u.begin
      /\ u.x + 1 = Width /\ u.y + 1 = Height => q + 1 = n
  BY <1>3, <1>4, <1>5, PutCharMoves DEF q
<1>7. t = ShiftCursorBackward(v)
  BY DEF Rubbed, u
<1> HIDE DEF v
<1>8. u.x + 1 < Width \/ u.y + 1 < Height
  <2>1. u.x \in 0 .. Width - 1 /\ u.y \in 0 .. Height - 1
    BY <1>4 DEF Screens
  <2>2. SUFFICES ASSUME u.x + 1 = Width, u.y + 1 = Height PROVE FALSE
    BY <1>1, <2>1
  <2>3. q + 1 = n
    BY <1>6, <2>2
  <2> QED BY <1>1, <1>3, <1>4, <2>2, <2>3
<1>9. At(v) = q + 1 /\ v.cells = [s.cells EXCEPT ![q] = Blank] /\ v.begin = s.begin
  BY <1>4, <1>6, <1>8
<1>10. q \in 0 .. n - 1
  BY <1>3, <1>6
<1>11. /\ t \in Screens /\ t.cells = [s.cells EXCEPT ![q] = Blank] /\ t.begin = s.begin
       /\ At(t) = q
  <2>1. /\ t \in Screens /\ t.cells = v.cells /\ t.begin = v.begin
        /\ At(v) > 0 => At(t) = At(v) - 1
    BY <1>6, <1>7, BackspaceMoves
  <2>2. At(v) > 0 /\ At(v) - 1 = q
    BY <1>3, <1>9, <1>10
  <2> QED BY <1>9, <2>1, <2>2
<1>12. \A i \in Cells : t.cells[i] = IF i = q THEN Blank ELSE s.cells[i]
  BY <1>2, <1>11
<1>13. \A i \in Cells : i >= p => s.cells[i] = Blank
  BY DEF BlankFrom, p
<1> HIDE DEF t
<1>14. BlankFrom(t, At(t))
  <2>1. ASSUME NEW i \in Cells, i >= q, i # q PROVE i >= p
    BY <1>1, <1>3, <1>4, <1>10, <2>1
  <2>2. \A i \in Cells : i >= q => t.cells[i] = Blank
    BY <1>12, <1>13, <2>1
  <2> QED BY <1>11, <2>2 DEF BlankFrom
<1>15. ASSUME NEW line \in Seq(Characters), line # <<>>, Shows(s, line)
       PROVE  Shows(t, Front(line))
  <2>1. SUFFICES ASSUME s.begin # Lost PROVE Shows(t, Front(line))
    BY <1>11 DEF Shows
  <2> DEFINE k == Len(line)
             b == s.begin
  <2>2. p = b + k /\ \A i \in DOMAIN line : s.cells[b + i - 1] = line[i]
    BY <1>15, <2>1 DEF Shows, p
  <2>3. /\ k \in Nat /\ k > 0 /\ DOMAIN line = 1 .. k
        /\ Len(Front(line)) = k - 1 /\ DOMAIN Front(line) = 1 .. k - 1
        /\ \A i \in 1 .. k - 1 : Front(line)[i] = line[i]
    <3>1. k \in Nat /\ DOMAIN line = 1 .. k
      OBVIOUS
    <3>2. k > 0
      BY <1>15
    <3>3. Front(line) = SubSeq(line, 1, k - 1)
      BY DEF Front
    <3> HIDE DEF k
    <3>4. /\ Len(SubSeq(line, 1, k - 1)) = k - 1 /\ DOMAIN SubSeq(line, 1, k - 1) = 1 .. k - 1
          /\ \A i \in 1 .. k - 1 : SubSeq(line, 1, k - 1)[i] = line[i]
      BY <3>1, <3>2 DEF k
    <3> QED BY <3>1, <3>2, <3>3, <3>4
  <2>4. b \in 0 .. n - 1
    BY <1>2, <1>3, <2>1
  <2> HIDE DEF k, b
  <2>5. q = b + (k - 1)
    BY <1>3, <1>4, <2>2, <2>3, <2>4
  <2>6. ASSUME NEW i \in 1 .. k - 1 PROVE t.cells[b + i - 1] = line[i]
    <3>1. b + i - 1 \in Cells /\ b + i - 1 # q /\ i \in 1 .. k
      BY <1>3, <1>10, <2>3, <2>4, <2>5
    <3>2. s.cells[b + i - 1] = line[i]
      BY <2>2, <2>3, <3>1
    <3> QED BY <1>12, <3>1, <3>2
  <2>7. t.begin = b /\ At(t) = b + Len(Front(line))
    BY <1>11, <2>3, <2>5 DEF b
  <2>8. \A i \in DOMAIN Front(line) : t.cells[t.begin + i - 1] = Front(line)[i]
    BY <2>3, <2>6, <2>7
  <2> QED BY <2>7, <2>8 DEF Shows
<1> QED BY <1>11, <1>14, <1>15 DEF t

\* The recursion of PutString has a solution, and PutString follows it.
LEMMA PutStringSteps ==
  ASSUME NEW s, NEW str, Len(str) \in Nat
  PROVE  \E f : /\ PutString(s, str) = f[Len(str)]
                /\ f[0] = s
                /\ \A i \in 1 .. Len(str) : f[i] = PutChar(f[i - 1], str[i])
<1> DEFINE Solved(m) ==
             \E f : f = [i \in 0 .. m |-> IF i = 0 THEN s ELSE PutChar(f[i - 1], str[i])]
           I == {m \in Nat : ~Solved(m)}
<1> HIDE DEF Solved
<1>0. I \subseteq Nat /\ \A m \in Nat : m \in I <=> ~Solved(m)
  OBVIOUS
<1> HIDE DEF I
<1>1. \A m \in Nat : Solved(m)
  <2> SUFFICES ASSUME I # {} PROVE FALSE
    BY <1>0
  <2>1. PICK m \in I : \A j \in I : m <= j
    BY <1>0, LeastElement
  <2>2. m \in Nat /\ ~Solved(m)
    BY <1>0
  <2>3. CASE m = 0
    <3> DEFINE f == [i \in 0 .. 0 |-> s]
    <3>1. f = [i \in 0 .. 0 |-> IF i = 0 THEN s ELSE PutChar(f[i - 1], str[i])]
      OBVIOUS
    <3> QED BY <2>2, <2>3, <3>1 DEF Solved
  <2>4. CASE m # 0
    <3>1. m - 1 \in Nat /\ ~(m <= m - 1)
      BY <2>2, <2>4
    <3>2. Solved(m - 1)
      BY <1>0, <2>1, <3>1
    <3>3. PICK g : g = [i \in 0 .. m - 1 |-> IF i = 0 THEN s ELSE PutChar(g[i - 1], str[i])]
      BY <3>2 DEF Solved
    <3>4. \A i \in 0 .. m - 1 : g[i] = IF i = 0 THEN s ELSE PutChar(g[i - 1], str[i])
      BY <3>3
    <3> DEFINE e == PutChar(g[m - 1], str[m])
               f == [i \in 0 .. m |-> IF i = m THEN e ELSE g[i]]
               h == [i \in 0 .. m |-> IF i = 0 THEN s ELSE PutChar(f[i - 1], str[i])]
    <3>5. ASSUME NEW i \in 0 .. m
          PROVE  f[i] = IF i = 0 THEN s ELSE PutChar(f[i - 1], str[i])
      <4>1. CASE i = 0
        <5>1. f[i] = g[i] /\ i \in 0 .. m - 1
          BY <2>2, <2>4, <4>1
        <5> QED BY <3>4, <4>1, <5>1
      <4>2. CASE i # 0
        <5>1. i - 1 \in 0 .. m /\ i - 1 # m /\ f[i - 1] = g[i - 1]
          BY <2>2, <4>2
        <5>2. CASE i = m
          BY <4>2, <5>1, <5>2
        <5>3. CASE i # m
          <6>1. i \in 0 .. m - 1 /\ f[i] = g[i]
            BY <2>2, <5>3
          <6> QED BY <3>4, <4>2, <5>1, <6>1
        <5> QED BY <5>2, <5>3
      <4> QED BY <4>1, <4>2
    <3>6. f = h
      BY <3>5
    <3> HIDE DEF f
    <3>7. Solved(m)
      BY <3>6 DEF Solved
    <3> QED BY <2>2, <3>7
  <2> QED BY <2>3, <2>4
<1> DEFINE n == Len(str)
           F == CHOOSE f : f = [i \in 0 .. n |-> IF i = 0 THEN s
                                                 ELSE PutChar(f[i - 1], str[i])]
<1>2. PutString(s, str) = F[n]
  BY DEF PutString
<1>3. n \in Nat /\ n = Len(str)
  OBVIOUS
<1> HIDE DEF n
<1>4. Solved(n)
  BY <1>1, <1>3
<1>5. F = [i \in 0 .. n |-> IF i = 0 THEN s ELSE PutChar(F[i - 1], str[i])]
  BY <1>4 DEF Solved
<1> HIDE DEF F
<1>6. \A i \in 0 .. n : F[i] = IF i = 0 THEN s ELSE PutChar(F[i - 1], str[i])
  BY <1>5
<1>7. F[0] = s /\ \A i \in 1 .. n : F[i] = PutChar(F[i - 1], str[i])
  <2>1. 0 \in 0 .. n
    BY <1>3
  <2>2. F[0] = s
    BY <1>6, <2>1
  <2>3. \A i \in 1 .. n : i \in 0 .. n /\ i # 0
    BY <1>3
  <2> QED BY <1>6, <2>2, <2>3
<1> QED BY <1>2, <1>3, <1>7

\* A screen on which no backspace is put stays blank from the cursor on.
LEMMA PutStringShows ==
  ASSUME NEW s \in Screens, BlankFrom(s, At(s)),
         NEW str \in Seq(Characters), \A i \in DOMAIN str : str[i] # Backspace
  PROVE  LET t == PutString(s, str)
         IN  t \in Screens /\ BlankFrom(t, At(t))
<1>1. PICK f : /\ PutString(s, str) = f[Len(str)]
               /\ f[0] = s
               /\ \A i \in 1 .. Len(str) : f[i] = PutChar(f[i - 1], str[i])
  BY PutStringSteps
<1> DEFINE Good(i) == f[i] \in Screens /\ BlankFrom(f[i], At(f[i]))
           n == Len(str)
           Bad == {i \in 0 .. n : ~Good(i)}
<1>2. n \in Nat
  OBVIOUS
<1>3. Good(0)
  BY <1>1
<1>4. ASSUME NEW i \in 1 .. n, Good(i - 1) PROVE Good(i)
  <2>1. f[i] = PutChar(f[i - 1], str[i]) /\ str[i] \in Characters /\ str[i] # Backspace
    BY <1>1
  <2>2. f[i - 1] \in Screens /\ BlankFrom(f[i - 1], At(f[i - 1]))
    BY <1>4
  <2> DEFINE u == f[i - 1]
             c == str[i]
  <2>0. f[i] = PutChar(u, c) /\ c \in Characters /\ c # Backspace /\ u \in Screens
        /\ BlankFrom(u, At(u))
    BY <2>1, <2>2
  <2> HIDE DEF u, c
  <2>3. CASE c = Newline
    <3>1. f[i] = ShiftCursorNewline(u)
      BY <2>0, <2>3 DEF PutChar, Newline, Tab, Backspace
    <3> QED BY <2>0, <3>1, NewlineShows
  <2>4. CASE c = Tab
    <3>1. f[i] = ShiftCursorTab(u)
      BY <2>0, <2>4 DEF PutChar, Newline, Tab, Backspace
    <3> QED BY <2>0, <3>1, TabShows
  <2>5. CASE c \notin {Newline, Tab}
    <3>1. c \in Characters \ {Newline, Tab, Backspace}
      BY <2>0, <2>5
    <3> QED BY <2>0, <3>1, PutCharShows
  <2> QED BY <2>3, <2>4, <2>5
<1> HIDE DEF Good, n
<1>5. Bad = {}
  <2> SUFFICES ASSUME Bad # {} PROVE FALSE
    OBVIOUS
  <2>1. Bad \subseteq Nat /\ \A i \in 0 .. n : i \in Bad <=> ~Good(i)
    BY <1>2
  <2>2. \A i \in Bad : i \in 0 .. n
    OBVIOUS
  <2> HIDE DEF Bad
  <2>3. PICK i \in Bad : \A j \in Bad : i <= j
    BY <2>1, LeastElement
  <2>4. i \in 0 .. n /\ ~Good(i)
    BY <2>1, <2>2
  <2>5. i # 0
    BY <1>3, <2>4
  <2>6. i \in 1 .. n /\ i - 1 \in 0 .. n /\ ~(i <= i - 1)
    BY <1>2, <2>4, <2>5
  <2>7. Good(i - 1)
    BY <2>1, <2>3, <2>6
  <2> QED BY <1>4, <2>4, <2>6, <2>7
<1>6. Good(n)
  <2>1. n \in 0 .. n
    BY <1>2
  <2> QED BY <1>5, <2>1
<1> QED BY <1>1, <1>6 DEF Good, n

\* What is put for a character that getline takes, and for one it takes back.
LEMMA PutOne ==
  ASSUME NEW s, NEW c
  PROVE  PutString(s, <<c>>) = PutChar(s, c)
<1>1. Len(<<c>>) = 1 /\ <<c>>[1] = c
  OBVIOUS
<1>2. PICK f : /\ PutString(s, <<c>>) = f[1]
               /\ f[0] = s
               /\ \A i \in 1 .. 1 : f[i] = PutChar(f[i - 1], <<c>>[i])
  <2>1. Len(<<c>>) \in Nat
    BY <1>1
  <2> QED BY <1>1, <2>1, PutStringSteps
<1>3. f[1] = PutChar(f[1 - 1], <<c>>[1])
  BY <1>2
<1>4. 1 - 1 = 0
  OBVIOUS
<1> QED BY <1>1, <1>2, <1>3, <1>4

LEMMA PutNone ==
  ASSUME NEW s
  PROVE  PutString(s, <<>>) = s
<1>1. Len(<<>>) = 0 /\ Len(<<>>) \in Nat
  OBVIOUS
<1>2. PICK f : PutString(s, <<>>) = f[0] /\ f[0] = s
  BY <1>1, PutStringSteps, SMTT(30)
<1> QED BY <1>2

LEMMA PutRub ==
  ASSUME NEW s
  PROVE  PutString(s, <<Backspace, Blank, Backspace>>) = Rubbed(s)
<1> DEFINE str == <<Backspace, Blank, Backspace>>
<1>1. Len(str) = 3 /\ Len(str) \in Nat
      /\ str[1] = Backspace /\ str[2] = Blank /\ str[3] = Backspace
  OBVIOUS
<1> HIDE DEF str
<1>2. PICK f : /\ PutString(s, str) = f[Len(str)]
               /\ f[0] = s
               /\ \A i \in 1 .. Len(str) : f[i] = PutChar(f[i - 1], str[i])
  <2>1. Len(str) \in Nat
    BY <1>1
  <2> QED BY <2>1, PutStringSteps
<1>3. /\ f[1] = PutChar(f[1 - 1], str[1])
      /\ f[2] = PutChar(f[2 - 1], str[2])
      /\ f[3] = PutChar(f[3 - 1], str[3])
  BY <1>1, <1>2
<1>4. 1 - 1 = 0 /\ 2 - 1 = 1 /\ 3 - 1 = 2
  OBVIOUS
<1>5. \A u : PutChar(u, Backspace) = ShiftCursorBackward(u)
  BY DEF PutChar, Newline, Tab, Backspace
<1>6. f[1] = ShiftCursorBackward(s) /\ f[2] = PutChar(f[1], Blank)
      /\ f[3] = ShiftCursorBackward(f[2])
  BY <1>1, <1>2, <1>3, <1>4, <1>5
<1> QED BY <1>2, <1>6 DEF Rubbed, str

Scancodes == Events \cup {[key |-> "enter", up |-> TRUE], Acknowledge}

Keyboards == [at : {"irqListen", "firstRead", "irqWait", "leds", "writeStream"},
              shift : BOOLEAN, capslock : BOOLEAN, leds : BOOLEAN,
              byte : Characters, ahead : BOOLEAN]

Shells == [at : {"start", "obtainStreamListener", "readStream", "command"},
           line : Seq(Characters), size : Nat]

\* The keys are those of the tables, the shell's line is on the screen from its
\* prompt until it is returned, and nothing is beyond the cursor.
TerminalInv ==
  /\ queued \in Seq(Scancodes) /\ port \in Scancodes
  /\ keyboard \in Keyboards
  /\ input \in Seq(Characters)
  /\ shell \in Shells
  /\ console \in Screens /\ BlankFrom(console, At(console))
  /\ shell.at \in {"obtainStreamListener", "readStream"} => Shows(console, shell.line)

LEMMA InitScreen == ASSUME TerminalInit PROVE TerminalInv
<1>1. /\ Width \in Nat \ {0} /\ Height \in Nat \ {0} /\ InitialSize \in Nat
  BY TerminalAssumption
<1>2. Width * Height \in Nat /\ Width * Height > 0
  BY <1>1, CursorIsOnScreen, 0 \in 0 .. Width - 1, 0 \in 0 .. Height - 1
<1>3. Blank \in Characters /\ Nul \in Characters
  BY DEF Characters
<1>4. queued \in Seq(Scancodes) /\ port \in Scancodes /\ input \in Seq(Characters)
  BY DEF TerminalInit, Scancodes
<1>5. keyboard \in Keyboards
  BY <1>3 DEF TerminalInit, Keyboards
<1>6. shell \in Shells /\ shell.at = "start"
  BY <1>1 DEF TerminalInit, Shells
<1>7. console = [cells |-> [i \in Cells |-> Blank], x |-> 0, y |-> 0, begin |-> Lost]
  BY DEF TerminalInit, Cleared
<1>8. console \in Screens
  <2>1. [i \in Cells |-> Blank] \in [Cells -> Characters]
    BY <1>3
  <2>2. 0 \in 0 .. Width - 1 /\ 0 \in 0 .. Height - 1
    BY <1>1
  <2> QED BY <1>7, <2>1, <2>2 DEF Screens
<1>9. BlankFrom(console, At(console))
  BY <1>7 DEF BlankFrom
<1> QED BY <1>4, <1>5, <1>6, <1>8, <1>9 DEF TerminalInv

\* A step that leaves the screen and the shell alone.
LEMMA ScreenStays ==
  ASSUME TerminalInv, UNCHANGED <<console, shell>>,
         queued' \in Seq(Scancodes), port' \in Scancodes, keyboard' \in Keyboards,
         input' \in Seq(Characters)
  PROVE  TerminalInv'
<1>1. /\ shell' \in Shells /\ console' \in Screens
      /\ BlankFrom(console', At(console'))
      /\ shell'.at \in {"obtainStreamListener", "readStream"} => Shows(console', shell'.line)
  BY DEF TerminalInv
<1>2. At(console)' = At(console')
  BY DEF At
<1> QED BY <1>1, <1>2 DEF TerminalInv, BlankFrom, Shows, At

LEMMA TypeKeepsScreen ==
  ASSUME TerminalInv, NEW e \in Events, Type(e) PROVE TerminalInv'
<1>1. e \in Scancodes
  BY DEF Scancodes
<1>2. queued' \in Seq(Scancodes)
  BY <1>1 DEF TerminalInv, Type
<1> QED BY <1>2, ScreenStays DEF TerminalInv, Type

LEMMA InterruptKeepsScreen == ASSUME TerminalInv, Interrupt PROVE TerminalInv'
<1>1. queued' \in Seq(Scancodes) /\ port' \in Scancodes
  BY DEF TerminalInv, Interrupt
<1> QED BY <1>1, ScreenStays DEF TerminalInv, Interrupt

LEMMA KeyboardFields ==
  ASSUME NEW k \in Keyboards
  PROVE  /\ \A b \in BOOLEAN : /\ [k EXCEPT !.shift = b] \in Keyboards
                               /\ [k EXCEPT !.capslock = b] \in Keyboards
                               /\ [k EXCEPT !.leds = b] \in Keyboards
                               /\ [k EXCEPT !.ahead = b] \in Keyboards
         /\ \A c \in Characters : [k EXCEPT !.byte = c] \in Keyboards
         /\ \A a \in {"irqListen", "firstRead", "irqWait", "leds", "writeStream"} :
              [k EXCEPT !.at = a] \in Keyboards
BY DEF Keyboards

LEMMA IrqListenKeepsScreen == ASSUME TerminalInv, IrqListen PROVE TerminalInv'
<1>1. keyboard' \in Keyboards
  <2>1. keyboard \in Keyboards /\ keyboard' = [keyboard EXCEPT !.at = "firstRead"]
    BY DEF TerminalInv, IrqListen
  <2> QED BY <2>1, KeyboardFields
<1> QED BY <1>1, ScreenStays DEF TerminalInv, IrqListen

LEMMA WriteStreamKeepsScreen == ASSUME TerminalInv, WriteKey PROVE TerminalInv'
<1>1. keyboard \in Keyboards /\ keyboard.byte \in Characters /\ keyboard.leds \in BOOLEAN
  BY DEF TerminalInv, Keyboards
<1>2. input' \in Seq(Characters)
  BY <1>1 DEF TerminalInv, WriteKey
<1>3. keyboard' \in Keyboards
  <2> DEFINE k == [keyboard EXCEPT !.byte = Nul]
  <2>1. Nul \in Characters
    BY DEF Characters
  <2>2. k \in Keyboards
    BY <1>1, <2>1, KeyboardFields
  <2>3. keyboard' = [k EXCEPT !.at = AfterPress(keyboard.leds)]
    BY DEF WriteKey
  <2>4. AfterPress(keyboard.leds) \in {"leds", "irqWait"}
    BY DEF AfterPress
  <2> HIDE DEF k
  <2> QED BY <2>2, <2>3, <2>4, KeyboardFields
<1> QED BY <1>2, <1>3, ScreenStays DEF TerminalInv, WriteKey

LEMMA UpdateLEDsKeepsScreen == ASSUME TerminalInv, UpdateLEDs PROVE TerminalInv'
<1>1. keyboard' \in Keyboards
  <2>1. keyboard \in Keyboards /\ keyboard' = [keyboard EXCEPT !.at = "irqWait"]
    BY DEF TerminalInv, UpdateLEDs
  <2> QED BY <2>1, KeyboardFields
<1>2. queued' \in Seq(Scancodes)
  <2>1. <<Acknowledge, Acknowledge>> \in Seq(Scancodes)
    BY DEF Scancodes
  <2> QED BY <2>1 DEF TerminalInv, UpdateLEDs
<1> QED BY <1>1, <1>2, ScreenStays DEF TerminalInv, UpdateLEDs

\* Each key of the tables has a character.
LEMMA KeysHaveCharacters ==
  ASSUME NEW k \in Keyboards, NEW key \in DOMAIN keyboard_us
  PROVE  Character(k, key) \in Characters
<1> DEFINE c == keyboard_us[key]
           d == IF k.shift THEN ShiftCharacter(c) ELSE c
<1>1. DOMAIN keyboard_us = {"a", "one", "enter", "back", "tab"}
  BY DEF keyboard_us
<1>2. c \in {"a", "1", Newline, Backspace, Tab}
  <2>1. /\ keyboard_us["a"] = "a" /\ keyboard_us["one"] = "1"
        /\ keyboard_us["enter"] = Newline /\ keyboard_us["back"] = Backspace
        /\ keyboard_us["tab"] = Tab
    BY DEF keyboard_us
  <2> QED BY <1>1, <2>1
<1> HIDE DEF c
<1>3. ShiftCharacter(c) \in {"A", "!", c}
  <2>1. /\ DOMAIN shift_table = {"a", "1"}
        /\ shift_table["a"] = "A" /\ shift_table["1"] = "!"
    BY DEF shift_table
  <2>2. CASE c \in {"a", "1"}
    BY <2>1, <2>2 DEF ShiftCharacter
  <2>3. CASE c \notin {"a", "1"}
    BY <2>1, <2>3 DEF ShiftCharacter
  <2> QED BY <2>2, <2>3
<1>4. d \in {"A", "!", c}
  BY <1>3
<1> HIDE DEF d
<1>5. CapslockInvert(d) \in {"A", "a", d}
  BY DEF CapslockInvert
<1>6. Character(k, key) \in {d, CapslockInvert(d)}
  BY DEF Character, c, d
<1> QED BY <1>2, <1>4, <1>5, <1>6 DEF Characters

LEMMA ReadScancodeKeepsScreen ==
  ASSUME TerminalInv, ReadScancode PROVE TerminalInv'
<1> DEFINE k == [keyboard EXCEPT !.ahead = @ \/ (keyboard.at = "firstRead" /\ hits > 0)]
<1>1. keyboard \in Keyboards /\ keyboard.ahead \in BOOLEAN
  BY DEF TerminalInv, Keyboards
<1>2. k \in Keyboards
  <2> DEFINE b == keyboard.ahead \/ (keyboard.at = "firstRead" /\ hits > 0)
  <2>1. b \in BOOLEAN /\ k = [keyboard EXCEPT !.ahead = b]
    OBVIOUS
  <2> HIDE DEF b, k
  <2> QED BY <1>1, <2>1, KeyboardFields
<1>3. keyboard' = IF port.up THEN Released(k, port.key) ELSE Pressed(k, port.key)
  BY DEF ReadScancode
<1> HIDE DEF k
<1>4. k.leds \in BOOLEAN /\ k.capslock \in BOOLEAN
  BY <1>2 DEF Keyboards
<1>5. AfterPress(k.leds) \in {"leds", "irqWait"}
  BY DEF AfterPress
<1>6. ASSUME NEW b \in BOOLEAN, NEW a \in {"irqWait", "leds"}
      PROVE  [k EXCEPT !.shift = b, !.at = a] \in Keyboards
  <2> DEFINE j == [k EXCEPT !.shift = b]
  <2>1. j \in Keyboards
    BY <1>2, KeyboardFields
  <2>2. [k EXCEPT !.shift = b, !.at = a] = [j EXCEPT !.at = a]
    BY SMTT(30)
  <2> HIDE DEF j
  <2> QED BY <2>1, <2>2, KeyboardFields
<1>7. Released(k, port.key) \in Keyboards
  BY <1>2, <1>6, KeyboardFields DEF Released
<1>8. ASSUME ~port.up PROVE Pressed(k, port.key) \in Keyboards
  <2> DEFINE key == port.key
  <2>1. key \in DOMAIN keyboard_us \cup ShiftKeys \cup ControlKeys \cup LockKeys
                  \cup {"capsLock"}
    <3>1. port \in Events
      BY <1>8, SMTT(30) DEF TerminalInv, Scancodes, Acknowledge
    <3> QED BY <3>1, InputOutputAssumption
  <2> HIDE DEF key
  <2>2. CASE key \in ShiftKeys
    <3>1. Pressed(k, key) = [k EXCEPT !.shift = TRUE, !.at = AfterPress(k.leds)]
      BY <2>2 DEF Pressed
    <3> QED BY <1>5, <1>6, <3>1 DEF key
  <2>3. CASE key \notin ShiftKeys /\ key \in ControlKeys
    <3>1. Pressed(k, key) = [k EXCEPT !.at = AfterPress(k.leds)]
      BY <2>3 DEF Pressed
    <3> QED BY <1>2, <1>5, <3>1, KeyboardFields DEF key
  <2>4. CASE key \notin ShiftKeys \cup ControlKeys /\ key = "capsLock"
    <3> DEFINE i == [k EXCEPT !.capslock = ~k.capslock]
               j == [i EXCEPT !.leds = TRUE]
    <3>1. Pressed(k, key) = [j EXCEPT !.at = "leds"]
      BY <2>4 DEF Pressed
    <3>2. i \in Keyboards
      BY <1>2, <1>4, KeyboardFields
    <3> HIDE DEF i
    <3>3. j \in Keyboards
      BY <3>2, KeyboardFields
    <3> HIDE DEF j
    <3> QED BY <3>1, <3>3, KeyboardFields DEF key
  <2>5. CASE key \notin ShiftKeys \cup ControlKeys \cup {"capsLock"} /\ key \in LockKeys
    <3> DEFINE j == [k EXCEPT !.leds = TRUE]
    <3>1. Pressed(k, key) = [j EXCEPT !.at = "leds"]
      BY <2>5 DEF Pressed
    <3>2. j \in Keyboards
      BY <1>2, KeyboardFields
    <3> HIDE DEF j
    <3> QED BY <3>1, <3>2, KeyboardFields DEF key
  <2>6. CASE key \notin ShiftKeys \cup ControlKeys \cup {"capsLock"} \cup LockKeys
    <3> DEFINE j == [k EXCEPT !.byte = Character(k, key)]
    <3>1. Pressed(k, key) = [j EXCEPT !.at = "writeStream"]
      BY <2>6 DEF Pressed
    <3>2. j \in Keyboards
      <4>1. key \in DOMAIN keyboard_us
        BY <2>1, <2>6
      <4>2. Character(k, key) \in Characters
        BY <1>2, <4>1, KeysHaveCharacters
      <4> QED BY <1>2, <4>2, KeyboardFields
    <3> HIDE DEF j
    <3> QED BY <3>1, <3>2, KeyboardFields DEF key
  <2> QED BY <2>2, <2>3, <2>4, <2>5, <2>6
<1>9. keyboard' \in Keyboards
  BY <1>3, <1>7, <1>8
<1> QED BY <1>9, ScreenStays DEF TerminalInv, ReadScancode

\* The screen of the next state, from what is said of it.
LEMMA ScreenChanges ==
  ASSUME TerminalInv, UNCHANGED <<queued, port, keyboard>>,
         input' \in Seq(Characters), shell' \in Shells,
         console' \in Screens, BlankFrom(console', At(console')),
         shell'.at \in {"obtainStreamListener", "readStream"} => Shows(console', shell'.line)
  PROVE  TerminalInv'
BY DEF TerminalInv, BlankFrom, Shows, At

LEMMA ObtainListenerKeepsScreen ==
  ASSUME TerminalInv, ObtainStreamListener PROVE TerminalInv'
<1>1. shell \in Shells /\ shell.at = "obtainStreamListener" /\ Shows(console, shell.line)
  BY DEF TerminalInv, ObtainStreamListener
<1>2. shell' \in Shells /\ shell'.line = shell.line
  BY <1>1 DEF ObtainStreamListener, Shells
<1>3. console' = console /\ console \in Screens /\ BlankFrom(console, At(console))
      /\ input' \in Seq(Characters)
  BY DEF TerminalInv, ObtainStreamListener
<1>4. UNCHANGED <<queued, port, keyboard>>
  BY DEF ObtainStreamListener
<1> QED BY <1>1, <1>2, <1>3, <1>4, ScreenChanges

LEMMA PrintPromptKeepsScreen ==
  ASSUME TerminalInv,
         NEW output \in Outputs, PrintPrompt(output)
  PROVE  TerminalInv'
<1> DEFINE s == PutString(console, output \o Prompt)
<1>1. output \o Prompt \in Seq(Characters)
      /\ \A i \in DOMAIN (output \o Prompt) : (output \o Prompt)[i] # Backspace
  <2>1. output \in Seq(STRING) /\ Prompt \in Seq(STRING)
    BY TerminalAssumption
  <2>2. /\ \A i \in DOMAIN output : output[i] # Backspace
        /\ \A i \in DOMAIN Prompt : Prompt[i] # Backspace
    BY InputOutputAssumption
  <2>3. STRING \subseteq Characters
    BY DEF Characters
  <2>4. output \in Seq(Characters) /\ Prompt \in Seq(Characters)
    <3>1. ASSUME NEW str \in Seq(STRING) PROVE str \in Seq(Characters)
      <4>1. Len(str) \in Nat /\ DOMAIN str = 1 .. Len(str)
            /\ \A i \in 1 .. Len(str) : str[i] \in STRING
        OBVIOUS
      <4>2. \A i \in 1 .. Len(str) : str[i] \in Characters
        BY <2>3, <4>1
      <4>3. str = [i \in 1 .. Len(str) |-> str[i]]
        OBVIOUS
      <4> QED BY <4>1, <4>2, <4>3
    <3> QED BY <2>1, <3>1
  <2> QED BY <2>2, <2>4
<1>2. s \in Screens /\ BlankFrom(s, At(s))
  BY <1>1, PutStringShows DEF TerminalInv
<1>3. /\ console' = [s EXCEPT !.begin = At(s)]
      /\ shell' = [at |-> IF shell.at = "start" THEN "obtainStreamListener" ELSE "readStream",
                   line |-> <<>>, size |-> InitialSize]
      /\ UNCHANGED <<queued, port, keyboard, input>>
  BY DEF PrintPrompt
<1> HIDE DEF s
<1>4. At(s) \in Cells /\ At(s) \in Nat
  BY <1>2, CursorCell
<1>5. /\ console' \in Screens /\ console'.begin = At(s) /\ console'.cells = s.cells
      /\ console'.x = s.x /\ console'.y = s.y
  BY <1>2, <1>3, <1>4 DEF Screens
<1>6. At(console') = At(s)
  BY <1>5 DEF At
<1>7. BlankFrom(console', At(console'))
  BY <1>2, <1>5, <1>6 DEF BlankFrom
<1>8. shell' \in Shells /\ shell'.line = <<>>
  BY <1>3, TerminalAssumption DEF Shells
<1>9. Shows(console', <<>>)
  BY <1>4, <1>5, <1>6 DEF Shows
<1>10. input' \in Seq(Characters)
  BY <1>3 DEF TerminalInv
<1> QED BY <1>3, <1>5, <1>7, <1>8, <1>9, <1>10, ScreenChanges

LEMMA ReadCharKeepsScreen ==
  ASSUME TerminalInv, ReadChar PROVE TerminalInv'
<1> DEFINE c == Head(input)
           line == shell.line
           s == PutString(console, Echo(line, c))
<1>1. /\ console \in Screens /\ BlankFrom(console, At(console)) /\ Shows(console, line)
      /\ line \in Seq(Characters) /\ shell \in Shells /\ shell.at = "readStream"
      /\ shell.size \in Nat
  BY DEF TerminalInv, ReadChar, Shells
<1>2. c \in Characters /\ Tail(input) \in Seq(Characters)
  BY DEF TerminalInv, ReadChar
<1>3. /\ console' = s /\ input' = Tail(input)
      /\ UNCHANGED <<queued, port, keyboard>>
      /\ IF c = Newline
         THEN shell' = [shell EXCEPT !.at = "command", !.line = <<>>]
         ELSE LET l == AfterChar(line, c)
              IN  shell' = [shell EXCEPT !.line = l, !.size = SizeFor(Len(l), shell.size)]
  BY DEF ReadChar
<1> HIDE DEF c, line, s
<1>4. /\ s \in Screens /\ BlankFrom(s, At(s))
      /\ c # Newline => Shows(s, AfterChar(line, c)) /\ AfterChar(line, c) \in Seq(Characters)
  <2>1. CASE c = Backspace /\ line = <<>>
    <3>1. Echo(line, c) = <<>> /\ AfterChar(line, c) = line
      BY <2>1 DEF Echo, AfterChar
    <3>2. s = console
      BY <3>1, PutNone DEF s
    <3> QED BY <1>1, <3>1, <3>2
  <2>2. CASE c = Backspace /\ line # <<>>
    <3>1. Echo(line, c) = <<Backspace, Blank, Backspace>>
          /\ AfterChar(line, c) = Front(line)
      BY <2>2 DEF Echo, AfterChar, Front
    <3>2. s = Rubbed(console)
      BY <3>1, PutRub DEF s
    <3>3. Front(line) \in Seq(Characters)
      BY <1>1, <2>2 DEF Front
    <3> QED BY <1>1, <2>2, <3>1, <3>2, <3>3, RubShows
  <2>3. CASE c # Backspace
    <3>1. Echo(line, c) = <<c>> /\ AfterChar(line, c) = Append(line, c)
      BY <2>3 DEF Echo, AfterChar
    <3>2. s = PutChar(console, c)
      BY <3>1, PutOne DEF s
    <3>3. Append(line, c) \in Seq(Characters)
      BY <1>1, <1>2
    <3>4. CASE c = Newline
      <4>1. s = ShiftCursorNewline(console)
        BY <3>2, <3>4 DEF PutChar, Newline, Tab, Backspace
      <4> QED BY <1>1, <3>4, <4>1, NewlineShows
    <3>5. CASE c = Tab
      <4>1. s = ShiftCursorTab(console)
        BY <3>2, <3>5 DEF PutChar, Newline, Tab, Backspace
      <4>2. s \in Screens /\ BlankFrom(s, At(s)) /\ s.begin = Lost
        BY <1>1, <4>1, TabShows
      <4>3. Shows(s, Append(line, c))
        BY <4>2 DEF Shows
      <4> QED BY <3>1, <3>3, <4>2, <4>3
    <3>6. CASE c \notin {Newline, Tab}
      <4>1. c \in Characters \ {Newline, Tab, Backspace}
        BY <1>2, <2>3, <3>6
      <4> QED BY <1>1, <3>1, <3>2, <3>3, <4>1, PutCharShows
    <3> QED BY <3>4, <3>5, <3>6
  <2> QED BY <2>1, <2>2, <2>3
<1>5. CASE c = Newline
  <2> DEFINE r == [shell EXCEPT !.at = "command"]
  <2>1. r \in Shells /\ r.at = "command"
    BY <1>1 DEF Shells
  <2>2. shell' = [r EXCEPT !.line = <<>>]
    BY <1>3, <1>5
  <2> HIDE DEF r
  <2>3. shell' \in Shells /\ shell'.at = "command"
    <3>1. <<>> \in Seq(Characters)
      OBVIOUS
    <3> QED BY <2>1, <2>2, <3>1 DEF Shells
  <2> QED BY <1>2, <1>3, <1>4, <2>3, ScreenChanges
<1>6. CASE c # Newline
  <2> DEFINE l == AfterChar(line, c)
             r == [shell EXCEPT !.line = l]
  <2>1. l \in Seq(Characters) /\ Len(l) \in Nat /\ Shows(s, l)
    BY <1>4, <1>6
  <2>2. shell' = [r EXCEPT !.size = SizeFor(Len(l), shell.size)]
    BY <1>3, <1>6
  <2>3. SizeFor(Len(l), shell.size) \in Nat
    BY <1>1, <2>1 DEF SizeFor
  <2> HIDE DEF l
  <2>4. r \in Shells /\ r.line = l /\ r.at = "readStream"
    BY <1>1, <2>1 DEF Shells
  <2> HIDE DEF r
  <2>5. shell' \in Shells /\ shell'.line = l
    BY <2>2, <2>3, <2>4 DEF Shells
  <2> QED BY <1>2, <1>3, <1>4, <2>1, <2>5, ScreenChanges
<1> QED BY <1>5, <1>6

LEMMA NextKeepsScreen ==
  ASSUME TerminalInv, [TerminalNext]_(terminalVars)
  PROVE  TerminalInv'
<1>1. CASE UNCHANGED terminalVars
  BY <1>1, ScreenStays DEF terminalVars, TerminalInv
<1>2. CASE TerminalNext
  BY <1>2, TypeKeepsScreen, InterruptKeepsScreen, IrqListenKeepsScreen,
     ReadScancodeKeepsScreen, WriteStreamKeepsScreen, UpdateLEDsKeepsScreen,
     PrintPromptKeepsScreen, ObtainListenerKeepsScreen, ReadCharKeepsScreen DEF TerminalNext
<1> QED BY <1>1, <1>2

\* The line that getline has is on the screen of any size, whatever keys are
\* pressed and whatever the shell puts out.
THEOREM TerminalShowsLine == TerminalSpec => []ScreenShowsLine
<1>1. TerminalInit => TerminalInv
  BY InitScreen
<1>2. TerminalInv /\ [TerminalNext]_(terminalVars) => TerminalInv'
  BY NextKeepsScreen
<1>3. TerminalInv => ScreenShowsLine
  <2> SUFFICES ASSUME TerminalInv, shell.at = "readStream"
               PROVE  /\ \A i \in At(console) .. Width * Height - 1 :
                           console.cells[i] = Blank
                      /\ console.begin # Lost =>
                           /\ At(console) = console.begin + Len(shell.line)
                           /\ \A i \in DOMAIN shell.line :
                                console.cells[console.begin + i - 1] = shell.line[i]
    BY DEF ScreenShowsLine
  <2>1. console \in Screens /\ BlankFrom(console, At(console)) /\ Shows(console, shell.line)
    BY DEF TerminalInv
  <2>2. /\ At(console) \in Nat /\ Width * Height \in Nat
        /\ Cells = 0 .. Width * Height - 1
    BY <2>1, CursorCell
  <2> DEFINE n == Width * Height
  <2>3. \A i \in At(console) .. n - 1 : i \in 0 .. n - 1 /\ i >= At(console)
    BY <2>2
  <2> HIDE DEF n
  <2>4. \A i \in At(console) .. n - 1 : console.cells[i] = Blank
    BY <2>1, <2>2, <2>3 DEF BlankFrom, n
  <2> QED BY <2>1, <2>4 DEF Shows, n
<1> QED BY <1>1, <1>2, <1>3, PTL DEF TerminalSpec

-----------------------------------------------------------------------------
(* What is typed is read: where each event is on its way.                  *)

ButtonKeys == DOMAIN keyboard_us

IsCharacter(events, i) == events[i].key \in ButtonKeys /\ ~events[i].up

\* The scancodes the keyboard service has not read.
Unread(rest) == (IF full THEN <<port>> ELSE <<>>) \o rest

\* The events after the h-th are the scancodes of q, but for acknowledgements, in
\* their order.
Follow(events, h, q) ==
  \E f \in [h + 1 .. Len(events) -> DOMAIN q] :
    /\ \A i \in h + 1 .. Len(events) : q[f[i]] = events[i]
    /\ \A i, j \in h + 1 .. Len(events) : i < j => f[i] < f[j]
    /\ \A p \in DOMAIN q : q[p] # Acknowledge => \E i \in h + 1 .. Len(events) : f[i] = p

\* The characters of bytes are those of the events after the n-th and up to the
\* e-th, in their order.
Carried(events, n, e, bytes) ==
  \E g \in [DOMAIN bytes -> n + 1 .. e] :
    /\ \A p \in DOMAIN bytes : /\ IsCharacter(events, g[p])
                               /\ bytes[p] = Meant(events, g[p])
    /\ \A p, r \in DOMAIN bytes : p < r => g[p] < g[r]
    /\ \A i \in n + 1 .. e : IsCharacter(events, i) => \E p \in DOMAIN bytes : g[p] = i

\* Unless the service is ahead, there is an interrupt for the scancode in the port.
InterruptsInv ==
  /\ keyboard.at = "irqListen" => hits = 0
  /\ keyboard.at \in {"irqListen", "firstRead"} /\ ~full => port.up /\ port.key = "enter"
  /\ keyboard.at \notin {"irqListen", "firstRead"} => hits = IF full THEN 1 ELSE 0

\* The service has read h events, and is done with e of them; getline has read
\* the characters of the first n.
Reading(h) ==
  /\ h \in 0 .. Len(typed)
  /\ Follow(typed, h, Unread(queued))
  /\ keyboard.shift = ShiftIsDown(typed, h)
  /\ keyboard.capslock = CapsAreOn(typed, h)

Done(h) == IF keyboard.at = "writeStream" THEN h - 1 ELSE h

Writing(h) ==
  keyboard.at = "writeStream" => /\ h # 0 /\ IsCharacter(typed, h)
                                 /\ keyboard.byte = Meant(typed, h)

Getting(e, n) ==
  /\ n \in missed .. e
  /\ ~Listens => missed = e
  /\ Append(lines, shell.line) = LinesMeant(typed, missed, n)
  /\ Carried(typed, n, e, input)

EventsInv ==
  \/ keyboard.ahead
  \/ /\ InterruptsInv
     /\ \E h \in Nat, n \in Nat : Reading(h) /\ Writing(h) /\ Getting(Done(h), n)

ShellInv ==
  /\ typed \in Seq(Events) /\ hits \in Nat /\ missed \in Nat
  /\ lines \in Seq(Seq(Characters))
  /\ shell.at # "readStream" => shell.line = <<>>
  /\ ~Listens => lines = <<>> /\ input = <<>>
  /\ Len(shell.line) < shell.size

\* Two sequences of values that begin alike and are continued alike.
SameSteps(f, g, m, n) ==
  f[m] = g[m] /\ \A i \in m + 1 .. n : f[i - 1] = g[i - 1] => f[i] = g[i]

LEMMA StepsAgree ==
  ASSUME NEW m \in Nat, NEW n \in Nat, m <= n, NEW f, NEW g, SameSteps(f, g, m, n)
  PROVE  f[n] = g[n]
<1>0. f[m] = g[m] /\ \A i \in m + 1 .. n : f[i - 1] = g[i - 1] => f[i] = g[i]
  BY DEF SameSteps
<1> DEFINE I == {i \in m .. n : f[i] # g[i]}
<1> SUFFICES ASSUME I # {} PROVE FALSE
  OBVIOUS
<1>1. I \subseteq Nat /\ \A i \in I : i \in m .. n /\ f[i] # g[i]
  OBVIOUS
<1>2. \A i \in m .. n : f[i] # g[i] => i \in I
  OBVIOUS
<1> HIDE DEF I
<1>3. PICK i \in I : \A j \in I : i <= j
  BY <1>1, LeastElement
<1>4. i \in m .. n /\ f[i] # g[i] /\ i # m
  BY <1>0, <1>1
<1>5. i \in m + 1 .. n /\ i - 1 \in m .. n /\ ~(i <= i - 1)
  BY <1>4
<1>6. f[i - 1] = g[i - 1]
  BY <1>2, <1>3, <1>5
<1> QED BY <1>0, <1>4, <1>5, <1>6

\* What an event makes of the lines, and the lines of one event after the other.
Then(events, i, ls) == IF IsCharacter(events, i) THEN Edited(ls, Meant(events, i)) ELSE ls
LinesAre(f, events, m, n) ==
  /\ LinesMeant(events, m, n) = f[n]
  /\ f[m] = <<(<<>>)>>
  /\ \A i \in m + 1 .. n : f[i] = Then(events, i, f[i - 1])

LEMMA LinesMeantSteps ==
  ASSUME NEW events, NEW m \in Nat, NEW n \in Nat, m <= n
  PROVE  \E f : LinesAre(f, events, m, n)
<1> DEFINE Next1(i, x) == IF i \in Presses(events, i, DOMAIN keyboard_us)
                          THEN Edited(x, Meant(events, i)) ELSE x
           Solved(k) == \E f : f = [i \in m .. k |-> IF i = m THEN <<(<<>>)>>
                                                     ELSE Next1(i, f[i - 1])]
           I == {k \in Nat : k >= m /\ ~Solved(k)}
<1>a. \A i \in m + 1 .. n : \A x : Next1(i, x) = Then(events, i, x)
  <2> SUFFICES ASSUME NEW i \in m + 1 .. n
               PROVE  i \in Presses(events, i, DOMAIN keyboard_us) <=> IsCharacter(events, i)
    BY Zenon DEF Then
  <2>1. i \in 1 .. i
    OBVIOUS
  <2> QED BY <2>1 DEF Presses, IsCharacter, ButtonKeys
<1>b. LinesMeant(events, m, n) =
        (CHOOSE f : f = [i \in m .. n |-> IF i = m THEN <<(<<>>)>> ELSE Next1(i, f[i - 1])])[n]
  BY Zenon DEF LinesMeant
<1> HIDE DEF Next1
<1> HIDE DEF Solved
<1>0. I \subseteq Nat /\ \A k \in Nat : k \in I <=> k >= m /\ ~Solved(k)
  OBVIOUS
<1> HIDE DEF I
<1>1. \A k \in Nat : k >= m => Solved(k)
  <2> SUFFICES ASSUME I # {} PROVE FALSE
    BY <1>0
  <2>1. PICK k \in I : \A j \in I : k <= j
    BY <1>0, LeastElement
  <2>2. k \in Nat /\ k >= m /\ ~Solved(k)
    BY <1>0
  <2>3. CASE k = m
    <3> DEFINE f == [i \in m .. m |-> <<(<<>>)>>]
    <3>1. f = [i \in m .. m |-> IF i = m THEN <<(<<>>)>> ELSE Next1(i, f[i - 1])]
      OBVIOUS
    <3> QED BY <2>2, <2>3, <3>1 DEF Solved
  <2>4. CASE k # m
    <3>1. k - 1 \in Nat /\ k - 1 >= m /\ ~(k <= k - 1)
      BY <2>2, <2>4
    <3>2. Solved(k - 1)
      BY <1>0, <2>1, <3>1
    <3>3. PICK g : g = [i \in m .. k - 1 |-> IF i = m THEN <<(<<>>)>> ELSE Next1(i, g[i - 1])]
      BY <3>2 DEF Solved
    <3>4. \A i \in m .. k - 1 : g[i] = IF i = m THEN <<(<<>>)>> ELSE Next1(i, g[i - 1])
      BY <3>3
    <3> DEFINE e == Next1(k, g[k - 1])
               f == [i \in m .. k |-> IF i = k THEN e ELSE g[i]]
               h == [i \in m .. k |-> IF i = m THEN <<(<<>>)>> ELSE Next1(i, f[i - 1])]
    <3>5. ASSUME NEW i \in m .. k
          PROVE  f[i] = IF i = m THEN <<(<<>>)>> ELSE Next1(i, f[i - 1])
      <4>1. CASE i = m
        <5>1. f[i] = g[i] /\ i \in m .. k - 1
          BY <2>2, <2>4, <4>1
        <5> QED BY <3>4, <4>1, <5>1
      <4>2. CASE i # m
        <5>1. i - 1 \in m .. k /\ i - 1 # k /\ f[i - 1] = g[i - 1]
          BY <2>2, <4>2
        <5>2. CASE i = k
          BY <4>2, <5>1, <5>2
        <5>3. CASE i # k
          <6>1. i \in m .. k - 1 /\ f[i] = g[i]
            BY <2>2, <5>3
          <6> QED BY <3>4, <4>2, <5>1, <6>1
        <5> QED BY <5>2, <5>3
      <4> QED BY <4>1, <4>2
    <3>6. f = h
      BY <3>5
    <3> HIDE DEF f
    <3>7. Solved(k)
      BY <3>6 DEF Solved
    <3> QED BY <2>2, <3>7
  <2> QED BY <2>3, <2>4
<1> DEFINE F == CHOOSE f : f = [i \in m .. n |-> IF i = m THEN <<(<<>>)>>
                                                 ELSE Next1(i, f[i - 1])]
<1>2. Solved(n)
  BY <1>1
<1>3. F = [i \in m .. n |-> IF i = m THEN <<(<<>>)>> ELSE Next1(i, F[i - 1])]
  BY <1>2 DEF Solved
<1>4. LinesMeant(events, m, n) = F[n]
  BY <1>b
<1> HIDE DEF F
<1>5. \A i \in m .. n : F[i] = IF i = m THEN <<(<<>>)>> ELSE Next1(i, F[i - 1])
  BY <1>3
<1>6. F[m] = <<(<<>>)>> /\ \A i \in m + 1 .. n : F[i] = Next1(i, F[i - 1])
  BY <1>5
<1> QED BY <1>a, <1>4, <1>6 DEF LinesAre

\* The lines are those up to the event before, and what this one makes of them.
LEMMA LinesMeantStep ==
  ASSUME NEW events, NEW m \in Nat
  PROVE  /\ LinesMeant(events, m, m) = <<(<<>>)>>
         /\ \A n \in Nat : n > m =>
              LinesMeant(events, m, n) = Then(events, n, LinesMeant(events, m, n - 1))
<1>1. LinesMeant(events, m, m) = <<(<<>>)>>
  <2>1. m <= m
    OBVIOUS
  <2>2. PICK f : LinesAre(f, events, m, m)
    BY <2>1, LinesMeantSteps
  <2> QED BY <2>2 DEF LinesAre
<1>2. ASSUME NEW n \in Nat, n > m
      PROVE  LinesMeant(events, m, n) = Then(events, n, LinesMeant(events, m, n - 1))
  <2>1. m <= n /\ n - 1 \in Nat /\ m <= n - 1 /\ n \in m + 1 .. n
        /\ \A i \in m + 1 .. n - 1 : i \in m + 1 .. n
    BY <1>2
  <2>2. PICK f : LinesAre(f, events, m, n)
    BY <2>1, LinesMeantSteps
  <2>3. PICK g : LinesAre(g, events, m, n - 1)
    BY <2>1, LinesMeantSteps
  <2>4. f[n - 1] = g[n - 1]
    <3>1. SameSteps(f, g, m, n - 1)
      BY <2>1, <2>2, <2>3 DEF LinesAre, SameSteps
    <3> QED BY <2>1, <3>1, StepsAgree
  <2> QED BY <2>1, <2>2, <2>3, <2>4 DEF LinesAre
<1> QED BY <1>1, <1>2

\* Events that are no characters make nothing of the lines.
LEMMA LinesSkip ==
  ASSUME NEW events, NEW m \in Nat, NEW k \in Nat, NEW n \in Nat, m <= k, k <= n,
         \A i \in k + 1 .. n : ~IsCharacter(events, i)
  PROVE  LinesMeant(events, m, n) = LinesMeant(events, m, k)
<1> DEFINE f == [i \in k .. n |-> LinesMeant(events, m, i)]
           g == [i \in k .. n |-> LinesMeant(events, m, k)]
<1>1. k \in k .. n /\ n \in k .. n
  OBVIOUS
<1>2. f[k] = g[k]
  BY <1>1
<1>3. ASSUME NEW i \in k + 1 .. n, f[i - 1] = g[i - 1] PROVE f[i] = g[i]
  <2>1. i \in Nat /\ i > m /\ i \in k .. n /\ i - 1 \in k .. n
    OBVIOUS
  <2>2. LinesMeant(events, m, i) = LinesMeant(events, m, i - 1)
    BY <2>1, LinesMeantStep DEF Then
  <2> QED BY <1>3, <2>1, <2>2
<1>4. f[n] = g[n]
  <2> HIDE DEF f, g
  <2>1. SameSteps(f, g, k, n)
    BY <1>2, <1>3 DEF SameSteps
  <2> QED BY <2>1, StepsAgree
<1> QED BY <1>1, <1>4

\* What the first events mean does not change with those behind them.
LEMMA MeantStays ==
  ASSUME NEW ev \in Seq(Events), NEW e \in Events, NEW n \in 0 .. Len(ev)
  PROVE  /\ \A keys : Presses(Append(ev, e), n, keys) = Presses(ev, n, keys)
         /\ ShiftIsDown(Append(ev, e), n) = ShiftIsDown(ev, n)
         /\ CapsAreOn(Append(ev, e), n) = CapsAreOn(ev, n)
         /\ n # 0 => /\ IsCharacter(Append(ev, e), n) = IsCharacter(ev, n)
                     /\ Meant(Append(ev, e), n) = Meant(ev, n)
<1> DEFINE u == Append(ev, e)
<1>1. \A i \in 1 .. n : u[i] = ev[i]
  OBVIOUS
<1> HIDE DEF u
<1>2. ASSUME NEW keys PROVE Presses(u, n, keys) = Presses(ev, n, keys)
  BY <1>1 DEF Presses
<1>3. ShiftIsDown(u, n) = ShiftIsDown(ev, n)
  <2>1. Presses(u, n, ShiftKeys) = Presses(ev, n, ShiftKeys)
    BY <1>2
  <2>2. \A i \in Presses(ev, n, ShiftKeys) : i \in 1 .. n
    BY DEF Presses
  <2>3. \A i \in 1 .. n : \A j \in i + 1 .. n : j \in 1 .. n
    OBVIOUS
  <2>4. \A i \in Presses(ev, n, ShiftKeys) : \A j \in i + 1 .. n : u[j] = ev[j]
    BY <1>1, <2>2, <2>3
  <2> QED BY <2>1, <2>4, Zenon DEF ShiftIsDown
<1>4. CapsAreOn(u, n) = CapsAreOn(ev, n)
  BY <1>2 DEF CapsAreOn
<1>5. ASSUME n # 0
      PROVE  IsCharacter(u, n) = IsCharacter(ev, n) /\ Meant(u, n) = Meant(ev, n)
  <2>1. u[n] = ev[n]
    BY <1>1, <1>5
  <2> QED BY <1>3, <1>4, <2>1, Zenon DEF IsCharacter, Meant
<1> QED BY <1>2, <1>3, <1>4, <1>5 DEF u

LEMMA LinesStay ==
  ASSUME NEW ev \in Seq(Events), NEW e \in Events, NEW m \in Nat, NEW n \in m .. Len(ev)
  PROVE  LinesMeant(Append(ev, e), m, n) = LinesMeant(ev, m, n)
<1> DEFINE u == Append(ev, e)
<1>1. n \in Nat /\ m <= n /\ n <= Len(ev) /\ Len(ev) \in Nat
  OBVIOUS
<1>2. PICK f : LinesAre(f, u, m, n)
  BY <1>1, LinesMeantSteps
<1>3. PICK g : LinesAre(g, ev, m, n)
  BY <1>1, LinesMeantSteps
<1>4. ASSUME NEW i \in m + 1 .. n, NEW x PROVE Then(u, i, x) = Then(ev, i, x)
  <2>1. i \in 0 .. Len(ev) /\ i # 0
    BY <1>1
  <2>2. IsCharacter(u, i) = IsCharacter(ev, i) /\ Meant(u, i) = Meant(ev, i)
    BY <2>1, MeantStays
  <2> HIDE DEF u
  <2> QED BY <2>2 DEF Then
<1> HIDE DEF u
<1>5. SameSteps(f, g, m, n)
  BY <1>2, <1>3, <1>4 DEF LinesAre, SameSteps
<1>6. f[n] = g[n]
  BY <1>1, <1>5, StepsAgree
<1> QED BY <1>2, <1>3, <1>6 DEF LinesAre, u

\* Shift and caps lock, from one event to the next.
LEMMA ShiftSteps ==
  ASSUME NEW ev \in Seq(Events), NEW h \in Nat, h + 1 <= Len(ev)
  PROVE  ShiftIsDown(ev, h + 1) =
           IF ev[h + 1].key \in ShiftKeys THEN ~ev[h + 1].up ELSE ShiftIsDown(ev, h)
<1> DEFINE k == ev[h + 1].key \in ShiftKeys
           d == ~ev[h + 1].up
           P(i) == ev[i].key \in ShiftKeys /\ ~ev[i].up
           R(i) == ev[i].key \in ShiftKeys /\ ev[i].up
<1>1. /\ ShiftIsDown(ev, h + 1) <=>
           \E i \in 1 .. h + 1 : P(i) /\ \A j \in i + 1 .. h + 1 : ~R(j)
      /\ ShiftIsDown(ev, h) <=> \E i \in 1 .. h : P(i) /\ \A j \in i + 1 .. h : ~R(j)
  BY Zenon DEF ShiftIsDown, Presses
<1>2. /\ P(h + 1) <=> k /\ d
      /\ R(h + 1) <=> k /\ ~d
  OBVIOUS
<1>3. h + 1 \in 1 .. h + 1 /\ (h + 1) + 1 .. h + 1 = {}
  OBVIOUS
<1>4. \A i \in 1 .. h : /\ i \in 1 .. h + 1
                        /\ i + 1 .. h + 1 = (i + 1 .. h) \cup {h + 1}
  OBVIOUS
<1>5. \A i \in 1 .. h + 1 : i = h + 1 \/ i \in 1 .. h
  OBVIOUS
<1> HIDE DEF P, R, k, d
<1>6. CASE k /\ d
  <2>1. ShiftIsDown(ev, h + 1)
    BY <1>1, <1>2, <1>3, <1>6
  <2> QED BY <1>6, <2>1 DEF k, d
<1>7. CASE k /\ ~d
  <2>1. ~ShiftIsDown(ev, h + 1)
    BY <1>1, <1>2, <1>4, <1>5, <1>7
  <2>2. ShiftIsDown(ev, h + 1) = FALSE
    BY <2>1 DEF ShiftIsDown
  <2>3. k = TRUE /\ d = FALSE
    BY <1>7 DEF k, d
  <2> QED BY <2>2, <2>3 DEF k, d
<1>8. CASE ~k
  <2>1. ASSUME NEW i \in 1 .. h
        PROVE  (\A j \in i + 1 .. h + 1 : ~R(j)) <=> (\A j \in i + 1 .. h : ~R(j))
    BY <1>2, <1>4, <1>8
  <2>2. ShiftIsDown(ev, h + 1) <=> ShiftIsDown(ev, h)
    BY <1>1, <1>2, <1>4, <1>5, <1>8, <2>1, Zenon
  <2>3. ShiftIsDown(ev, h + 1) \in BOOLEAN /\ ShiftIsDown(ev, h) \in BOOLEAN
    BY DEF ShiftIsDown
  <2> QED BY <1>8, <2>2, <2>3 DEF k
<1> QED BY <1>6, <1>7, <1>8

LEMMA CapsSteps ==
  ASSUME NEW ev \in Seq(Events), NEW h \in Nat, h + 1 <= Len(ev)
  PROVE  CapsAreOn(ev, h + 1) =
           IF ev[h + 1].key = "capsLock" /\ ~ev[h + 1].up THEN ~CapsAreOn(ev, h)
           ELSE CapsAreOn(ev, h)
<1> DEFINE S == Presses(ev, h, {"capsLock"})
           T == Presses(ev, h + 1, {"capsLock"})
           c == Cardinality(S)
<1>1. IsFiniteSet(S)
  <2>1. S \subseteq 1 .. h
    BY DEF Presses
  <2>2. IsFiniteSet(1 .. h)
    BY FS_Interval
  <2> HIDE DEF S
  <2> QED BY <2>1, <2>2, FS_Subset
<1>2. c \in Nat
  BY <1>1, FS_CardinalityType
<1>3. /\ CapsAreOn(ev, h) = (c % 2 = 1)
      /\ CapsAreOn(ev, h + 1) = (Cardinality(T) % 2 = 1)
  BY DEF CapsAreOn
<1>4. CASE ev[h + 1].key = "capsLock" /\ ~ev[h + 1].up
  <2>1. T = S \cup {h + 1} /\ h + 1 \notin S
    BY <1>4 DEF Presses
  <2> HIDE DEF S, T
  <2>2. Cardinality(T) = c + 1
    BY <1>1, <2>1, FS_AddElement
  <2> HIDE DEF c
  <2>3. (c + 1) % 2 = 1 <=> ~(c % 2 = 1)
    BY <1>2
  <2>4. CapsAreOn(ev, h + 1) = ~CapsAreOn(ev, h)
    BY <1>3, <2>2, <2>3
  <2> QED BY <1>4, <2>4
<1>5. CASE ~(ev[h + 1].key = "capsLock" /\ ~ev[h + 1].up)
  <2>1. T = S
    BY <1>5 DEF Presses
  <2> QED BY <1>3, <1>5, <2>1
<1> QED BY <1>4, <1>5

LEMMA NothingPressed ==
  ASSUME NEW ev
  PROVE  ShiftIsDown(ev, 0) = FALSE /\ CapsAreOn(ev, 0) = FALSE
<1>1. \A keys : Presses(ev, 0, keys) = {}
  BY DEF Presses
<1>2. ShiftIsDown(ev, 0) = FALSE
  BY <1>1, Zenon DEF ShiftIsDown
<1>3. Cardinality({}) = 0 /\ ~(0 % 2 = 1)
  BY FS_EmptySet
<1>4. CapsAreOn(ev, 0) = FALSE
  BY <1>1, <1>3 DEF CapsAreOn
<1> QED BY <1>2, <1>4

\* The service makes of a key the character that is meant.
LEMMA CharacterIsMeant ==
  ASSUME NEW k \in Keyboards, NEW ev, NEW i \in Nat, ev[i].key \in ButtonKeys,
         k.shift = ShiftIsDown(ev, i), k.capslock = CapsAreOn(ev, i)
  PROVE  Character(k, ev[i].key) = Meant(ev, i)
<1> DEFINE key == ev[i].key
           c == keyboard_us[key]
           s == k.shift
           l == k.capslock
           Up(x) == ShiftCharacter(x)
<1>1. s \in BOOLEAN /\ l \in BOOLEAN
  BY DEF Keyboards
<1>2. DOMAIN keyboard_us = {"a", "one", "enter", "back", "tab"}
  BY DEF keyboard_us
<1>3. /\ keyboard_us["a"] = "a" /\ keyboard_us["one"] = "1"
      /\ keyboard_us["enter"] = Newline /\ keyboard_us["back"] = Backspace
      /\ keyboard_us["tab"] = Tab
  BY DEF keyboard_us
<1>4. /\ key \in {"a", "one", "enter", "back", "tab"}
      /\ key = "a" => c = "a"
      /\ key # "a" => c \in {"1", "newline", "backspace", "tab"}
  BY <1>2, <1>3 DEF ButtonKeys, Newline, Backspace, Tab
<1>5. /\ DOMAIN shift_table = {"a", "1"}
      /\ shift_table["a"] = "A" /\ shift_table["1"] = "!"
  BY DEF shift_table
<1>6. /\ Up("a") = "A" /\ Up("1") = "!"
      /\ \A x : x \notin {"a", "1"} => Up(x) = x
  BY <1>5 DEF ShiftCharacter
<1>7. CapslockInvert("a") = "A" /\ CapslockInvert("A") = "a"
      /\ \A x : x \notin {"a", "A"} => CapslockInvert(x) = x
  BY DEF CapslockInvert
<1>8. Character(k, key) = IF l THEN CapslockInvert(IF s THEN Up(c) ELSE c)
                          ELSE IF s THEN Up(c) ELSE c
  BY DEF Character
<1>9. Meant(ev, i) = IF IF key = "a" THEN s # l ELSE s THEN Up(c) ELSE c
  BY DEF Meant
<1> HIDE DEF key, c, s, l, Up
<1>10. CASE key = "a"
  BY <1>1, <1>4, <1>6, <1>7, <1>8, <1>9, <1>10 DEF key
<1>11. CASE key # "a"
  <2>1. c # "a" /\ c # "A" /\ Up(c) \notin {"a", "A"}
    BY <1>4, <1>6, <1>11
  <2> QED BY <1>1, <1>7, <1>8, <1>9, <1>11, <2>1 DEF key
<1> QED BY <1>10, <1>11

-----------------------------------------------------------------------------
(* The scancodes on their way to the service.                              *)

LEMMA NoEventAcknowledges == \A e \in Events : e # Acknowledge
<1> SUFFICES ASSUME NEW e \in Events PROVE e.key # Acknowledge.key
  OBVIOUS
<1>1. e.key \in DOMAIN keyboard_us \cup ShiftKeys \cup ControlKeys \cup LockKeys \cup {"capsLock"}
  BY InputOutputAssumption
<1>2. DOMAIN keyboard_us = {"a", "one", "enter", "back", "tab"}
  BY DEF keyboard_us
<1> QED BY <1>1, <1>2 DEF Acknowledge, ShiftKeys, ControlKeys, LockKeys

\* That f says which scancode of q an event is.
Finds(f, events, h, q) ==
  /\ f \in [h + 1 .. Len(events) -> DOMAIN q]
  /\ \A i \in h + 1 .. Len(events) : q[f[i]] = events[i]
  /\ \A i, j \in h + 1 .. Len(events) : i < j => f[i] < f[j]
  /\ \A p \in DOMAIN q : q[p] # Acknowledge => \E i \in h + 1 .. Len(events) : f[i] = p

LEMMA FollowFinds ==
  ASSUME NEW ev, NEW h, NEW q
  PROVE  Follow(ev, h, q) <=> \E f : Finds(f, ev, h, q)
BY Zenon DEF Follow, Finds

LEMMA FollowType ==
  ASSUME NEW ev \in Seq(Events), NEW h \in Nat, h <= Len(ev), NEW q \in Seq(Scancodes),
         Follow(ev, h, q), NEW e \in Events
  PROVE  Follow(Append(ev, e), h, Append(q, e))
<1> DEFINE n == Len(ev)
           m == Len(q)
           u == Append(ev, e)
           r == Append(q, e)
<1>1. PICK f : Finds(f, ev, h, q)
  BY FollowFinds
<1>2. /\ n \in Nat /\ m \in Nat /\ Len(u) = n + 1 /\ DOMAIN r = 1 .. m + 1 /\ DOMAIN q = 1 .. m
      /\ u[n + 1] = e /\ \A i \in 1 .. n : u[i] = ev[i]
      /\ e \in Scancodes
  BY DEF Scancodes
<1>3. r[m + 1] = e /\ \A i \in 1 .. m : r[i] = q[i]
  BY <1>2
<1> HIDE DEF n, m, u, r
<1>4. /\ f \in [h + 1 .. n -> 1 .. m]
      /\ \A i \in h + 1 .. n : q[f[i]] = ev[i]
      /\ \A i, j \in h + 1 .. n : i < j => f[i] < f[j]
      /\ \A p \in 1 .. m : q[p] # Acknowledge => \E i \in h + 1 .. n : f[i] = p
  BY <1>1, <1>2 DEF Finds, n
<1> DEFINE g == [i \in h + 1 .. n + 1 |-> IF i = n + 1 THEN m + 1 ELSE f[i]]
<1>5. h <= n
  BY DEF n
<1>6. \A i \in h + 1 .. n + 1 : i = n + 1 \/ (i \in h + 1 .. n /\ i \in 1 .. n /\ i # n + 1)
  BY <1>2, <1>5
<1>7. g \in [h + 1 .. n + 1 -> 1 .. m + 1]
  BY <1>2, <1>4, <1>6
<1>8. /\ g[n + 1] = m + 1
      /\ \A i \in h + 1 .. n : g[i] = f[i] /\ f[i] \in 1 .. m
  BY <1>2, <1>4, <1>5
<1> HIDE DEF g
<1>9. \A i \in h + 1 .. n + 1 : r[g[i]] = u[i]
  BY <1>2, <1>3, <1>4, <1>6, <1>8
<1>10. \A i, j \in h + 1 .. n + 1 : i < j => g[i] < g[j]
  <2> SUFFICES ASSUME NEW i \in h + 1 .. n + 1, NEW j \in h + 1 .. n + 1, i < j
               PROVE  g[i] < g[j]
    OBVIOUS
  <2>1. i \in h + 1 .. n
    BY <1>2
  <2>2. CASE j = n + 1
    BY <1>2, <1>8, <2>1, <2>2
  <2>3. CASE j # n + 1
    BY <1>4, <1>6, <1>8, <2>1, <2>3
  <2> QED BY <2>2, <2>3
<1>11. ASSUME NEW p \in 1 .. m + 1, r[p] # Acknowledge
       PROVE  \E i \in h + 1 .. n + 1 : g[i] = p
  <2>1. CASE p = m + 1
    <3>1. n + 1 \in h + 1 .. n + 1
      BY <1>2, <1>5
    <3> QED BY <1>8, <2>1, <3>1
  <2>2. CASE p # m + 1
    <3>1. p \in 1 .. m /\ q[p] # Acknowledge
      BY <1>2, <1>3, <1>11, <2>2
    <3>2. PICK i \in h + 1 .. n : f[i] = p
      BY <1>4, <3>1
    <3>3. i \in h + 1 .. n + 1
      BY <1>2
    <3> QED BY <1>8, <3>2, <3>3
  <2> QED BY <2>1, <2>2
<1>12. Finds(g, u, h, r)
  BY <1>2, <1>7, <1>9, <1>10, <1>11 DEF Finds
<1> QED BY <1>12, FollowFinds DEF u, r

LEMMA FollowAcknowledged ==
  ASSUME NEW ev \in Seq(Events), NEW h \in Nat, NEW q \in Seq(Scancodes), Follow(ev, h, q)
  PROVE  Follow(ev, h, Append(q, Acknowledge))
<1> DEFINE m == Len(q)
           r == Append(q, Acknowledge)
           I == h + 1 .. Len(ev)
<1>1. PICK f : Finds(f, ev, h, q)
  BY FollowFinds
<1>2. m \in Nat /\ DOMAIN r = 1 .. m + 1 /\ DOMAIN q = 1 .. m
      /\ 1 .. m \subseteq 1 .. m + 1 /\ \A p \in 1 .. m + 1 : p \in 1 .. m \/ p = m + 1
  OBVIOUS
<1>3. r[m + 1] = Acknowledge /\ \A i \in 1 .. m : r[i] = q[i]
  OBVIOUS
<1> HIDE DEF m, r, I
<1>4. /\ f \in [I -> 1 .. m]
      /\ \A i \in I : q[f[i]] = ev[i]
      /\ \A i, j \in I : i < j => f[i] < f[j]
      /\ \A p \in 1 .. m : q[p] # Acknowledge => \E i \in I : f[i] = p
  BY <1>1, <1>2 DEF Finds, I
<1>5. f \in [I -> 1 .. m + 1]
  BY <1>2, <1>4
<1>6. \A i \in I : r[f[i]] = ev[i]
  BY <1>3, <1>4
<1>7. \A p \in 1 .. m + 1 : r[p] # Acknowledge => \E i \in I : f[i] = p
  BY <1>2, <1>3, <1>4
<1>8. Finds(f, ev, h, r)
  BY <1>2, <1>4, <1>5, <1>6, <1>7 DEF Finds, I
<1> QED BY <1>8, FollowFinds DEF r

\* The service reads the first scancode.
LEMMA FollowRead ==
  ASSUME NEW ev \in Seq(Events), NEW h \in Nat, h <= Len(ev), NEW c \in Scancodes,
         NEW q \in Seq(Scancodes), Follow(ev, h, <<c>> \o q)
  PROVE  /\ c = Acknowledge => Follow(ev, h, q)
         /\ c # Acknowledge => h + 1 <= Len(ev) /\ ev[h + 1] = c /\ Follow(ev, h + 1, q)
<1> DEFINE n == Len(ev)
           m == Len(q)
           r == <<c>> \o q
<1>1. PICK f : Finds(f, ev, h, r)
  BY FollowFinds
<1>2. /\ n \in Nat /\ m \in Nat /\ DOMAIN r = 1 .. m + 1 /\ DOMAIN q = 1 .. m
      /\ r[1] = c /\ \A p \in 1 .. m : r[p + 1] = q[p]
      /\ \A i \in 1 .. n : ev[i] # Acknowledge
  BY NoEventAcknowledges
<1> HIDE DEF r
<1>3. /\ f \in [h + 1 .. n -> 1 .. m + 1]
      /\ \A i \in h + 1 .. n : r[f[i]] = ev[i]
      /\ \A i, j \in h + 1 .. n : i < j => f[i] < f[j]
      /\ \A p \in 1 .. m + 1 : r[p] # Acknowledge => \E i \in h + 1 .. n : f[i] = p
  BY <1>1, <1>2 DEF Finds
<1>4. h <= n
  OBVIOUS
<1> HIDE DEF n, m
<1>5. \A i \in h + 1 .. n : i \in 1 .. n /\ i \in Nat /\ f[i] \in 1 .. m + 1
  BY <1>2, <1>3
\* The first of the events that are left is k + 1.
<1>6. ASSUME NEW k \in h .. n, \A i \in k + 1 .. n : f[i] # 1,
             \A p \in 1 .. m : q[p] # Acknowledge => \E i \in k + 1 .. n : f[i] = p + 1
      PROVE  Follow(ev, k, q)
  <2> DEFINE g == [i \in k + 1 .. n |-> f[i] - 1]
  <2>1. \A i \in k + 1 .. n : i \in h + 1 .. n
    BY <1>2, <1>4
  <2>2. \A i \in k + 1 .. n : f[i] - 1 \in 1 .. m /\ (f[i] - 1) + 1 = f[i] /\ f[i] \in Nat
    <3> SUFFICES ASSUME NEW i \in k + 1 .. n
                 PROVE  f[i] - 1 \in 1 .. m /\ (f[i] - 1) + 1 = f[i] /\ f[i] \in Nat
      OBVIOUS
    <3>1. f[i] \in 1 .. m + 1 /\ f[i] # 1
      BY <1>5, <1>6, <2>1
    <3> QED BY <1>2, <3>1
  <2>3. g \in [k + 1 .. n -> 1 .. m]
    BY <2>2
  <2>4. \A i \in k + 1 .. n : q[g[i]] = ev[i]
    BY <1>2, <1>3, <2>1, <2>2
  <2>5. \A i, j \in k + 1 .. n : i < j => g[i] < g[j]
    BY <1>3, <2>1, <2>2
  <2>6. ASSUME NEW p \in 1 .. m, q[p] # Acknowledge PROVE \E i \in k + 1 .. n : g[i] = p
    <3>1. PICK i \in k + 1 .. n : f[i] = p + 1
      BY <1>6, <2>6
    <3>2. g[i] = (p + 1) - 1
      BY <3>1
    <3>3. (p + 1) - 1 = p
      OBVIOUS
    <3> QED BY <3>2, <3>3
  <2> HIDE DEF g
  <2>7. Finds(g, ev, k, q)
    BY <1>2, <2>3, <2>4, <2>5, <2>6 DEF Finds, n
  <2> QED BY <2>7, FollowFinds
<1>7. \A p \in 1 .. m : p + 1 \in 1 .. m + 1 /\ p + 1 # 1
  BY <1>2
<1>8. CASE c = Acknowledge
  <2>1. ASSUME NEW i \in h + 1 .. n PROVE f[i] # 1
    <3>1. r[f[i]] = ev[i]
      BY <1>3
    <3>2. i \in 1 .. n
      BY <1>5
    <3>3. ev[i] # Acknowledge
      BY <1>2, <3>2
    <3>4. r[1] = Acknowledge
      BY <1>2, <1>8
    <3> QED BY <3>1, <3>3, <3>4
  <2>2. \A p \in 1 .. m : q[p] # Acknowledge => \E i \in h + 1 .. n : f[i] = p + 1
    BY <1>2, <1>3, <1>7
  <2>3. h \in h .. n
    BY <1>2, <1>4
  <2> QED BY <1>6, <1>8, <2>1, <2>2, <2>3
<1>9. CASE c # Acknowledge
  <2>1. PICK i \in h + 1 .. n : f[i] = 1
    <3>1. 1 \in 1 .. m + 1
      BY <1>2
    <3> QED BY <1>2, <1>3, <1>9, <3>1
  <2>2. i = h + 1
    <3> SUFFICES ASSUME i # h + 1 PROVE FALSE
      OBVIOUS
    <3>1. h + 1 \in h + 1 .. n /\ h + 1 < i
      BY <1>2
    <3>2. f[h + 1] < 1 /\ f[h + 1] \in 1 .. m + 1
      BY <1>3, <1>5, <2>1, <3>1
    <3> QED BY <1>2, <3>2
  <2>3. h + 1 <= n /\ h + 1 \in h .. n /\ ev[h + 1] = c
    BY <1>2, <1>3, <2>1, <2>2
  <2>4. \A j \in (h + 1) + 1 .. n : f[j] # 1
    <3> SUFFICES ASSUME NEW j \in (h + 1) + 1 .. n PROVE f[j] # 1
      OBVIOUS
    <3>1. j \in h + 1 .. n /\ h + 1 \in h + 1 .. n /\ h + 1 < j
      BY <1>2
    <3>2. 1 < f[j] /\ f[j] \in 1 .. m + 1
      BY <1>3, <1>5, <2>1, <2>2, <3>1
    <3> QED BY <1>2, <3>2
  <2>5. ASSUME NEW p \in 1 .. m, q[p] # Acknowledge
        PROVE  \E j \in (h + 1) + 1 .. n : f[j] = p + 1
    <3>1. PICK j \in h + 1 .. n : f[j] = p + 1
      BY <1>2, <1>3, <1>7, <2>5
    <3>2. j # h + 1
      BY <1>7, <2>1, <2>2, <3>1
    <3>3. j \in (h + 1) + 1 .. n
      BY <1>2, <3>2
    <3> QED BY <3>1, <3>3
  <2>6. Follow(ev, h + 1, q)
    BY <1>6, <2>3, <2>4, <2>5
  <2> QED BY <1>9, <2>3, <2>6 DEF n
<1> QED BY <1>8, <1>9

LEMMA FollowEmpty ==
  ASSUME NEW ev \in Seq(Events), NEW h \in Nat, h <= Len(ev), Follow(ev, h, <<>>)
  PROVE  h = Len(ev)
<1>1. PICK f : Finds(f, ev, h, <<>>)
  BY FollowFinds
<1>2. \A i \in h + 1 .. Len(ev) : f[i] \in {}
  BY <1>1 DEF Finds
<1> QED BY <1>2

-----------------------------------------------------------------------------
(* The characters on their way to getline.                                 *)

\* That g says which event a byte is of.
Carries(g, events, n, e, bytes) ==
  /\ g \in [DOMAIN bytes -> n + 1 .. e]
  /\ \A p \in DOMAIN bytes : IsCharacter(events, g[p]) /\ bytes[p] = Meant(events, g[p])
  /\ \A p, r \in DOMAIN bytes : p < r => g[p] < g[r]
  /\ \A i \in n + 1 .. e : IsCharacter(events, i) => \E p \in DOMAIN bytes : g[p] = i

LEMMA CarriedCarries ==
  ASSUME NEW ev, NEW n, NEW e, NEW b
  PROVE  Carried(ev, n, e, b) <=> \E g : Carries(g, ev, n, e, b)
BY Zenon DEF Carried, Carries

LEMMA CarriedNone ==
  ASSUME NEW ev, NEW n \in Nat, NEW e \in Nat
  PROVE  /\ Carried(ev, n, n, <<>>)
         /\ Carried(ev, n, e, <<>>) => \A i \in n + 1 .. e : ~IsCharacter(ev, i)
<1>1. DOMAIN <<>> = {} /\ n + 1 .. n = {}
  OBVIOUS
<1>2. Carries(<<>>, ev, n, n, <<>>)
  BY <1>1 DEF Carries
<1>3. ASSUME NEW g, Carries(g, ev, n, e, <<>>) PROVE \A i \in n + 1 .. e : ~IsCharacter(ev, i)
  BY <1>1, <1>3 DEF Carries
<1> QED BY <1>2, <1>3, CarriedCarries

\* More events do not change what the characters are of.
LEMMA CarriedStays ==
  ASSUME NEW ev \in Seq(Events), NEW x \in Events, NEW n \in Nat, NEW e \in Nat, e <= Len(ev),
         NEW b, Carried(ev, n, e, b)
  PROVE  Carried(Append(ev, x), n, e, b)
<1> DEFINE u == Append(ev, x)
<1>1. PICK g : Carries(g, ev, n, e, b)
  BY CarriedCarries
<1>2. ASSUME NEW i \in n + 1 .. e
      PROVE  IsCharacter(u, i) = IsCharacter(ev, i) /\ Meant(u, i) = Meant(ev, i)
  <2>1. i \in 0 .. Len(ev) /\ i # 0
    OBVIOUS
  <2> QED BY <2>1, MeantStays
<1> HIDE DEF u
<1>3. Carries(g, u, n, e, b)
  BY <1>1, <1>2 DEF Carries
<1> QED BY <1>3, CarriedCarries DEF u

\* The service is done with another event.
LEMMA CarriedSkip ==
  ASSUME NEW ev, NEW n \in Nat, NEW e \in Nat, NEW b \in Seq(Characters), Carried(ev, n, e, b),
         ~IsCharacter(ev, e + 1)
  PROVE  Carried(ev, n, e + 1, b)
<1>1. PICK g : Carries(g, ev, n, e, b)
  BY CarriedCarries
<1>2. \A i \in n + 1 .. e + 1 : i \in n + 1 .. e \/ i = e + 1
  OBVIOUS
<1>3. n + 1 .. e \subseteq n + 1 .. e + 1
  OBVIOUS
<1>4. Carries(g, ev, n, e + 1, b)
  BY <1>1, <1>2, <1>3 DEF Carries
<1> QED BY <1>4, CarriedCarries

LEMMA CarriedWrite ==
  ASSUME NEW ev, NEW n \in Nat, NEW e \in Nat, n <= e, NEW b \in Seq(Characters),
         Carried(ev, n, e, b), IsCharacter(ev, e + 1), NEW c \in Characters,
         c = Meant(ev, e + 1)
  PROVE  Carried(ev, n, e + 1, Append(b, c))
<1> DEFINE m == Len(b)
           r == Append(b, c)
           e1 == e + 1
<1>1. PICK g : Carries(g, ev, n, e, b)
  BY CarriedCarries
<1>2. m \in Nat /\ DOMAIN b = 1 .. m /\ DOMAIN r = 1 .. m + 1 /\ r[m + 1] = c
      /\ \A p \in 1 .. m : r[p] = b[p]
  OBVIOUS
<1>3. e1 \in n + 1 .. e1 /\ \A i \in n + 1 .. e : i \in n + 1 .. e1 /\ i < e1
  OBVIOUS
<1>4. \A i \in n + 1 .. e1 : i = e1 \/ i \in n + 1 .. e
  OBVIOUS
<1>5. IsCharacter(ev, e1) /\ c = Meant(ev, e1)
  OBVIOUS
<1> HIDE DEF m, r, e1
<1> DEFINE k == [p \in 1 .. m + 1 |-> IF p = m + 1 THEN e1 ELSE g[p]]
<1>6. \A p \in 1 .. m + 1 : p = m + 1 \/ (p \in 1 .. m /\ p # m + 1)
  BY <1>2
<1>7. /\ g \in [1 .. m -> n + 1 .. e]
      /\ \A p \in 1 .. m : IsCharacter(ev, g[p]) /\ b[p] = Meant(ev, g[p])
      /\ \A p, s \in 1 .. m : p < s => g[p] < g[s]
      /\ \A i \in n + 1 .. e : IsCharacter(ev, i) => \E p \in 1 .. m : g[p] = i
  BY <1>1, <1>2 DEF Carries
<1>8. k \in [1 .. m + 1 -> n + 1 .. e1]
  BY <1>3, <1>6, <1>7
<1>9. k[m + 1] = e1 /\ \A p \in 1 .. m : k[p] = g[p] /\ g[p] \in n + 1 .. e /\ p \in 1 .. m + 1
  BY <1>2, <1>7
<1>9a. m + 1 \in 1 .. m + 1
  BY <1>2
<1> HIDE DEF k
<1>10. \A p \in 1 .. m + 1 : IsCharacter(ev, k[p]) /\ r[p] = Meant(ev, k[p])
  BY <1>2, <1>5, <1>6, <1>7, <1>9
<1>11. \A p, s \in 1 .. m + 1 : p < s => k[p] < k[s]
  <2> SUFFICES ASSUME NEW p \in 1 .. m + 1, NEW s \in 1 .. m + 1, p < s PROVE k[p] < k[s]
    OBVIOUS
  <2>1. p \in 1 .. m
    BY <1>2
  <2>2. CASE s = m + 1
    BY <1>3, <1>9, <2>1, <2>2
  <2>3. CASE s # m + 1
    <3>1. s \in 1 .. m
      BY <1>6, <2>3
    <3> QED BY <1>7, <1>9, <2>1, <3>1
  <2> QED BY <2>2, <2>3
<1>12. \A i \in n + 1 .. e1 : IsCharacter(ev, i) => \E p \in 1 .. m + 1 : k[p] = i
  BY <1>4, <1>7, <1>9, <1>9a
<1>13. Carries(k, ev, n, e1, r)
  BY <1>2, <1>8, <1>10, <1>11, <1>12 DEF Carries
<1> QED BY <1>13, CarriedCarries DEF e1, r

\* getline reads the first character.
LEMMA CarriedRead ==
  ASSUME NEW ev, NEW n \in Nat, NEW e \in Nat, NEW b \in Seq(Characters), b # <<>>,
         Carried(ev, n, e, b)
  PROVE  \E i \in n + 1 .. e :
           /\ IsCharacter(ev, i) /\ Head(b) = Meant(ev, i)
           /\ \A j \in n + 1 .. i - 1 : ~IsCharacter(ev, j)
           /\ Carried(ev, i, e, Tail(b))
<1> DEFINE m == Len(b)
           t == Tail(b)
<1>1. PICK g : Carries(g, ev, n, e, b)
  BY CarriedCarries
<1>2. m \in Nat /\ m # 0 /\ DOMAIN b = 1 .. m /\ DOMAIN t = 1 .. m - 1 /\ Head(b) = b[1]
      /\ \A p \in 1 .. m - 1 : t[p] = b[p + 1]
  OBVIOUS
<1> HIDE DEF m, t
<1>3. /\ g \in [1 .. m -> n + 1 .. e]
      /\ \A p \in 1 .. m : IsCharacter(ev, g[p]) /\ b[p] = Meant(ev, g[p])
      /\ \A p, s \in 1 .. m : p < s => g[p] < g[s]
      /\ \A i \in n + 1 .. e : IsCharacter(ev, i) => \E p \in 1 .. m : g[p] = i
  BY <1>1, <1>2 DEF Carries
<1>4. 1 \in 1 .. m /\ \A p \in 1 .. m - 1 : p + 1 \in 1 .. m /\ 1 < p + 1
  BY <1>2
<1> DEFINE i == g[1]
           k == [p \in 1 .. m - 1 |-> g[p + 1]]
<1>5. i \in n + 1 .. e /\ i \in Nat /\ IsCharacter(ev, i) /\ Head(b) = Meant(ev, i)
  BY <1>2, <1>3, <1>4
<1>6. \A p \in 1 .. m : g[p] \in n + 1 .. e /\ g[p] \in Nat /\ (p # 1 => i < g[p])
  <2> SUFFICES ASSUME NEW p \in 1 .. m
               PROVE  g[p] \in n + 1 .. e /\ g[p] \in Nat /\ (p # 1 => i < g[p])
    OBVIOUS
  <2>1. g[p] \in n + 1 .. e /\ (p # 1 => 1 < p)
    BY <1>2, <1>3
  <2> QED BY <1>3, <1>4, <2>1
<1>7. \A j \in n + 1 .. i - 1 : ~IsCharacter(ev, j)
  <2> SUFFICES ASSUME NEW j \in n + 1 .. i - 1, IsCharacter(ev, j) PROVE FALSE
    OBVIOUS
  <2>1. j \in n + 1 .. e /\ ~(i < j) /\ i # j
    BY <1>5
  <2>2. PICK p \in 1 .. m : g[p] = j
    BY <1>3, <2>1
  <2> QED BY <1>6, <2>1, <2>2
<1>8. \A p \in 1 .. m - 1 : g[p + 1] \in i + 1 .. e
  <2> SUFFICES ASSUME NEW p \in 1 .. m - 1 PROVE g[p + 1] \in i + 1 .. e
    OBVIOUS
  <2>1. p + 1 \in 1 .. m /\ p + 1 # 1
    BY <1>4
  <2>2. g[p + 1] \in n + 1 .. e /\ g[p + 1] \in Nat /\ i < g[p + 1]
    BY <1>6, <2>1
  <2> DEFINE x == g[p + 1]
  <2> HIDE DEF x, i
  <2>3. x \in n + 1 .. e /\ x \in Nat /\ i < x /\ i \in Nat
    BY <1>5, <2>2 DEF x
  <2>4. x \in i + 1 .. e
    BY <2>3
  <2> QED BY <2>4 DEF x
<1>9. Carries(k, ev, i, e, t)
  <2>1. k \in [1 .. m - 1 -> i + 1 .. e]
    BY <1>8
  <2>2. \A p \in 1 .. m - 1 : k[p] = g[p + 1]
    OBVIOUS
  <2> HIDE DEF k, i
  <2>3. \A p \in 1 .. m - 1 : IsCharacter(ev, k[p]) /\ t[p] = Meant(ev, k[p])
    BY <1>2, <1>3, <1>4, <2>2
  <2>4. \A p, s \in 1 .. m - 1 : p < s => k[p] < k[s]
    <3> SUFFICES ASSUME NEW p \in 1 .. m - 1, NEW s \in 1 .. m - 1, p < s PROVE k[p] < k[s]
      OBVIOUS
    <3>1. p + 1 \in 1 .. m /\ s + 1 \in 1 .. m /\ p + 1 < s + 1
      BY <1>4
    <3> QED BY <1>3, <2>2, <3>1
  <2>5. ASSUME NEW j \in i + 1 .. e, IsCharacter(ev, j)
        PROVE  \E p \in 1 .. m - 1 : k[p] = j
    <3>1. j \in n + 1 .. e /\ j # i
      BY <1>5
    <3>2. PICK p \in 1 .. m : g[p] = j
      BY <1>3, <2>5, <3>1
    <3>3. p # 1
      BY <3>1, <3>2 DEF i
    <3>4. p - 1 \in 1 .. m - 1 /\ (p - 1) + 1 = p
      BY <1>2, <3>3
    <3> QED BY <2>2, <3>2, <3>4
  <2> QED BY <1>2, <2>1, <2>3, <2>4, <2>5 DEF Carries
<1>10. Carried(ev, i, e, t)
  BY <1>9, CarriedCarries
<1> HIDE DEF i
<1> QED BY <1>5, <1>7, <1>10 DEF t

\* What a character makes of the lines is what getline does with it.
LEMMA EditedLines ==
  ASSUME NEW ls \in Seq(Seq(Characters)), NEW line \in Seq(Characters), NEW c \in Characters
  PROVE  /\ c = Newline => Edited(Append(ls, line), c) = Append(Append(ls, line), <<>>)
         /\ c # Newline => Edited(Append(ls, line), c) = Append(ls, AfterChar(line, c))
<1>1. Append(ls, line) \in Seq(Seq(Characters)) /\ Last(Append(ls, line)) = line
      /\ Len(Append(ls, line)) = Len(ls) + 1
  BY DEF Last
<1>2. Front(Append(ls, line)) = ls
  BY <1>1 DEF Front
<1>3. CASE c = Newline
  BY <1>3 DEF Edited
<1>4. CASE c # Newline /\ c # Backspace
  BY <1>1, <1>2, <1>4 DEF Edited, AfterChar
<1>5. CASE c = Backspace /\ c # Newline
  BY <1>1, <1>2, <1>5 DEF Edited, AfterChar
<1>6. c = Backspace \/ c # Backspace
  OBVIOUS
<1> QED BY <1>3, <1>4, <1>5, <1>6

-----------------------------------------------------------------------------
(* The steps.                                                              *)

\* What the keyboard service makes of a scancode.
LEMMA ReleasedFields ==
  ASSUME NEW k \in Keyboards, NEW key
  PROVE  LET r == Released(k, key)
         IN  /\ r.ahead = k.ahead /\ r.capslock = k.capslock
             /\ r.at = "irqWait"
             /\ r.shift = IF key \in ShiftKeys THEN FALSE ELSE k.shift
<1>1. CASE key \in ShiftKeys
  BY <1>1 DEF Released, Keyboards
<1>2. CASE key \notin ShiftKeys
  BY <1>2 DEF Released, Keyboards
<1> QED BY <1>1, <1>2

OtherKeys == ShiftKeys \cup ControlKeys \cup LockKeys \cup {"capsLock"}

LEMMA KeysDiffer ==
  /\ \A key \in ButtonKeys : key \notin OtherKeys
  /\ \A key \in OtherKeys : key # "enter" /\ key # "none"
  /\ "capsLock" \notin ShiftKeys \cup ControlKeys \cup LockKeys
  /\ ShiftKeys \cap ControlKeys = {} /\ ShiftKeys \cap LockKeys = {}
<1>1. ButtonKeys = {"a", "one", "enter", "back", "tab"}
  BY DEF ButtonKeys, keyboard_us
<1> QED BY <1>1 DEF OtherKeys, ShiftKeys, ControlKeys, LockKeys

LEMMA PressedFields ==
  ASSUME NEW k \in Keyboards, NEW key
  PROVE  LET r == Pressed(k, key)
         IN  /\ r.ahead = k.ahead
             /\ r.shift = IF key \in ShiftKeys THEN TRUE ELSE k.shift
             /\ r.capslock = IF key = "capsLock" THEN ~k.capslock ELSE k.capslock
             /\ key \in OtherKeys => r.at \in {"irqWait", "leds"}
             /\ key \notin OtherKeys => r.at = "writeStream" /\ r.byte = Character(k, key)
<1>0. AfterPress(k.leds) \in {"leds", "irqWait"}
  BY DEF AfterPress
<1> DEFINE a == AfterPress(k.leds)
           c == Character(k, key)
<1>1. CASE key \in ShiftKeys
  <2>1. Pressed(k, key) = [k EXCEPT !.shift = TRUE, !.at = a]
    BY <1>1 DEF Pressed
  <2>2. key # "capsLock" /\ key \in OtherKeys
    BY <1>1, KeysDiffer DEF OtherKeys
  <2> HIDE DEF a, c
  <2> QED BY <1>0, <1>1, <2>1, <2>2 DEF Keyboards, a
<1>2. CASE key \in ControlKeys
  <2>1. key \notin ShiftKeys /\ key # "capsLock" /\ key \in OtherKeys
    BY <1>2, KeysDiffer DEF OtherKeys
  <2>2. Pressed(k, key) = [k EXCEPT !.at = a]
    BY <1>2, <2>1 DEF Pressed
  <2> HIDE DEF a, c
  <2> QED BY <1>0, <2>1, <2>2 DEF Keyboards, a
<1>3. CASE key = "capsLock"
  <2>1. key \notin ShiftKeys /\ key \notin ControlKeys /\ key \in OtherKeys
    BY <1>3, KeysDiffer DEF OtherKeys
  <2>2. Pressed(k, key) = [k EXCEPT !.capslock = ~k.capslock, !.leds = TRUE, !.at = "leds"]
    BY <1>3, <2>1 DEF Pressed
  <2> HIDE DEF a, c
  <2> QED BY <1>3, <2>1, <2>2 DEF Keyboards
<1>4. CASE key \in LockKeys /\ key \notin ControlKeys
  <2>1. key \notin ShiftKeys /\ key # "capsLock" /\ key \in OtherKeys
    BY <1>4, KeysDiffer DEF OtherKeys
  <2>2. Pressed(k, key) = [k EXCEPT !.leds = TRUE, !.at = "leds"]
    BY <1>4, <2>1 DEF Pressed
  <2> HIDE DEF a, c
  <2> QED BY <2>1, <2>2 DEF Keyboards
<1>5. CASE key \notin OtherKeys
  <2>1. key \notin ShiftKeys /\ key \notin ControlKeys /\ key # "capsLock" /\ key \notin LockKeys
    BY <1>5 DEF OtherKeys
  <2>2. Pressed(k, key) = [k EXCEPT !.byte = c, !.at = "writeStream"]
    BY <2>1 DEF Pressed
  <2> HIDE DEF a, c
  <2> QED BY <1>5, <2>1, <2>2 DEF Keyboards, c
<1> QED BY <1>1, <1>2, <1>3, <1>4, <1>5 DEF OtherKeys

LEMMA UnreadTypes ==
  ASSUME TerminalInv
  PROVE  /\ Unread(queued) \in Seq(Scancodes)
         /\ full => Unread(queued) = <<port>> \o queued
         /\ ~full => Unread(queued) = queued
<1>1. queued \in Seq(Scancodes) /\ port \in Scancodes
  BY DEF TerminalInv
<1> QED BY <1>1 DEF Unread

\* A step that leaves the characters and the shell alone.
LEMMA GettingStays ==
  ASSUME UNCHANGED <<typed, missed, lines, input, shell>>, NEW e, NEW n, Getting(e, n)
  PROVE  Getting(e, n)'
BY DEF Getting, Listens

LEMMA TypeKeepsEvents ==
  ASSUME TerminalInv, ShellInv, EventsInv, NEW x \in Events, Type(x)
  PROVE  ShellInv' /\ EventsInv'
<1>1. /\ typed' = Append(typed, x) /\ queued' = Append(queued, x)
      /\ UNCHANGED <<port, full, hits, keyboard, input, shell, console, missed, lines>>
  BY DEF Type
<1>2. typed \in Seq(Events)
  BY DEF ShellInv
<1>3. ShellInv'
  BY <1>1, <1>2 DEF ShellInv, Listens
<1>4. EventsInv'
  <2> SUFFICES ASSUME ~keyboard.ahead PROVE EventsInv'
    BY <1>1 DEF EventsInv
  <2>1. InterruptsInv
    BY DEF EventsInv
  <2>2. PICK h \in Nat, n \in Nat : Reading(h) /\ Writing(h) /\ Getting(Done(h), n)
    BY DEF EventsInv
  <2>3. h <= Len(typed) /\ h \in 0 .. Len(typed) /\ Len(typed') = Len(typed) + 1
    BY <1>1, <1>2, <2>2 DEF Reading
  <2>4. Unread(queued)' = Append(Unread(queued), x)
    <3>1. queued \in Seq(Scancodes) /\ port \in Scancodes /\ x \in Scancodes
      BY DEF TerminalInv, Scancodes
    <3> QED BY <1>1, <3>1 DEF Unread
  <2>5. Follow(typed', h, Unread(queued)')
    BY <1>1, <1>2, <2>2, <2>3, <2>4, FollowType, UnreadTypes DEF Reading
  <2>6. /\ ShiftIsDown(typed', h) = ShiftIsDown(typed, h)
        /\ CapsAreOn(typed', h) = CapsAreOn(typed, h)
        /\ h # 0 => IsCharacter(typed', h) = IsCharacter(typed, h) /\ Meant(typed', h) = Meant(typed, h)
    BY <1>1, <1>2, <2>3, MeantStays
  <2>7. Reading(h)'
    <3>1. h \in 0 .. Len(typed')
      BY <1>2, <2>3
    <3> QED BY <1>1, <2>2, <2>5, <2>6, <3>1 DEF Reading
  <2>8. Writing(h)'
    BY <1>1, <2>2, <2>6 DEF Writing
  <2> DEFINE e == Done(h)
  <2>9. e \in Nat /\ e <= Len(typed)
    BY <1>2, <2>2, <2>3 DEF Done, Writing
  <2>10. Getting(Done(h), n)'
    <3>0. Done(h)' = Done(h)
      BY <1>1 DEF Done
    <3>1. missed \in Nat /\ n \in missed .. e /\ n \in missed .. Len(typed)
      <4>1. missed \in Nat /\ n \in missed .. e
        BY <2>2 DEF Getting, ShellInv
      <4> HIDE DEF e
      <4> QED BY <1>2, <2>9, <4>1
    <3>2. LinesMeant(typed', missed, n) = LinesMeant(typed, missed, n)
      BY <1>1, <1>2, <3>1, LinesStay
    <3>3. Carried(typed', n, e, input)
      BY <1>1, <1>2, <2>2, <2>9, CarriedStays DEF Getting
    <3> QED BY <1>1, <2>2, <3>0, <3>2, <3>3 DEF Getting, Listens
  <2>11. InterruptsInv'
    BY <1>1, <2>1 DEF InterruptsInv
  <2> QED BY <2>2, <2>7, <2>8, <2>10, <2>11 DEF EventsInv
<1> QED BY <1>3, <1>4

LEMMA InterruptKeepsEvents ==
  ASSUME TerminalInv, ShellInv, EventsInv, Interrupt
  PROVE  ShellInv' /\ EventsInv'
<1>1. /\ ~full /\ queued # <<>> /\ port' = Head(queued) /\ full' = TRUE
      /\ queued' = Tail(queued)
      /\ hits' = IF keyboard.at = "irqListen" THEN hits ELSE hits + 1
      /\ UNCHANGED <<keyboard, input, shell, console, typed, missed, lines>>
  BY DEF Interrupt
<1>2. ShellInv'
  BY <1>1 DEF ShellInv, Listens
<1>3. EventsInv'
  <2> SUFFICES ASSUME ~keyboard.ahead PROVE EventsInv'
    BY <1>1 DEF EventsInv
  <2>1. InterruptsInv
    BY DEF EventsInv
  <2>2. PICK h \in Nat, n \in Nat : Reading(h) /\ Writing(h) /\ Getting(Done(h), n)
    BY DEF EventsInv
  <2>3. Unread(queued)' = Unread(queued)
    BY <1>1 DEF Unread, TerminalInv
  <2>4. Reading(h)' /\ Writing(h)' /\ Done(h)' = Done(h)
    BY <1>1, <2>2, <2>3 DEF Reading, Writing, Done
  <2>5. Getting(Done(h), n)'
    BY <1>1, <2>2, <2>4 DEF Getting, Listens
  <2>6. InterruptsInv'
    BY <1>1, <2>1 DEF InterruptsInv
  <2> QED BY <2>2, <2>4, <2>5, <2>6 DEF EventsInv
<1> QED BY <1>2, <1>3

LEMMA IrqListenKeepsEvents ==
  ASSUME TerminalInv, ShellInv, EventsInv, IrqListen
  PROVE  ShellInv' /\ EventsInv'
<1>1. /\ keyboard.at = "irqListen" /\ keyboard' = [keyboard EXCEPT !.at = "firstRead"]
      /\ UNCHANGED <<queued, port, full, hits, input, shell, console, typed, missed, lines>>
  BY DEF IrqListen
<1>2. ShellInv'
  BY <1>1 DEF ShellInv, Listens
<1>3. /\ keyboard'.at = "firstRead" /\ keyboard'.ahead = keyboard.ahead
      /\ keyboard'.shift = keyboard.shift /\ keyboard'.capslock = keyboard.capslock
  BY <1>1 DEF TerminalInv, Keyboards
<1>4. EventsInv'
  <2> SUFFICES ASSUME ~keyboard.ahead PROVE EventsInv'
    BY <1>3 DEF EventsInv
  <2>1. InterruptsInv
    BY DEF EventsInv
  <2>2. PICK h \in Nat, n \in Nat : Reading(h) /\ Writing(h) /\ Getting(Done(h), n)
    BY DEF EventsInv
  <2>3. Unread(queued)' = Unread(queued)
    BY <1>1 DEF Unread
  <2>4. Reading(h)' /\ Writing(h)' /\ Done(h)' = Done(h)
    BY <1>1, <1>3, <2>2, <2>3 DEF Reading, Writing, Done
  <2>5. Getting(Done(h), n)'
    BY <1>1, <2>2, <2>4 DEF Getting, Listens
  <2>6. InterruptsInv'
    BY <1>1, <1>3, <2>1 DEF InterruptsInv
  <2> QED BY <2>2, <2>4, <2>5, <2>6 DEF EventsInv
<1> QED BY <1>2, <1>4

LEMMA UpdateLEDsKeepsEvents ==
  ASSUME TerminalInv, ShellInv, EventsInv, UpdateLEDs
  PROVE  ShellInv' /\ EventsInv'
<1>1. /\ keyboard.at = "leds" /\ keyboard' = [keyboard EXCEPT !.at = "irqWait"]
      /\ queued' = queued \o <<Acknowledge, Acknowledge>>
      /\ UNCHANGED <<port, full, hits, input, shell, console, typed, missed, lines>>
  BY DEF UpdateLEDs
<1>2. ShellInv'
  BY <1>1 DEF ShellInv, Listens
<1>3. /\ keyboard'.at = "irqWait" /\ keyboard'.ahead = keyboard.ahead
      /\ keyboard'.shift = keyboard.shift /\ keyboard'.capslock = keyboard.capslock
  BY <1>1 DEF TerminalInv, Keyboards
<1>4. EventsInv'
  <2> SUFFICES ASSUME ~keyboard.ahead PROVE EventsInv'
    BY <1>3 DEF EventsInv
  <2>1. InterruptsInv
    BY DEF EventsInv
  <2>2. PICK h \in Nat, n \in Nat : Reading(h) /\ Writing(h) /\ Getting(Done(h), n)
    BY DEF EventsInv
  <2> DEFINE q == Unread(queued)
             r == Append(q, Acknowledge)
  <2>3. Unread(queued)' = Append(r, Acknowledge) /\ q \in Seq(Scancodes) /\ r \in Seq(Scancodes)
    <3>1. queued \in Seq(Scancodes) /\ port \in Scancodes /\ Acknowledge \in Scancodes
      BY DEF TerminalInv, Scancodes
    <3>2. queued' = Append(Append(queued, Acknowledge), Acknowledge)
      BY <1>1, <3>1
    <3> QED BY <1>1, <3>1, <3>2 DEF Unread
  <2> HIDE DEF q
  <2>4. typed \in Seq(Events)
    BY DEF ShellInv
  <2>5. Follow(typed, h, r)
    BY <2>2, <2>3, <2>4, FollowAcknowledged DEF Reading, q
  <2> HIDE DEF r
  <2>6. Follow(typed, h, Append(r, Acknowledge))
    BY <2>2, <2>3, <2>4, <2>5, FollowAcknowledged
  <2>7. Reading(h)' /\ Writing(h)' /\ Done(h)' = Done(h)
    BY <1>1, <1>3, <2>2, <2>3, <2>6 DEF Reading, Writing, Done
  <2>8. Getting(Done(h), n)'
    BY <1>1, <2>2, <2>7 DEF Getting, Listens
  <2>9. InterruptsInv'
    BY <1>1, <1>3, <2>1 DEF InterruptsInv
  <2> QED BY <2>2, <2>7, <2>8, <2>9 DEF EventsInv
<1> QED BY <1>2, <1>4

LEMMA ReadScancodeKeepsEvents ==
  ASSUME TerminalInv, ShellInv, EventsInv, ReadScancode
  PROVE  ShellInv' /\ EventsInv'
<1> DEFINE k == [keyboard EXCEPT !.ahead = @ \/ (keyboard.at = "firstRead" /\ hits > 0)]
           key == port.key
<1>1. /\ keyboard' = IF port.up THEN Released(k, key) ELSE Pressed(k, key)
      /\ full' = FALSE
      /\ IF full THEN Handled(port, keyboard'.at) ELSE UNCHANGED missed
      /\ UNCHANGED <<queued, port, input, shell, console, typed, lines>>
  BY DEF ReadScancode
<1>2. \/ keyboard.at = "firstRead" /\ hits' = hits
      \/ keyboard.at = "irqWait" /\ hits > 0 /\ hits' = hits - 1
  BY DEF ReadScancode
<1>3. /\ k.shift = keyboard.shift /\ k.capslock = keyboard.capslock
      /\ k.ahead = (keyboard.ahead \/ (keyboard.at = "firstRead" /\ hits > 0))
      /\ k \in Keyboards
  BY DEF TerminalInv, Keyboards
<1> HIDE DEF k
<1>4. keyboard'.ahead = k.ahead
  <2>1. k \in Keyboards
    BY <1>3
  <2>2. Released(k, key).ahead = k.ahead
    BY <2>1, ReleasedFields
  <2>3. Pressed(k, key).ahead = k.ahead
    BY <2>1, PressedFields
  <2> QED BY <1>1, <2>2, <2>3
<1>5. ShellInv'
  <2>1. hits \in Nat /\ hits' \in Nat
    BY <1>2 DEF ShellInv
  <2>2. missed' \in Nat
    BY <1>1 DEF Handled, ShellInv
  <2> QED BY <1>1, <2>1, <2>2 DEF ShellInv, Listens
<1>6. ASSUME ~keyboard'.ahead PROVE EventsInv'
  <2>1. ~keyboard.ahead /\ ~(keyboard.at = "firstRead" /\ hits > 0)
    BY <1>3, <1>4, <1>6
  <2>2. InterruptsInv
    BY <2>1 DEF EventsInv
  <2>3. PICK h \in Nat, n \in Nat : Reading(h) /\ Writing(h) /\ Getting(Done(h), n)
    BY <2>1 DEF EventsInv
  <2>4. hits' = 0 /\ (keyboard.at = "irqWait" => full)
    <3>1. hits \in Nat
      BY DEF ShellInv
    <3> QED BY <1>2, <2>1, <2>2, <3>1 DEF InterruptsInv
  <2>5. Done(h) = h
    BY <1>2 DEF Done
  <2>6. ~full => port.up /\ key = "enter"
    BY <1>2, <2>2, <2>4 DEF InterruptsInv
  <2>7. port \in Scancodes /\ queued \in Seq(Scancodes) /\ typed \in Seq(Events)
    BY DEF TerminalInv, ShellInv
  <2>7a. h <= Len(typed) /\ Follow(typed, h, Unread(queued))
    BY <2>3, <2>7 DEF Reading
  <2>8. Unread(queued)' = queued
    BY <1>1, <2>7 DEF Unread
  \* The service waits again or writes, so the interrupts are in order.
  <2>9. ASSUME keyboard'.at \in {"irqWait", "leds", "writeStream"} PROVE InterruptsInv'
    BY <1>1, <2>4, <2>9 DEF InterruptsInv
  \* What is read is no event.
  <2>10. ASSUME ~full \/ port = Acknowledge PROVE EventsInv'
    <3>1. port.up /\ key \notin ShiftKeys /\ keyboard' = Released(k, key)
      <4>1. CASE port = Acknowledge
        <5>1. key = "none" /\ port.up
          BY <4>1 DEF Acknowledge
        <5> QED BY <1>1, <5>1, KeysDiffer DEF OtherKeys
      <4>2. CASE ~full
        BY <1>1, <2>6, <4>2, KeysDiffer DEF OtherKeys
      <4> QED BY <2>10, <4>1, <4>2
    <3>2. /\ keyboard'.at = "irqWait" /\ keyboard'.shift = keyboard.shift
          /\ keyboard'.capslock = keyboard.capslock
      BY <1>3, <3>1, ReleasedFields
    <3>3. missed' = missed
      <4>1. CASE port = Acknowledge
        BY <1>1, <4>1, NoEventAcknowledges DEF Handled
      <4>2. CASE ~full
        BY <1>1, <4>2
      <4> QED BY <2>10, <4>1, <4>2
    <3>4. Follow(typed, h, queued)
      <4>1. CASE ~full
        BY <2>3, <4>1, UnreadTypes DEF Reading
      <4>2. CASE full /\ port = Acknowledge
        <5>1. Follow(typed, h, <<port>> \o queued) /\ h <= Len(typed)
          BY <2>7a, <4>2, UnreadTypes
        <5> QED BY <2>7, <4>2, <5>1, FollowRead
      <4> QED BY <2>10, <4>1, <4>2
    <3>5. Reading(h)' /\ Writing(h)' /\ Done(h)' = Done(h)
      BY <1>1, <2>3, <2>5, <2>8, <3>2, <3>4 DEF Reading, Writing, Done
    <3>6. Getting(Done(h), n)'
      BY <1>1, <2>3, <3>3, <3>5 DEF Getting, Listens
    <3>7. InterruptsInv'
      BY <2>9, <3>2
    <3> QED BY <2>3, <3>5, <3>6, <3>7 DEF EventsInv
  \* What is read is the event h + 1.
  <2>11. ASSUME full, port # Acknowledge PROVE EventsInv'
    <3>1. /\ h + 1 <= Len(typed) /\ typed[h + 1] = port /\ Follow(typed, h + 1, queued)
          /\ h + 1 \in Nat /\ h + 1 \in 0 .. Len(typed)
      <4>1. Follow(typed, h, <<port>> \o queued) /\ h <= Len(typed)
        BY <2>7a, <2>11, UnreadTypes
      <4>2. h + 1 <= Len(typed) /\ typed[h + 1] = port /\ Follow(typed, h + 1, queued)
        BY <2>7, <2>11, <4>1, FollowRead
      <4> QED BY <2>7, <4>2
    <3>2. port \in Events /\ port.up \in BOOLEAN /\ key \in ButtonKeys \cup OtherKeys
      <4>1. port \in Events
        BY <2>7, <3>1
      <4> QED BY <4>1, InputOutputAssumption DEF ButtonKeys, OtherKeys
    <3>3. /\ IsCharacter(typed, h + 1) <=> key \notin OtherKeys /\ ~port.up
          /\ ShiftIsDown(typed, h + 1) = IF key \in ShiftKeys THEN ~port.up
                                         ELSE ShiftIsDown(typed, h)
          /\ CapsAreOn(typed, h + 1) = IF key = "capsLock" /\ ~port.up THEN ~CapsAreOn(typed, h)
                                       ELSE CapsAreOn(typed, h)
      BY <2>7, <3>1, <3>2, ShiftSteps, CapsSteps, KeysDiffer DEF IsCharacter
    <3>4. k.shift = ShiftIsDown(typed, h) /\ k.capslock = CapsAreOn(typed, h)
      BY <1>3, <2>3 DEF Reading
    <3>5. /\ keyboard'.shift = ShiftIsDown(typed, h + 1)
          /\ keyboard'.capslock = CapsAreOn(typed, h + 1)
      <4>1. CASE port.up
        <5>1. port.up = TRUE
          BY <3>2, <4>1
        <5>2. keyboard' = Released(k, key)
          BY <1>1, <4>1
        <5> QED BY <1>3, <3>3, <3>4, <5>1, <5>2, ReleasedFields
      <4>2. CASE ~port.up
        <5>1. port.up = FALSE
          BY <3>2, <4>2
        <5>2. keyboard' = Pressed(k, key)
          BY <1>1, <4>2
        <5> QED BY <1>3, <3>3, <3>4, <5>1, <5>2, PressedFields
      <4> QED BY <4>1, <4>2
    <3>6. Reading(h + 1)'
      BY <1>1, <2>8, <3>1, <3>5 DEF Reading
    <3>7. /\ h = missed \/ Listens
          /\ Getting(h, n)
      BY <2>3, <2>5 DEF Getting
    <3>8. CASE IsCharacter(typed, h + 1)
      <4>1. keyboard' = Pressed(k, key) /\ key \notin OtherKeys
        BY <1>1, <3>3, <3>8
      <4>2. keyboard'.at = "writeStream" /\ keyboard'.byte = Character(k, key)
        BY <1>3, <4>1, PressedFields
      <4>3. Character(k, key) = Meant(typed, h + 1)
        <5>1. typed[h + 1].key = key /\ key \in ButtonKeys
          BY <3>1, <3>2, <4>1
        <5>2. k.shift = ShiftIsDown(typed, h + 1) /\ k.capslock = CapsAreOn(typed, h + 1)
          BY <3>3, <3>4, <4>1 DEF OtherKeys
        <5> QED BY <1>3, <3>1, <5>1, <5>2, CharacterIsMeant
      <4>4. missed' = missed
        BY <1>1, <2>11, <4>2 DEF Handled
      <4>5. Done(h + 1)' = h /\ h + 1 # 0
        <5>1. (h + 1) - 1 = h /\ h + 1 # 0
          OBVIOUS
        <5> QED BY <4>2, <5>1 DEF Done
      <4>6. Writing(h + 1)'
        BY <1>1, <3>8, <4>2, <4>3, <4>5 DEF Writing
      <4>7. Getting(Done(h + 1), n)'
        BY <1>1, <3>7, <4>4, <4>5 DEF Getting, Listens
      <4>8. InterruptsInv'
        BY <2>9, <4>2
      <4> QED BY <2>3, <3>1, <3>6, <4>6, <4>7, <4>8 DEF EventsInv
    <3>9. CASE ~IsCharacter(typed, h + 1)
      <4>1. keyboard'.at \in {"irqWait", "leds"}
        <5>1. CASE port.up
          BY <1>1, <1>3, <5>1, ReleasedFields
        <5>2. CASE ~port.up
          BY <1>1, <1>3, <3>3, <3>9, <5>2, PressedFields
        <5> QED BY <5>1, <5>2
      <4>2. Done(h + 1)' = h + 1 /\ Writing(h + 1)' /\ InterruptsInv'
        BY <2>9, <4>1 DEF Done, Writing
      <4>3. missed' = IF ~Listens THEN missed + 1 ELSE missed
        BY <1>1, <2>11, <3>2, <4>1 DEF Handled
      <4>4. CASE Listens
        <5>1. Carried(typed, n, h + 1, input)
          <6>1. input \in Seq(Characters) /\ Carried(typed, n, h, input)
            BY <3>7 DEF TerminalInv, Getting
          <6> QED BY <3>9, <6>1, CarriedSkip
        <5>2. missed' = missed /\ n \in missed .. h + 1
          BY <3>7, <4>3, <4>4 DEF Getting, ShellInv
        <5>3. Getting(Done(h + 1), n)'
          BY <1>1, <3>7, <4>2, <4>4, <5>1, <5>2 DEF Getting, Listens
        <5> QED BY <2>3, <3>1, <3>6, <4>2, <5>3 DEF EventsInv
      <4>5. CASE ~Listens
        <5>1. missed' = h + 1 /\ input = <<>> /\ lines = <<>> /\ shell.line = <<>>
          BY <3>7, <4>3, <4>5 DEF ShellInv, Listens
        <5>2. LinesMeant(typed, h + 1, h + 1) = <<(<<>>)>> /\ Carried(typed, h + 1, h + 1, <<>>)
          BY <3>1, LinesMeantStep, CarriedNone
        <5>3. Append(lines, shell.line) = <<(<<>>)>> /\ h + 1 \in h + 1 .. h + 1
          BY <3>1, <5>1
        <5>4. Getting(Done(h + 1), h + 1)'
          BY <1>1, <4>2, <5>1, <5>2, <5>3 DEF Getting, Listens
        <5> QED BY <3>1, <3>6, <4>2, <5>4 DEF EventsInv
      <4> QED BY <4>4, <4>5
    <3> QED BY <3>8, <3>9
  <2> QED BY <2>10, <2>11
<1>7. ASSUME keyboard'.ahead PROVE EventsInv'
  BY <1>7 DEF EventsInv
<1> QED BY <1>5, <1>6, <1>7

LEMMA WriteKeyKeepsEvents ==
  ASSUME TerminalInv, ShellInv, EventsInv, WriteKey
  PROVE  ShellInv' /\ EventsInv'
<1> DEFINE b == keyboard.byte
           a == AfterPress(keyboard.leds)
<1>1. /\ keyboard.at = "writeStream"
      /\ input' = IF Listens THEN Append(input, b) ELSE input
      /\ missed' = IF Listens THEN missed ELSE missed + 1
      /\ keyboard' = [keyboard EXCEPT !.byte = Nul, !.at = a]
      /\ UNCHANGED <<queued, port, full, hits, shell, console, typed, lines>>
  BY DEF WriteKey
<1>2. a \in {"irqWait", "leds"}
  BY DEF AfterPress
<1> HIDE DEF a
<1>3. ShellInv'
  BY <1>1 DEF ShellInv, Listens
<1>4. /\ keyboard'.at = a /\ keyboard'.ahead = keyboard.ahead
      /\ keyboard'.shift = keyboard.shift /\ keyboard'.capslock = keyboard.capslock
      /\ b \in Characters
  BY <1>1, <1>2 DEF TerminalInv, Keyboards
<1>5. EventsInv'
  <2> SUFFICES ASSUME ~keyboard.ahead PROVE EventsInv'
    BY <1>4 DEF EventsInv
  <2>1. InterruptsInv
    BY DEF EventsInv
  <2>2. PICK h \in Nat, n \in Nat : Reading(h) /\ Writing(h) /\ Getting(Done(h), n)
    BY DEF EventsInv
  <2>3. Unread(queued)' = Unread(queued)
    BY <1>1 DEF Unread
  <2>4. InterruptsInv'
    BY <1>1, <1>2, <1>4, <2>1 DEF InterruptsInv
  <2>5. Reading(h)' /\ Writing(h)' /\ Done(h)' = h
    BY <1>1, <1>2, <1>4, <2>2, <2>3 DEF Reading, Writing, Done
  <2> DEFINE e == h - 1
  <2>6. /\ h # 0 /\ IsCharacter(typed, h) /\ b = Meant(typed, h)
        /\ Done(h) = e /\ e \in Nat /\ e + 1 = h
    BY <1>1, <2>2 DEF Writing, Done
  <2> HIDE DEF e
  <2>7. Getting(e, n)
    BY <2>2, <2>6
  <2>8. missed \in Nat /\ input \in Seq(Characters) /\ n \in missed .. e /\ n <= e
    BY <2>6, <2>7 DEF ShellInv, TerminalInv, Getting
  <2>9. CASE Listens
    <3>1. Carried(typed, n, h, Append(input, b))
      BY <1>4, <2>6, <2>7, <2>8, CarriedWrite DEF Getting
    <3>2. n \in missed .. h /\ missed' = missed /\ input' = Append(input, b)
      BY <1>1, <2>6, <2>8, <2>9
    <3>3. Getting(Done(h), n)'
      BY <1>1, <2>5, <2>7, <2>9, <3>1, <3>2 DEF Getting, Listens
    <3> QED BY <2>2, <2>4, <2>5, <3>3 DEF EventsInv
  <2>10. CASE ~Listens
    <3>1. missed' = h /\ input' = <<>> /\ lines = <<>> /\ shell.line = <<>>
      <4>1. missed = e /\ missed' = missed + 1 /\ input = <<>> /\ lines = <<>>
        BY <1>1, <2>7, <2>10 DEF Getting, ShellInv
      <4> QED BY <1>1, <2>6, <2>10, <4>1 DEF ShellInv, Listens
    <3>2. LinesMeant(typed, h, h) = <<(<<>>)>> /\ Carried(typed, h, h, <<>>)
      BY LinesMeantStep, CarriedNone
    <3>3. Append(lines, shell.line) = <<(<<>>)>> /\ h \in h .. h
      BY <3>1
    <3>4. Getting(Done(h), h)'
      BY <1>1, <2>5, <3>1, <3>2, <3>3 DEF Getting, Listens
    <3> QED BY <2>2, <2>4, <2>5, <3>4 DEF EventsInv
  <2> QED BY <2>9, <2>10
<1> QED BY <1>3, <1>5

\* A step of the shell that reads nothing.
LEMMA ShellStepKeepsEvents ==
  ASSUME EventsInv, UNCHANGED <<queued, port, full, hits, keyboard, input, typed, missed, lines>>,
         shell'.line = shell.line, ~Listens' => ~Listens
  PROVE  EventsInv'
<1>1. CASE keyboard.ahead
  BY <1>1 DEF EventsInv
<1>2. CASE ~keyboard.ahead
  <2>1. InterruptsInv
    BY <1>2 DEF EventsInv
  <2>2. PICK h \in Nat, n \in Nat : Reading(h) /\ Writing(h) /\ Getting(Done(h), n)
    BY <1>2 DEF EventsInv
  <2>3. Unread(queued)' = Unread(queued)
    BY DEF Unread
  <2>4. Reading(h)' /\ Writing(h)' /\ Done(h)' = Done(h)
    BY <2>2, <2>3 DEF Reading, Writing, Done
  <2>5. Getting(Done(h), n)'
    BY <2>2, <2>4 DEF Getting
  <2>6. InterruptsInv'
    BY <2>1 DEF InterruptsInv
  <2> QED BY <2>2, <2>4, <2>5, <2>6 DEF EventsInv
<1> QED BY <1>1, <1>2

LEMMA PrintPromptKeepsEvents ==
  ASSUME TerminalInv, ShellInv, EventsInv, NEW output \in Outputs, PrintPrompt(output)
  PROVE  ShellInv' /\ EventsInv'
<1>1. /\ shell.at \in {"start", "command"}
      /\ shell' = [at |-> IF shell.at = "start" THEN "obtainStreamListener" ELSE "readStream",
                   line |-> <<>>, size |-> InitialSize]
      /\ UNCHANGED <<queued, port, full, hits, keyboard, input, typed, missed, lines>>
  BY DEF PrintPrompt
<1>2. /\ shell'.line = <<>> /\ shell'.size = InitialSize
      /\ shell.at = "start" => shell'.at = "obtainStreamListener"
      /\ shell.at = "command" => shell'.at = "readStream"
  BY <1>1
<1>3. shell.line = <<>>
  BY <1>1 DEF ShellInv
<1>4. (Listens <=> shell.at = "command") /\ (Listens' <=> Listens)
  BY <1>1, <1>2 DEF Listens
<1>5. Len(shell'.line) < shell'.size
  BY <1>2, TerminalAssumption
<1> QED BY <1>1, <1>2, <1>3, <1>4, <1>5, ShellStepKeepsEvents DEF ShellInv

LEMMA ObtainListenerKeepsEvents ==
  ASSUME TerminalInv, ShellInv, EventsInv, ObtainStreamListener
  PROVE  ShellInv' /\ EventsInv'
<1>1. /\ shell.at = "obtainStreamListener" /\ shell' = [shell EXCEPT !.at = "readStream"]
      /\ UNCHANGED <<queued, port, full, hits, keyboard, input, typed, missed, lines>>
  BY DEF ObtainStreamListener
<1>2. shell'.line = shell.line /\ shell'.at = "readStream" /\ shell'.size = shell.size
  BY <1>1 DEF TerminalInv, Shells
<1>3. ~Listens /\ Listens'
  BY <1>1, <1>2 DEF Listens
<1> QED BY <1>1, <1>2, <1>3, ShellStepKeepsEvents DEF ShellInv

LEMMA ReadCharKeepsEvents ==
  ASSUME TerminalInv, ShellInv, EventsInv, ReadChar
  PROVE  ShellInv' /\ EventsInv'
<1> DEFINE c == Head(input)
           line == shell.line
           l == AfterChar(line, c)
<1>1. /\ shell.at = "readStream" /\ input # <<>> /\ input' = Tail(input)
      /\ UNCHANGED <<queued, port, full, hits, keyboard, typed, missed>>
      /\ c = Newline => /\ lines' = Append(lines, line)
                        /\ shell' = [shell EXCEPT !.at = "command", !.line = <<>>]
      /\ c # Newline => /\ lines' = lines
                        /\ shell' = [shell EXCEPT !.line = l, !.size = SizeFor(Len(l), shell.size)]
  BY DEF ReadChar
<1>2. /\ shell \in Shells /\ line \in Seq(Characters) /\ shell.size \in Nat
      /\ c \in Characters /\ input \in Seq(Characters) /\ Tail(input) \in Seq(Characters)
      /\ Len(line) < shell.size /\ lines \in Seq(Seq(Characters))
  BY <1>1 DEF TerminalInv, ShellInv, Shells
<1> HIDE DEF c, line
<1>3. c # Newline => l \in Seq(Characters) /\ Len(l) \in Nat /\ Len(l) <= Len(line) + 1
  <2>1. CASE c # Backspace
    <3>1. l = Append(line, c)
      BY <2>1 DEF AfterChar
    <3> QED BY <1>2, <3>1
  <2>2. CASE c = Backspace
    <3>1. CASE line = <<>>
      <4>1. l = <<>>
        BY <2>2, <3>1 DEF AfterChar
      <4> QED BY <1>2, <4>1
    <3>2. CASE line # <<>>
      <4>1. l = Front(line)
        BY <2>2, <3>2 DEF AfterChar
      <4> QED BY <1>2, <3>2, <4>1 DEF Front
    <3> QED BY <3>1, <3>2
  <2> QED BY <2>1, <2>2
<1> HIDE DEF l
<1>4. /\ c = Newline => /\ shell'.at = "command" /\ shell'.line = <<>>
                        /\ shell'.size = shell.size
      /\ c # Newline => /\ shell'.at = "readStream" /\ shell'.line = l
                        /\ shell'.size = SizeFor(Len(l), shell.size)
  BY <1>1, <1>2 DEF Shells
<1>5. Listens /\ Listens'
  BY <1>1, <1>4 DEF Listens
<1>6. lines' \in Seq(Seq(Characters))
  <2>1. Append(lines, line) \in Seq(Seq(Characters))
    BY <1>2
  <2> QED BY <1>1, <1>2, <2>1
<1>7. Len(shell'.line) < shell'.size
  <2>1. CASE c = Newline
    <3>1. Len(<<>>) = 0 /\ Len(line) \in Nat
      BY <1>2
    <3> QED BY <1>2, <1>4, <2>1, <3>1
  <2>2. CASE c # Newline
    <3> DEFINE m == Len(l)
               z == shell.size
               x == Len(line)
    <3>1. m \in Nat /\ x \in Nat /\ m <= x + 1 /\ x < z /\ z \in Nat
      BY <1>2, <1>3, <2>2
    <3> HIDE DEF m, z, x
    <3>2. m < SizeFor(m, z)
      BY <3>1 DEF SizeFor
    <3> QED BY <1>4, <2>2, <3>2 DEF m, z
  <2> QED BY <2>1, <2>2
<1>8. ShellInv'
  BY <1>1, <1>4, <1>5, <1>6, <1>7 DEF ShellInv
<1>9. EventsInv'
  <2> SUFFICES ASSUME ~keyboard.ahead PROVE EventsInv'
    BY <1>1 DEF EventsInv
  <2>1. InterruptsInv
    BY DEF EventsInv
  <2>2. PICK h \in Nat, n \in Nat : Reading(h) /\ Writing(h) /\ Getting(Done(h), n)
    BY DEF EventsInv
  <2>3. Unread(queued)' = Unread(queued)
    BY <1>1 DEF Unread
  <2>4. Reading(h)' /\ Writing(h)' /\ Done(h)' = Done(h) /\ InterruptsInv'
    BY <1>1, <2>1, <2>2, <2>3 DEF Reading, Writing, Done, InterruptsInv
  <2> DEFINE e == Done(h)
  <2>5. e \in Nat
    BY <2>2 DEF Writing, Done
  <2> HIDE DEF e
  <2>6. /\ missed \in Nat /\ n \in missed .. e /\ missed <= n /\ Carried(typed, n, e, input)
        /\ Append(lines, line) = LinesMeant(typed, missed, n)
    BY <2>2, <2>5 DEF Getting, ShellInv, e, line
  <2>7. PICK i \in n + 1 .. e :
           /\ IsCharacter(typed, i) /\ c = Meant(typed, i)
           /\ \A j \in n + 1 .. i - 1 : ~IsCharacter(typed, j)
           /\ Carried(typed, i, e, Tail(input))
    BY <1>1, <1>2, <2>5, <2>6, CarriedRead DEF c
  <2>8. i \in Nat /\ i - 1 \in Nat /\ i > missed /\ n <= i - 1 /\ i \in missed .. e
    BY <2>5, <2>6
  <2>9. LinesMeant(typed, missed, i) = Edited(Append(lines, line), c)
    <3>1. LinesMeant(typed, missed, i - 1) = LinesMeant(typed, missed, n)
      BY <2>6, <2>7, <2>8, LinesSkip
    <3>2. LinesMeant(typed, missed, i) = Then(typed, i, LinesMeant(typed, missed, i - 1))
      BY <2>6, <2>8, LinesMeantStep
    <3> QED BY <2>6, <2>7, <3>1, <3>2 DEF Then
  <2>10. Append(lines', shell'.line) = LinesMeant(typed, missed, i)
    <3>1. /\ c = Newline => Edited(Append(lines, line), c) = Append(Append(lines, line), <<>>)
          /\ c # Newline => Edited(Append(lines, line), c) = Append(lines, l)
      BY <1>2, EditedLines DEF l
    <3>2. CASE c = Newline
      BY <1>1, <1>4, <2>9, <3>1, <3>2
    <3>3. CASE c # Newline
      BY <1>1, <1>4, <2>9, <3>1, <3>3
    <3> QED BY <3>2, <3>3
  <2>11. Getting(Done(h), i)'
    BY <1>1, <1>5, <2>4, <2>7, <2>8, <2>10 DEF Getting, e
  <2> QED BY <2>2, <2>4, <2>8, <2>11 DEF EventsInv
<1> QED BY <1>8, <1>9

LEMMA InitEvents ==
  ASSUME TerminalInit
  PROVE  ShellInv /\ EventsInv
<1>1. /\ queued = <<>> /\ port = [key |-> "enter", up |-> TRUE] /\ full = FALSE /\ hits = 0
      /\ keyboard = [at |-> "irqListen", shift |-> FALSE, capslock |-> FALSE, leds |-> FALSE,
                     byte |-> Nul, ahead |-> FALSE]
      /\ input = <<>>
      /\ shell = [at |-> "start", line |-> <<>>, size |-> InitialSize]
      /\ typed = <<>> /\ missed = 0 /\ lines = <<>>
  BY DEF TerminalInit
<1>2. ~Listens
  BY <1>1 DEF Listens
<1>3. ShellInv
  <2>1. Len(<<>>) = 0 /\ InitialSize \in Nat \ {0}
    BY TerminalAssumption
  <2> QED BY <1>1, <2>1 DEF ShellInv
<1>4. InterruptsInv
  BY <1>1 DEF InterruptsInv
<1>5. Reading(0) /\ Writing(0) /\ Done(0) = 0
  <2>1. Unread(queued) = <<>>
    BY <1>1 DEF Unread
  <2>2. Follow(<<>>, 0, <<>>)
    <3>1. 0 + 1 .. Len(<<>>) = {} /\ DOMAIN <<>> = {}
      OBVIOUS
    <3>2. Finds(<<>>, <<>>, 0, <<>>)
      BY <3>1 DEF Finds
    <3> QED BY <3>2, FollowFinds
  <2>3. 0 \in 0 .. Len(<<>>)
    OBVIOUS
  <2> QED BY <1>1, <2>1, <2>2, <2>3, NothingPressed DEF Reading, Writing, Done
<1>6. Getting(0, 0)
  <2>1. LinesMeant(typed, 0, 0) = <<(<<>>)>> /\ Carried(typed, 0, 0, <<>>)
    BY LinesMeantStep, CarriedNone
  <2>2. Append(<<>>, <<>>) = <<(<<>>)>> /\ 0 \in 0 .. 0
    OBVIOUS
  <2> QED BY <1>1, <2>1, <2>2 DEF Getting
<1> QED BY <1>3, <1>4, <1>5, <1>6 DEF EventsInv

LEMMA NextKeepsEvents ==
  ASSUME TerminalInv, ShellInv, EventsInv, [TerminalNext]_(terminalVars)
  PROVE  ShellInv' /\ EventsInv'
<1>1. CASE UNCHANGED terminalVars
  <2>1. ShellInv'
    BY <1>1 DEF terminalVars, ShellInv, Listens
  <2>2. EventsInv'
    BY <1>1, ShellStepKeepsEvents DEF terminalVars, Listens
  <2> QED BY <2>1, <2>2
<1>2. CASE TerminalNext
  BY <1>2, TypeKeepsEvents, InterruptKeepsEvents, IrqListenKeepsEvents,
     ReadScancodeKeepsEvents, WriteKeyKeepsEvents, UpdateLEDsKeepsEvents,
     PrintPromptKeepsEvents, ObtainListenerKeepsEvents, ReadCharKeepsEvents DEF TerminalNext
<1> QED BY <1>1, <1>2

\* Whatever is typed, and however the interrupts, the service and the shell
\* interleave, the lines are those that the events mean, in buffers that have room.
THEOREM TerminalReadsLines == TerminalSpec => []LinesAreTyped
<1> DEFINE Inv == TerminalInv /\ ShellInv /\ EventsInv
<1>1. TerminalInit => Inv
  BY InitScreen, InitEvents
<1>2. Inv /\ [TerminalNext]_(terminalVars) => Inv'
  BY NextKeepsScreen, NextKeepsEvents
<1>3. Inv => LinesAreTyped
  <2> SUFFICES ASSUME Inv, ~keyboard.ahead
               PROVE  \E n \in missed .. Len(typed) :
                        /\ Append(lines, shell.line) = LinesMeant(typed, missed, n)
                        /\ AllIsRead => n = Len(typed)
    BY DEF LinesAreTyped, ShellInv
  <2>1. PICK h \in Nat, n \in Nat : Reading(h) /\ Writing(h) /\ Getting(Done(h), n)
    BY DEF EventsInv
  <2>2. typed \in Seq(Events) /\ missed \in Nat /\ Len(typed) \in Nat /\ h <= Len(typed)
    BY <2>1 DEF ShellInv, Reading
  <2>3. /\ n \in missed .. Done(h) /\ Append(lines, shell.line) = LinesMeant(typed, missed, n)
        /\ Carried(typed, n, Done(h), input)
    BY <2>1 DEF Getting
  <2>4. Done(h) \in Nat /\ Done(h) <= h
    BY <2>1 DEF Done, Writing
  <2>5. CASE AllIsRead
    <3>1. Done(h) = h /\ h = Len(typed)
      <4>1. Follow(typed, h, <<>>)
        BY <2>1, <2>5 DEF Reading, AllIsRead, Unread
      <4> QED BY <2>2, <2>5, <4>1, FollowEmpty DEF Done, AllIsRead
    <3>2. \A i \in n + 1 .. h : ~IsCharacter(typed, i)
      BY <2>3, <2>5, <3>1, CarriedNone DEF AllIsRead
    <3>3. missed <= n /\ n <= h /\ h \in missed .. Len(typed)
      BY <2>2, <2>3, <3>1
    <3>4. LinesMeant(typed, missed, h) = LinesMeant(typed, missed, n)
      BY <2>2, <3>2, <3>3, LinesSkip
    <3> QED BY <2>3, <3>1, <3>3, <3>4
  <2>6. CASE ~AllIsRead
    <3>1. n \in missed .. Len(typed)
      BY <2>2, <2>3, <2>4
    <3> QED BY <2>3, <2>6, <3>1
  <2> QED BY <2>5, <2>6
<1> QED BY <1>1, <1>2, <1>3, PTL DEF TerminalSpec

-----------------------------------------------------------------------------
(* Heaps.                                                                  *)


Entries == [start : First .. End, size : 0 .. End - First, isHole : BOOLEAN]
Arena == First .. End - 1

Addresses(e) == {a \in Nat : Holds(e, a)}
Ran(q) == {q[i] : i \in DOMAIN q}

\* Each address of X is in one entry of q, and no other address is in any.
Tiles(q, X) ==
  /\ \A i \in DOMAIN q : Addresses(q[i]) \subseteq X
  /\ \A a \in X : \E i \in DOMAIN q : Holds(q[i], a)
  /\ \A a \in X : \A i, j \in DOMAIN q : Holds(q[i], a) /\ Holds(q[j], a) => i = j

\* Entries of 0 bytes are inserted before all others and never change.
EmptiesFirst(q) ==
  \A i, j \in DOMAIN q : i < j /\ q[j].size = 0 => q[i].size = 0

HolesHaveSize(q) == \A i \in DOMAIN q : q[i].isHole => q[i].size > 0

Good(q, X) ==
  /\ q \in Seq(Entries) /\ X \subseteq Arena
  /\ Tiles(q, X)
  /\ EmptiesFirst(q)
  /\ HolesHaveSize(q)

\* Two holes touch only with an empty allocation between them.
Apart(R) ==
  \A x, y \in R : x.isHole /\ y.isHole /\ EndOf(x) = y.start =>
    \E z \in R : IsEmpty(z) /\ z.start = y.start

\* Inductive invariant.
HeapInv ==
  /\ Good(index, Arena)
  /\ ~emptied => Apart(Ran(index))
  /\ Len(index) <= IndexSize
  /\ heapPanic \in {"no", "no hole", "index full", "index out of range"}
  /\ emptied \in BOOLEAN
  /\ heapPanic = "index out of range" => emptied

-----------------------------------------------------------------------------
(* Entries.                                                                *)

LEMMA ConstantsAreNaturals ==
  /\ First \in Nat /\ End \in Nat /\ First < End /\ PageSize \in Nat \ {0}
  /\ IndexSize \in Nat /\ IndexSize > 0 /\ Sizes \subseteq Nat
BY HeapAssumption

LEMMA EntryIs ==
  ASSUME NEW e \in Entries
  PROVE  /\ e.start \in Nat /\ First <= e.start /\ e.start <= End
         /\ e.size \in Nat /\ e.size <= End - First
         /\ e.isHole \in BOOLEAN
         /\ EndOf(e) = e.start + e.size /\ EndOf(e) \in Nat
BY ConstantsAreNaturals DEF Entries, EndOf

\* Who has an address, and who has none.
LEMMA AddressesOf ==
  ASSUME NEW e \in Entries
  PROVE  /\ e.size = 0 => Addresses(e) = {}
         /\ e.size > 0 => Holds(e, e.start) /\ Holds(e, EndOf(e) - 1)
         /\ \A a \in Nat : a \in Addresses(e) <=> e.start <= a /\ a < e.start + e.size
BY EntryIs DEF Addresses, Holds

LEMMA FieldsOf ==
  ASSUME NEW s, NEW n, NEW h
  PROVE  /\ Entry(s, n, h).start = s /\ Entry(s, n, h).size = n
         /\ Entry(s, n, h).isHole = h
BY DEF Entry

-----------------------------------------------------------------------------
(* Taking entries out of the index and putting them in.                    *)

LEMMA OmitsTiles ==
  ASSUME NEW u \in Seq(Entries), NEW v \in Seq(Entries), NEW p, Omits(u, p, v),
         NEW X, X \subseteq Nat, Tiles(u, X)
  PROVE  Tiles(v, X \ Addresses(u[p]))
<1>1. PICK g \in [DOMAIN v -> DOMAIN u] :
        /\ \A i \in DOMAIN v : v[i] = u[g[i]] /\ g[i] # p
        /\ \A i, j \in DOMAIN v : i < j => g[i] < g[j]
        /\ \A k \in DOMAIN u : k # p => \E i \in DOMAIN v : g[i] = k
  BY DEF Omits
<1>2. p \in DOMAIN u
  BY DEF Omits
<1>3. ASSUME NEW i \in DOMAIN v PROVE Addresses(v[i]) \subseteq X \ Addresses(u[p])
  <2>1. g[i] \in DOMAIN u /\ g[i] # p /\ v[i] = u[g[i]]
    BY <1>1
  <2> QED BY <1>2, <2>1 DEF Tiles, Addresses
<1>4. ASSUME NEW a \in X \ Addresses(u[p]) PROVE \E i \in DOMAIN v : Holds(v[i], a)
  <2>1. PICK k \in DOMAIN u : Holds(u[k], a)
    BY DEF Tiles
  <2>2. k # p
    BY <2>1 DEF Addresses
  <2> QED BY <1>1, <2>1, <2>2
<1>5. ASSUME NEW a \in X \ Addresses(u[p]), NEW i \in DOMAIN v, NEW j \in DOMAIN v,
             Holds(v[i], a), Holds(v[j], a)
      PROVE  i = j
  <2>1. g[i] = g[j]
    <3>1. g[i] \in DOMAIN u /\ g[j] \in DOMAIN u
      BY <1>1
    <3> QED BY <1>1, <1>5, <3>1 DEF Tiles
  <2>2. i \in Nat /\ j \in Nat /\ g[i] \in Nat /\ g[j] \in Nat
    BY <1>1
  <2> QED BY <1>1, <2>1, <2>2
<1> QED BY <1>3, <1>4, <1>5 DEF Tiles

LEMMA JoinsTiles ==
  ASSUME NEW u \in Seq(Entries), NEW v \in Seq(Entries), NEW p, Omits(u, p, v),
         NEW X, X \subseteq Nat, Tiles(v, X), Addresses(u[p]) \cap X = {}
  PROVE  Tiles(u, X \cup Addresses(u[p]))
<1>1. PICK g \in [DOMAIN v -> DOMAIN u] :
        /\ \A i \in DOMAIN v : v[i] = u[g[i]] /\ g[i] # p
        /\ \A i, j \in DOMAIN v : i < j => g[i] < g[j]
        /\ \A k \in DOMAIN u : k # p => \E i \in DOMAIN v : g[i] = k
  BY DEF Omits
<1>2. p \in DOMAIN u
  BY DEF Omits
<1>3. ASSUME NEW k \in DOMAIN u, k # p
      PROVE  \E i \in DOMAIN v : g[i] = k /\ v[i] = u[k] /\ Addresses(u[k]) \subseteq X
  BY <1>1, <1>3 DEF Tiles
<1>4. \A k \in DOMAIN u : Addresses(u[k]) \subseteq X \cup Addresses(u[p])
  BY <1>3
<1>5. ASSUME NEW a \in X \cup Addresses(u[p]) PROVE \E k \in DOMAIN u : Holds(u[k], a)
  <2>1. CASE a \in X
    <3>1. PICK i \in DOMAIN v : Holds(v[i], a)
      BY <2>1 DEF Tiles
    <3>2. g[i] \in DOMAIN u /\ v[i] = u[g[i]]
      BY <1>1
    <3> QED BY <3>1, <3>2
  <2>2. CASE a \in Addresses(u[p])
    BY <1>2, <2>2 DEF Addresses
  <2> QED BY <2>1, <2>2
<1>6. ASSUME NEW a \in X \cup Addresses(u[p]), NEW k \in DOMAIN u, NEW l \in DOMAIN u,
             Holds(u[k], a), Holds(u[l], a)
      PROVE  k = l
  <2>1. a \in Addresses(u[k]) /\ a \in Addresses(u[l])
    BY <1>6 DEF Addresses
  <2>2. CASE a \in X
    <3>1. k # p /\ l # p
      BY <2>1, <2>2
    <3>2. PICK i \in DOMAIN v : g[i] = k /\ v[i] = u[k]
      BY <1>3, <3>1
    <3>3. PICK j \in DOMAIN v : g[j] = l /\ v[j] = u[l]
      BY <1>3, <3>1
    <3>4. i = j
      BY <1>6, <2>2, <3>2, <3>3 DEF Tiles
    <3> QED BY <3>2, <3>3, <3>4
  <2>3. CASE a \notin X
    <3>1. k = p
      BY <1>3, <2>1, <2>3
    <3>2. l = p
      BY <1>3, <2>1, <2>3
    <3> QED BY <3>1, <3>2
  <2> QED BY <2>2, <2>3
<1> QED BY <1>4, <1>5, <1>6 DEF Tiles

LEMMA OmitsRan ==
  ASSUME NEW u, NEW v, NEW p, Omits(u, p, v)
  PROVE  Ran(u) = Ran(v) \cup {u[p]} /\ p \in DOMAIN u
<1>1. PICK g \in [DOMAIN v -> DOMAIN u] :
        /\ \A i \in DOMAIN v : v[i] = u[g[i]] /\ g[i] # p
        /\ \A k \in DOMAIN u : k # p => \E i \in DOMAIN v : g[i] = k
  BY DEF Omits
<1>2. p \in DOMAIN u
  BY DEF Omits
<1>3. \A k \in DOMAIN u : k = p \/ \E i \in DOMAIN v : v[i] = u[k]
  BY <1>1
<1>4. \A i \in DOMAIN v : \E k \in DOMAIN u : v[i] = u[k]
  BY <1>1
<1> QED BY <1>2, <1>3, <1>4 DEF Ran

\* An index without one of its entries.
LEMMA OmitsGood ==
  ASSUME NEW u, NEW X, Good(u, X), NEW p, NEW v \in Seq(Entries), Omits(u, p, v)
  PROVE  Good(v, X \ Addresses(u[p]))
<1>1. PICK g \in [DOMAIN v -> DOMAIN u] :
        /\ \A i \in DOMAIN v : v[i] = u[g[i]]
        /\ \A i, j \in DOMAIN v : i < j => g[i] < g[j]
  BY DEF Omits
<1>2. EmptiesFirst(v)
  BY <1>1 DEF Good, EmptiesFirst
<1>3. HolesHaveSize(v)
  BY <1>1 DEF Good, HolesHaveSize
<1>4. X \subseteq Nat
  BY ConstantsAreNaturals DEF Good, Arena
<1>5. Tiles(v, X \ Addresses(u[p]))
  BY <1>4, OmitsTiles DEF Good
<1> QED BY <1>2, <1>3, <1>5 DEF Good

LEMMA FirstIs ==
  ASSUME NEW n \in Nat, NEW I, I \subseteq 1 .. n
  PROVE  LET k == IF I # {} THEN Min(I) ELSE 0
         IN  \/ k = 0 /\ I = {}
             \/ k \in I /\ \A j \in I : k <= j
<1>1. CASE I # {}
  <2>1. \E m \in I : \A j \in I : m <= j
    <3>1. I \subseteq Nat
      OBVIOUS
    <3> QED BY <1>1, <3>1, LeastElement
  <2> QED BY <1>1, <2>1 DEF Min
<1>2. CASE I = {}
  BY <1>2
<1> QED BY <1>1, <1>2

LEMMA InsertIs ==
  ASSUME NEW q \in Seq(Entries), NEW e \in Entries
  PROVE  \E p \in 1 .. Len(q) + 1 :
           /\ Insert(q, e) \in Seq(Entries)
           /\ Insert(q, e)[p] = e
           /\ Omits(Insert(q, e), p, q)
           /\ \A i \in 1 .. p - 1 : Insert(q, e)[i] = q[i] /\ q[i].size < e.size
           /\ \A i \in p .. Len(q) : Insert(q, e)[i + 1] = q[i]
           /\ p <= Len(q) => ~(q[p].size < e.size)
<1> DEFINE I == {i \in 1 .. Len(q) : ~(q[i].size < e.size)}
           p == IF I # {} THEN Min(I) ELSE 0
<1>1. Insert(q, e) = IF p = 0 THEN Append(q, e) ELSE InsertAt(q, p, e)
  BY DEF Insert, SelectInSeq
<1>2. \/ p = 0 /\ I = {}
      \/ p \in I /\ \A j \in I : p <= j
  <2>1. Len(q) \in Nat /\ I \subseteq 1 .. Len(q)
    OBVIOUS
  <2> HIDE DEF I
  <2> QED BY <2>1, FirstIs
<1> HIDE DEF p
<1>3. CASE p = 0
  <2>1. Insert(q, e) = Append(q, e) /\ I = {}
    BY <1>1, <1>2, <1>3
  <2>2. \A i \in 1 .. Len(q) : q[i].size < e.size
    BY <2>1
  <2>3. /\ Append(q, e) \in Seq(Entries)
        /\ Append(q, e)[Len(q) + 1] = e
        /\ \A i \in 1 .. Len(q) : Append(q, e)[i] = q[i]
        /\ Omits(Append(q, e), Len(q) + 1, q)
    BY AppendOmits
  <2>4. Len(q) \in Nat
    OBVIOUS
  <2> WITNESS Len(q) + 1 \in 1 .. Len(q) + 1
  <2> QED BY <2>1, <2>2, <2>3, <2>4
<1>4. CASE p # 0
  <2>1. /\ Insert(q, e) = InsertAt(q, p, e)
        /\ p \in I /\ \A j \in I : p <= j
    BY <1>1, <1>2, <1>4
  <2>2. p \in 1 .. Len(q) /\ ~(q[p].size < e.size) /\ Len(q) \in Nat
    BY <2>1
  <2>3. \A i \in 1 .. p - 1 : q[i].size < e.size
    BY <2>1, <2>2
  <2>4. /\ InsertAt(q, p, e) \in Seq(Entries)
        /\ InsertAt(q, p, e)[p] = e
        /\ Omits(InsertAt(q, p, e), p, q)
        /\ \A i \in 1 .. p - 1 : InsertAt(q, p, e)[i] = q[i]
        /\ \A i \in p .. Len(q) : InsertAt(q, p, e)[i + 1] = q[i]
    BY <2>2, InsertAtOmits
  <2>5. p \in 1 .. Len(q) + 1
    BY <2>2
  <2> QED BY <2>1, <2>2, <2>3, <2>4, <2>5
<1> QED BY <1>3, <1>4

\* An entry for addresses that nobody has.
LEMMA InsertGood ==
  ASSUME NEW q, NEW X, Good(q, X), NEW e \in Entries, Addresses(e) \cap X = {},
         Addresses(e) \subseteq Arena, e.isHole => e.size > 0
  PROVE  /\ Good(Insert(q, e), X \cup Addresses(e))
         /\ Ran(Insert(q, e)) = Ran(q) \cup {e}
<1> DEFINE u == Insert(q, e)
           n == Len(q)
<1>1. q \in Seq(Entries) /\ X \subseteq Arena /\ X \subseteq Nat /\ Arena \subseteq Nat
  BY ConstantsAreNaturals DEF Good, Arena
<1>2. PICK p \in 1 .. n + 1 :
        /\ u \in Seq(Entries)
        /\ u[p] = e
        /\ Omits(u, p, q)
        /\ \A i \in 1 .. p - 1 : u[i] = q[i] /\ q[i].size < e.size
        /\ \A i \in p .. n : u[i + 1] = q[i]
        /\ p <= n => ~(q[p].size < e.size)
  BY <1>1, InsertIs
<1>3. n \in Nat /\ DOMAIN q = 1 .. n /\ Len(u) = n + 1 /\ DOMAIN u = 1 .. n + 1
  BY <1>1, <1>2 DEF Omits
<1>4. \A i \in 1 .. n : q[i] \in Entries /\ q[i].size \in Nat
  BY <1>1, <1>3, EntryIs
<1>5. e.size \in Nat
  BY EntryIs
<1> HIDE DEF u, n
<1>6. EmptiesFirst(u)
  <2> SUFFICES ASSUME NEW i \in 1 .. n + 1, NEW j \in 1 .. n + 1, i < j, u[j].size = 0
               PROVE  u[i].size = 0
    BY <1>3 DEF EmptiesFirst
  <2>1. \A k, l \in 1 .. n : k < l /\ q[l].size = 0 => q[k].size = 0
    BY <1>3 DEF Good, EmptiesFirst
  <2>2. CASE e.size = 0
    <3>1. p = 1
      <4>1. ASSUME p > 1 PROVE FALSE
        <5>1. 1 \in 1 .. p - 1 /\ 1 \in 1 .. n
          BY <1>3, <4>1
        <5> QED BY <1>2, <1>4, <2>2, <5>1
      <4> QED BY <4>1
    <3>2. j - 1 \in 1 .. n /\ u[j] = q[j - 1]
      <4>1. j - 1 \in p .. n /\ (j - 1) + 1 = j
        BY <3>1, <1>3
      <4> QED BY <1>2, <3>1, <4>1
    <3>3. CASE i = 1
      BY <1>2, <2>2, <3>1, <3>3
    <3>4. CASE i # 1
      <4>1. i - 1 \in p .. n /\ (i - 1) + 1 = i /\ i - 1 < j - 1 /\ i - 1 \in 1 .. n
        BY <3>1, <3>4, <1>3
      <4>2. u[i] = q[i - 1]
        BY <1>2, <4>1
      <4> QED BY <2>1, <3>2, <4>1, <4>2
    <3> QED BY <3>3, <3>4
  <2>3. CASE e.size > 0
    <3>1. \A k \in p .. n : q[k].size > 0
      <4> SUFFICES ASSUME NEW k \in p .. n, q[k].size = 0 PROVE FALSE
        BY <1>3, <1>4
      <4>1. p \in 1 .. n /\ k \in 1 .. n /\ p <= n /\ (p < k \/ p = k)
        BY <1>3
      <4>2. q[p].size = 0
        BY <2>1, <4>1
      <4> QED BY <1>2, <2>3, <4>1, <4>2
    <3>2. j < p
      <4>1. CASE j = p
        BY <1>2, <2>3, <4>1
      <4>2. CASE j > p
        <5>1. j - 1 \in p .. n /\ (j - 1) + 1 = j
          BY <1>3, <4>2
        <5>2. u[j] = q[j - 1]
          BY <1>2, <5>1
        <5> QED BY <3>1, <5>1, <5>2
      <4> QED BY <4>1, <4>2
    <3>3. i \in 1 .. p - 1 /\ j \in 1 .. p - 1 /\ i \in 1 .. n /\ j \in 1 .. n
      BY <1>3, <3>2
    <3>4. u[i] = q[i] /\ u[j] = q[j]
      BY <1>2, <3>3
    <3> QED BY <2>1, <3>3, <3>4
  <2> QED BY <1>5, <2>2, <2>3
<1>7. HolesHaveSize(u)
  <2>1. PICK g \in [DOMAIN q -> DOMAIN u] :
          /\ \A i \in DOMAIN q : q[i] = u[g[i]]
          /\ \A k \in DOMAIN u : k # p => \E i \in DOMAIN q : g[i] = k
    BY <1>2 DEF Omits
  <2>2. \A k \in DOMAIN u : k = p \/ \E i \in DOMAIN q : u[k] = q[i]
    BY <2>1
  <2> QED BY <1>2, <2>2 DEF Good, HolesHaveSize
<1>8. Tiles(u, X \cup Addresses(e))
  BY <1>1, <1>2, JoinsTiles DEF Good
<1>9. Ran(u) = Ran(q) \cup {e}
  BY <1>2, OmitsRan
<1> QED BY <1>1, <1>2, <1>6, <1>7, <1>8, <1>9 DEF Good, u

-----------------------------------------------------------------------------
(* Looking entries up, and merging them.                                   *)

LEMMA StartingAtIs ==
  ASSUME NEW q \in Seq(Entries), NEW a
  PROVE  \/ /\ StartingAt(q, a) = 0
            /\ \A i \in DOMAIN q : q[i].start # a
         \/ /\ StartingAt(q, a) \in DOMAIN q
            /\ q[StartingAt(q, a)].start = a
            /\ \A i \in DOMAIN q : q[i].start = a => StartingAt(q, a) <= i
<1> DEFINE I == {i \in 1 .. Len(q) : q[i].start = a}
<1>1. StartingAt(q, a) = IF I # {} THEN Min(I) ELSE 0
  BY DEF StartingAt, SelectInSeq
<1>2. Len(q) \in Nat /\ I \subseteq 1 .. Len(q) /\ DOMAIN q = 1 .. Len(q)
  OBVIOUS
<1>3. \A i \in DOMAIN q : q[i].start = a <=> i \in I
  BY <1>2
<1>4. \A i \in I : q[i].start = a
  OBVIOUS
<1> HIDE DEF I
<1>5. \/ StartingAt(q, a) = 0 /\ I = {}
      \/ StartingAt(q, a) \in I /\ \A j \in I : StartingAt(q, a) <= j
  BY <1>1, <1>2, FirstIs
<1> QED BY <1>2, <1>3, <1>4, <1>5

LEMMA EndingAtIs ==
  ASSUME NEW q \in Seq(Entries), NEW a
  PROVE  \/ /\ EndingAt(q, a) = 0
            /\ \A i \in DOMAIN q : EndOf(q[i]) # a
         \/ /\ EndingAt(q, a) \in DOMAIN q
            /\ EndOf(q[EndingAt(q, a)]) = a
<1> DEFINE I == {i \in 1 .. Len(q) : EndOf(q[i]) = a}
<1>1. EndingAt(q, a) = IF I # {} THEN Min(I) ELSE 0
  BY DEF EndingAt, SelectInSeq
<1>2. Len(q) \in Nat /\ I \subseteq 1 .. Len(q) /\ DOMAIN q = 1 .. Len(q)
  OBVIOUS
<1>3. \A i \in DOMAIN q : EndOf(q[i]) = a <=> i \in I
  BY <1>2
<1>4. \A i \in I : EndOf(q[i]) = a
  OBVIOUS
<1> HIDE DEF I
<1>5. \/ EndingAt(q, a) = 0 /\ I = {}
      \/ EndingAt(q, a) \in I /\ \A j \in I : EndingAt(q, a) <= j
  BY <1>1, <1>2, FirstIs
<1> QED BY <1>2, <1>3, <1>4, <1>5

\* An index that is good but for the entry at j, a hole without size perhaps.
Nearly(q, X, j) ==
  /\ q \in Seq(Entries) /\ X \subseteq Arena
  /\ Tiles(q, X)
  /\ EmptiesFirst(q)
  /\ \A i \in DOMAIN q \ {j} : q[i].isHole => q[i].size > 0

LEMMA GoodIsNearlyGood ==
  ASSUME NEW q, NEW X, Good(q, X), NEW j
  PROVE  Nearly(q, X, j)
BY DEF Good, Nearly, HolesHaveSize

\* A hole without size is dropped.
LEMMA DropGood ==
  ASSUME NEW q, NEW X, NEW j, Nearly(q, X, j), j \in DOMAIN q, q[j].size = 0,
         NEW v \in Seq(Entries), Omits(q, j, v)
  PROVE  Good(v, X)
<1>1. PICK g \in [DOMAIN v -> DOMAIN q] :
        /\ \A i \in DOMAIN v : v[i] = q[g[i]] /\ g[i] # j
        /\ \A i, k \in DOMAIN v : i < k => g[i] < g[k]
  BY DEF Omits
<1>2. EmptiesFirst(v)
  BY <1>1 DEF Nearly, EmptiesFirst
<1>3. HolesHaveSize(v)
  BY <1>1 DEF Nearly, HolesHaveSize
<1>4. X \subseteq Nat
  BY ConstantsAreNaturals DEF Nearly, Arena
<1>5. Tiles(v, X \ Addresses(q[j]))
  BY <1>4, OmitsTiles DEF Nearly
<1>6. Addresses(q[j]) = {}
  <2>1. q[j] \in Entries
    BY DEF Nearly
  <2> QED BY <2>1, AddressesOf
<1>7. Tiles(v, X)
  <2>1. X \ Addresses(q[j]) = X
    BY <1>6
  <2> QED BY <1>5, <2>1
<1> QED BY <1>2, <1>3, <1>7 DEF Good, Nearly

\* Two entries one behind the other.
Both(d, f) == [start |-> d.start, size |-> d.size + f.size, isHole |-> d.isHole]

LEMMA BothIs ==
  ASSUME NEW d \in Entries, NEW f \in Entries, EndOf(d) = f.start,
         Addresses(f) \subseteq Arena
  PROVE  /\ Both(d, f) \in Entries
         /\ EndOf(Both(d, f)) = EndOf(f)
         /\ Both(d, f).start = d.start /\ Both(d, f).isHole = d.isHole
         /\ Both(d, f).size = d.size + f.size
         /\ \A a \in Nat : Holds(Both(d, f), a) <=> Holds(d, a) \/ Holds(f, a)
<1>1. /\ d.start \in First .. End /\ d.size \in 0 .. End - First /\ d.isHole \in BOOLEAN
      /\ f.start \in First .. End /\ f.size \in 0 .. End - First
  BY DEF Entries
<1>2. f.start = d.start + d.size
  BY DEF EndOf
<1>3. First \in Nat /\ End \in Nat
  BY ConstantsAreNaturals
<1>4. f.start + f.size <= End
  <2>1. CASE f.size = 0
    BY <1>1, <1>3, <2>1
  <2>2. CASE f.size > 0
    <3>1. f.start + f.size - 1 \in Nat /\ f.start <= f.start + f.size - 1
          /\ f.start + f.size - 1 < f.start + f.size
      BY <1>1, <1>3, <2>2
    <3>2. f.start + f.size - 1 \in Addresses(f)
      BY <3>1, AddressesOf
    <3> QED BY <1>1, <1>3, <3>2 DEF Arena
  <2> QED BY <1>1, <1>3, <2>1, <2>2
<1>5. /\ Both(d, f).start = d.start /\ Both(d, f).isHole = d.isHole
      /\ Both(d, f).size = d.size + f.size
  BY DEF Both
<1>6. d.size + f.size \in 0 .. End - First
  BY <1>1, <1>2, <1>3, <1>4
<1>7. Both(d, f) \in Entries
  BY <1>1, <1>6 DEF Both, Entries
<1>8. \A a \in Nat : Holds(Both(d, f), a) <=> Holds(d, a) \/ Holds(f, a)
  BY <1>1, <1>2, <1>3, <1>5 DEF Holds, EndOf
<1>9. EndOf(Both(d, f)) = EndOf(f)
  BY <1>1, <1>2, <1>3, <1>5 DEF EndOf
<1> QED BY <1>5, <1>7, <1>8, <1>9

\* Where the entries are after a merge.
IsMerge(q, i, j, v, g) ==
  /\ g \in [DOMAIN v -> DOMAIN q]
  /\ \A x \in DOMAIN v : v[x] = IF g[x] = i THEN Both(q[i], q[j]) ELSE q[g[x]]
  /\ \A x \in DOMAIN v : g[x] # j
  /\ \A x, y \in DOMAIN v : x < y => g[x] < g[y]
  /\ \A k \in DOMAIN q : k # j => \E x \in DOMAIN v : g[x] = k

LEMMA MergedIs ==
  ASSUME NEW q \in Seq(Entries), NEW i \in DOMAIN q, NEW j \in DOMAIN q, i # j,
         Both(q[i], q[j]) \in Entries
  PROVE  /\ Merged(q, i, j) \in Seq(Entries)
         /\ Len(q) = Len(Merged(q, i, j)) + 1
         /\ \E g : IsMerge(q, i, j, Merged(q, i, j), g)
<1> DEFINE r == [q EXCEPT ![i].size = @ + q[j].size]
           big == Both(q[i], q[j])
           v == Merged(q, i, j)
<1>1. \A x \in DOMAIN q : q[x] \in Entries
  OBVIOUS
<1>2. [q[i] EXCEPT !.size = @ + q[j].size] = big
  <2>1. q[i] = [start |-> q[i].start, size |-> q[i].size, isHole |-> q[i].isHole]
    BY <1>1 DEF Entries
  <2> QED BY <2>1 DEF Both
<1>3. /\ DOMAIN r = DOMAIN q
      /\ \A x \in DOMAIN q : r[x] = IF x = i THEN big ELSE q[x]
  BY <1>2
<1>4. v = RemoveAt(r, j)
  BY DEF Merged
<1>5. r = [q EXCEPT ![i] = big]
  BY <1>2
<1> HIDE DEF r, big, v
<1>6. r \in Seq(Entries) /\ Len(r) = Len(q)
  BY <1>5 DEF big
<1>7. j \in 1 .. Len(r)
  BY <1>6
<1>8. v \in Seq(Entries) /\ Omits(r, j, v)
  BY <1>4, <1>6, <1>7, RemoveAtOmits
<1>9. PICK g \in [DOMAIN v -> DOMAIN r] :
        /\ \A x \in DOMAIN v : v[x] = r[g[x]] /\ g[x] # j
        /\ \A x, y \in DOMAIN v : x < y => g[x] < g[y]
        /\ \A k \in DOMAIN r : k # j => \E x \in DOMAIN v : g[x] = k
  BY <1>8 DEF Omits
<1>10. IsMerge(q, i, j, v, g)
  <2>1. g \in [DOMAIN v -> DOMAIN q]
    BY <1>3, <1>9
  <2>2. \A x \in DOMAIN v : v[x] = IF g[x] = i THEN big ELSE q[g[x]]
    BY <1>3, <1>9, <2>1
  <2> QED BY <1>3, <1>9, <2>1, <2>2 DEF IsMerge, big
<1>11. Len(q) = Len(v) + 1
  BY <1>6, <1>8 DEF Omits
<1> QED BY <1>8, <1>10, <1>11 DEF v

LEMMA MergeTiles ==
  ASSUME NEW q \in Seq(Entries), NEW i \in DOMAIN q, NEW j \in DOMAIN q, i # j,
         NEW X, X \subseteq Nat, Tiles(q, X),
         NEW v \in Seq(Entries), NEW g, IsMerge(q, i, j, v, g),
         \A a \in Nat : Holds(Both(q[i], q[j]), a) <=> Holds(q[i], a) \/ Holds(q[j], a)
  PROVE  Tiles(v, X)
<1>1. ASSUME NEW x \in DOMAIN v, NEW a \in Nat
      PROVE  /\ g[x] \in DOMAIN q /\ g[x] # j
             /\ Holds(v[x], a) <=> Holds(q[g[x]], a) \/ (g[x] = i /\ Holds(q[j], a))
  <2>1. g[x] \in DOMAIN q /\ g[x] # j
    BY DEF IsMerge
  <2>2. CASE g[x] = i
    <3>1. v[x] = Both(q[i], q[j])
      BY <2>2 DEF IsMerge
    <3> QED BY <2>1, <2>2, <3>1
  <2>3. CASE g[x] # i
    <3>1. v[x] = q[g[x]]
      BY <2>3 DEF IsMerge
    <3> QED BY <2>1, <2>3, <3>1
  <2> QED BY <2>2, <2>3
<1>2. ASSUME NEW k \in DOMAIN q, k # j PROVE \E x \in DOMAIN v : g[x] = k
  BY <1>2 DEF IsMerge
<1>3. ASSUME NEW x \in DOMAIN v PROVE Addresses(v[x]) \subseteq X
  BY <1>1 DEF Tiles, Addresses
<1>4. ASSUME NEW a \in X PROVE \E x \in DOMAIN v : Holds(v[x], a)
  <2>1. PICK k \in DOMAIN q : Holds(q[k], a)
    BY DEF Tiles
  <2>2. CASE k = j
    <3>1. PICK x \in DOMAIN v : g[x] = i
      BY <1>2
    <3> QED BY <1>1, <2>1, <2>2, <3>1
  <2>3. CASE k # j
    <3>1. PICK x \in DOMAIN v : g[x] = k
      BY <1>2, <2>3
    <3> QED BY <1>1, <2>1, <3>1
  <2> QED BY <2>2, <2>3
<1>5. ASSUME NEW a \in X, NEW x \in DOMAIN v, NEW y \in DOMAIN v,
             Holds(v[x], a), Holds(v[y], a)
      PROVE  x = y
  <2>1. /\ g[x] \in DOMAIN q /\ g[x] # j
        /\ Holds(q[g[x]], a) \/ (g[x] = i /\ Holds(q[j], a))
    BY <1>1, <1>5
  <2>2. /\ g[y] \in DOMAIN q /\ g[y] # j
        /\ Holds(q[g[y]], a) \/ (g[y] = i /\ Holds(q[j], a))
    BY <1>1, <1>5
  <2>3. g[x] = g[y]
    BY <2>1, <2>2 DEF Tiles
  <2>4. x \in Nat /\ y \in Nat /\ g[x] \in Nat /\ g[y] \in Nat
    BY <2>1, <2>2
  <2>5. \A s, t \in DOMAIN v : s < t => g[s] < g[t]
    BY DEF IsMerge
  <2> QED BY <2>3, <2>4, <2>5
<1> QED BY <1>3, <1>4, <1>5 DEF Tiles

\* A merge with the entry behind.
LEMMA MergeGood ==
  ASSUME NEW q, NEW X, NEW i, NEW j, Nearly(q, X, j), i \in DOMAIN q, j \in DOMAIN q,
         i # j, EndOf(q[i]) = q[j].start, q[i].size > 0
  PROVE  /\ Good(Merged(q, i, j), X)
         /\ Len(q) = Len(Merged(q, i, j)) + 1
         /\ Ran(Merged(q, i, j)) = {q[x] : x \in DOMAIN q \ {i, j}} \cup {Both(q[i], q[j])}
         /\ \E g : IsMerge(q, i, j, Merged(q, i, j), g)
<1> DEFINE v == Merged(q, i, j)
           big == Both(q[i], q[j])
<1>1. /\ q \in Seq(Entries) /\ X \subseteq Arena /\ X \subseteq Nat /\ Tiles(q, X)
      /\ q[i] \in Entries /\ q[j] \in Entries
  BY ConstantsAreNaturals DEF Nearly, Arena
<1>2. Addresses(q[j]) \subseteq Arena
  BY <1>1 DEF Tiles
<1>3. /\ big \in Entries /\ big.isHole = q[i].isHole /\ big.size > 0
      /\ \A a \in Nat : Holds(big, a) <=> Holds(q[i], a) \/ Holds(q[j], a)
  <2>1. /\ big \in Entries /\ big.isHole = q[i].isHole /\ big.size = q[i].size + q[j].size
        /\ \A a \in Nat : Holds(big, a) <=> Holds(q[i], a) \/ Holds(q[j], a)
    BY <1>1, <1>2, BothIs
  <2>2. q[i].size \in Nat /\ q[j].size \in Nat
    BY <1>1, EntryIs
  <2> QED BY <2>1, <2>2
<1>4. /\ v \in Seq(Entries) /\ Len(q) = Len(v) + 1
      /\ \E g : IsMerge(q, i, j, v, g)
  BY <1>1, <1>3, MergedIs
<1>5. PICK g : IsMerge(q, i, j, v, g)
  BY <1>4
<1> HIDE DEF v
<1>6. Tiles(v, X)
  BY <1>1, <1>3, <1>4, <1>5, MergeTiles
<1>7. EmptiesFirst(v)
  <2> SUFFICES ASSUME NEW x \in DOMAIN v, NEW y \in DOMAIN v, x < y, v[y].size = 0
               PROVE  v[x].size = 0
    BY DEF EmptiesFirst
  <2>1. /\ g[x] \in DOMAIN q /\ g[y] \in DOMAIN q /\ g[x] < g[y]
        /\ v[x] = IF g[x] = i THEN big ELSE q[g[x]]
        /\ v[y] = IF g[y] = i THEN big ELSE q[g[y]]
    BY <1>5 DEF IsMerge
  <2> HIDE DEF big
  <2>2. g[y] # i /\ q[g[y]].size = 0
    BY <1>3, <2>1
  <2>3. \A k \in DOMAIN q : k < g[y] => q[k].size = 0
    BY <2>1, <2>2 DEF Nearly, EmptiesFirst
  <2>4. g[x] # i
    BY <2>1, <2>3
  <2> QED BY <2>1, <2>3, <2>4
<1>8. HolesHaveSize(v)
  <2> SUFFICES ASSUME NEW x \in DOMAIN v, v[x].isHole PROVE v[x].size > 0
    BY DEF HolesHaveSize
  <2>1. g[x] \in DOMAIN q \ {j} /\ v[x] = IF g[x] = i THEN big ELSE q[g[x]]
    BY <1>5 DEF IsMerge
  <2> HIDE DEF big
  <2>2. CASE g[x] = i
    BY <1>3, <2>1, <2>2
  <2>3. CASE g[x] # i
    BY <2>1, <2>3 DEF Nearly
  <2> QED BY <2>2, <2>3
<1>9. Ran(v) = {q[x] : x \in DOMAIN q \ {i, j}} \cup {big}
  <2> HIDE DEF big
  <2>1. ASSUME NEW x \in DOMAIN v
        PROVE  v[x] = big \/ \E k \in DOMAIN q \ {i, j} : v[x] = q[k]
    <3>1. g[x] \in DOMAIN q \ {j} /\ v[x] = IF g[x] = i THEN big ELSE q[g[x]]
      BY <1>5 DEF IsMerge, big
    <3> QED BY <3>1
  <2>2. ASSUME NEW k \in DOMAIN q \ {i, j} PROVE \E x \in DOMAIN v : v[x] = q[k]
    <3>1. PICK x \in DOMAIN v : g[x] = k
      BY <1>5 DEF IsMerge
    <3>2. v[x] = IF g[x] = i THEN big ELSE q[g[x]]
      BY <1>5 DEF IsMerge, big
    <3> QED BY <3>1, <3>2
  <2>3. \E x \in DOMAIN v : v[x] = big
    <3>1. PICK x \in DOMAIN v : g[x] = i
      BY <1>5 DEF IsMerge
    <3>2. v[x] = IF g[x] = i THEN big ELSE q[g[x]]
      BY <1>5 DEF IsMerge, big
    <3> QED BY <3>1, <3>2
  <2> QED BY <2>1, <2>2, <2>3 DEF Ran
<1>10. Good(v, X)
  BY <1>1, <1>4, <1>6, <1>7, <1>8 DEF Good
<1> QED BY <1>4, <1>9, <1>10 DEF v

\* The entry that free merges forwards with is the hole behind, whatever else has
\* its address: it has a size, and so has the entry before it.
LEMMA ForwardIs ==
  ASSUME NEW r, NEW X, Good(r, X), NEW k \in DOMAIN r,
         NEW e, e = StartingAt(r, EndOf(r[k])), IsHole(r, e)
  PROVE  /\ e \in DOMAIN r /\ r[e].isHole /\ r[e].start = EndOf(r[k])
         /\ r[e].size > 0 /\ r[k].size > 0 /\ e # k
<1>1. r \in Seq(Entries) /\ DOMAIN r \subseteq Nat
  BY DEF Good
<1>2. /\ e \in DOMAIN r /\ r[e].start = EndOf(r[k]) /\ r[e].isHole
      /\ \A x \in DOMAIN r : r[x].start = EndOf(r[k]) => e <= x
  BY <1>1, StartingAtIs DEF IsHole
<1>3. r[e].size > 0
  BY <1>2 DEF Good, HolesHaveSize
<1>4. r[k] \in Entries /\ r[k].size \in Nat /\ r[k].start \in Nat /\ EndOf(r[k]) = r[k].start + r[k].size
  BY <1>1, EntryIs
<1>5. ASSUME r[k].size = 0 PROVE FALSE
  <2>1. e <= k
    BY <1>2, <1>4, <1>5
  <2>2. e = k \/ e < k
    BY <1>1, <1>2, <2>1
  <2> QED BY <1>2, <1>3, <1>5, <2>2 DEF Good, EmptiesFirst
<1>6. e # k
  BY <1>2, <1>4, <1>5
<1> QED BY <1>2, <1>3, <1>4, <1>5, <1>6

-----------------------------------------------------------------------------
(* free.                                                                   *)

LEMMA SharedIsSame ==
  ASSUME NEW q, NEW X, Tiles(q, X), NEW i \in DOMAIN q, NEW j \in DOMAIN q,
         NEW a \in Nat, Holds(q[i], a), Holds(q[j], a)
  PROVE  i = j
BY DEF Tiles, Addresses

\* Two entries with sizes are in the index once each.
LEMMA RanWithout ==
  ASSUME NEW q \in Seq(Entries), NEW X, Tiles(q, X),
         NEW i \in DOMAIN q, NEW j \in DOMAIN q, q[i].size > 0, q[j].size > 0
  PROVE  {q[x] : x \in DOMAIN q \ {i, j}} = Ran(q) \ {q[i], q[j]}
<1>1. ASSUME NEW x \in DOMAIN q, NEW y \in DOMAIN q, q[y].size > 0, q[x] = q[y]
      PROVE  x = y
  <2>1. q[y] \in Entries /\ q[y].start \in Nat
    BY EntryIs
  <2>2. Holds(q[y], q[y].start)
    BY <1>1, <2>1, AddressesOf
  <2> QED BY <1>1, <2>1, <2>2, SharedIsSame
<1> QED BY <1>1 DEF Ran

\* The index with the entry at i made a hole.
Marked(i) == [index EXCEPT ![i].isHole = TRUE]

LEMMA MarkedIs ==
  ASSUME Good(index, Arena), NEW i \in DOMAIN index
  PROVE  /\ Marked(i) \in Seq(Entries) /\ Len(Marked(i)) = Len(index)
         /\ DOMAIN Marked(i) = DOMAIN index
         /\ \A x \in DOMAIN index : /\ Marked(i)[x].start = index[x].start
                                    /\ Marked(i)[x].size = index[x].size
                                    /\ x # i => Marked(i)[x] = index[x]
         /\ Marked(i)[i].isHole
         /\ Nearly(Marked(i), Arena, i)
         /\ index[i].size > 0 => Good(Marked(i), Arena)
<1> DEFINE q == Marked(i)
           d == [index[i] EXCEPT !.isHole = TRUE]
<1>1. index \in Seq(Entries) /\ \A x \in DOMAIN index : index[x] \in Entries
  BY DEF Good
<1>2. index[i] = [start |-> index[i].start, size |-> index[i].size, isHole |-> index[i].isHole]
  BY <1>1 DEF Entries
<1>3. d = [start |-> index[i].start, size |-> index[i].size, isHole |-> TRUE]
  <2>1. ASSUME NEW t
        PROVE  [index[i] EXCEPT !.isHole = t] =
               [start |-> index[i].start, size |-> index[i].size, isHole |-> t]
    BY <1>2
  <2> QED BY <2>1, Zenon
<1>4. d \in Entries /\ d.start = index[i].start /\ d.size = index[i].size /\ d.isHole
  BY <1>1, <1>3 DEF Entries
<1>5. q = [index EXCEPT ![i] = d]
  BY DEF Marked
<1> HIDE DEF d, q
<1>6. /\ q \in Seq(Entries) /\ Len(q) = Len(index) /\ DOMAIN q = DOMAIN index
      /\ \A x \in DOMAIN index : q[x] = IF x = i THEN d ELSE index[x]
  BY <1>1, <1>4, <1>5
<1>7. \A x \in DOMAIN index : /\ q[x].start = index[x].start /\ q[x].size = index[x].size
                              /\ x # i => q[x] = index[x]
  BY <1>4, <1>6
<1>8. \A x \in DOMAIN index : \A a : Holds(q[x], a) <=> Holds(index[x], a)
  BY <1>7 DEF Holds, EndOf
<1>9. Tiles(q, Arena)
  <2>1. \A x \in DOMAIN index : Addresses(q[x]) = Addresses(index[x])
    BY <1>8 DEF Addresses
  <2> QED BY <1>6, <1>8, <2>1 DEF Good, Tiles
<1>10. EmptiesFirst(q)
  BY <1>6, <1>7 DEF Good, EmptiesFirst
<1>11. Nearly(q, Arena, i)
  BY <1>6, <1>7, <1>9, <1>10 DEF Good, HolesHaveSize, Nearly
<1>12. index[i].size > 0 => Good(q, Arena)
  BY <1>6, <1>7, <1>9, <1>10 DEF Good, HolesHaveSize
<1> QED BY <1>4, <1>6, <1>7, <1>11, <1>12 DEF q

\* The steps of free, as Free has them.
Behind(i, a) == EndingAt(Marked(i), a)
Backed(i, a) ==
  IF IsHole(Marked(i), Behind(i, a)) THEN Merged(Marked(i), Behind(i, a), i) ELSE Marked(i)
Kept(i, a) ==
  IF IsHole(Marked(i), Behind(i, a)) THEN EndingAt(Backed(i, a), a + Marked(i)[i].size) ELSE i
Ahead(i, a) == StartingAt(Backed(i, a), EndOf(Backed(i, a)[Kept(i, a)]))

LEMMA FreeIs ==
  ASSUME NEW a, Free(a)
  PROVE  LET i == StartingAt(index, a) IN
         /\ heapPanic = "no" /\ i # 0
         /\ emptied' = (emptied \/ (index[i].size = 0 /\ ~index[i].isHole))
         /\ Kept(i, a) = 0 => heapPanic' = "index out of range" /\ index' = index
         /\ Kept(i, a) # 0 =>
              /\ heapPanic' = heapPanic
              /\ index' = IF IsHole(Backed(i, a), Ahead(i, a))
                          THEN Merged(Backed(i, a), Kept(i, a), Ahead(i, a))
                          ELSE Backed(i, a)
<1> DEFINE i == StartingAt(index, a)
<1>1. /\ heapPanic = "no"
      /\ i # 0
      /\ emptied' = (emptied \/ (index[i].size = 0 /\ ~index[i].isHole))
  BY Zenon DEF Free
<1>2. IF Kept(i, a) = 0 THEN heapPanic' = "index out of range" /\ index' = index
      ELSE /\ index' = IF IsHole(Backed(i, a), Ahead(i, a))
                       THEN Merged(Backed(i, a), Kept(i, a), Ahead(i, a))
                       ELSE Backed(i, a)
           /\ heapPanic' = heapPanic
  BY Zenon DEF Free, Panic, Behind, Backed, Kept, Ahead, Marked
<1> QED BY <1>1, <1>2, Zenon

\* An entry that free finds as the hole before the one it frees.
LEMMA BehindIs ==
  ASSUME Good(index, Arena), NEW i \in DOMAIN index, NEW a, index[i].start = a,
         IsHole(Marked(i), Behind(i, a)), Behind(i, a) # i
  PROVE  /\ Behind(i, a) \in DOMAIN index
         /\ EndOf(index[Behind(i, a)]) = a
         /\ index[Behind(i, a)].isHole /\ index[Behind(i, a)].size > 0
         /\ Marked(i)[Behind(i, a)] = index[Behind(i, a)]
<1> DEFINE b == Behind(i, a)
           q == Marked(i)
<1>1. /\ q \in Seq(Entries) /\ DOMAIN q = DOMAIN index
      /\ \A x \in DOMAIN index : x # i => q[x] = index[x]
  BY MarkedIs
<1>2. b \in DOMAIN q /\ EndOf(q[b]) = a /\ q[b].isHole
  BY <1>1, EndingAtIs DEF IsHole, Behind
<1>3. q[b] = index[b] /\ b \in DOMAIN index
  BY <1>1, <1>2
<1>4. index[b].size > 0
  BY <1>2, <1>3 DEF Good, HolesHaveSize
<1> QED BY <1>2, <1>3, <1>4

\* Merging an entry without size with itself drops it.
LEMMA MergedWithItself ==
  ASSUME NEW q, NEW X, NEW i, Nearly(q, X, i), i \in DOMAIN q, q[i].size = 0
  PROVE  Good(Merged(q, i, i), X) /\ Len(q) = Len(Merged(q, i, i)) + 1
<1> DEFINE v == Merged(q, i, i)
<1>1. q \in Seq(Entries) /\ i \in 1 .. Len(q) /\ q[i] \in Entries
  BY DEF Nearly
<1>2. [q[i] EXCEPT !.size = @ + q[i].size] = q[i]
  <2>1. q[i] = [start |-> q[i].start, size |-> q[i].size, isHole |-> q[i].isHole]
    BY <1>1 DEF Entries
  <2>2. q[i].size + q[i].size = q[i].size
    OBVIOUS
  <2> QED BY <2>1, <2>2
<1>3. [q EXCEPT ![i].size = @ + q[i].size] = q
  BY <1>1, <1>2
<1>4. v = RemoveAt(q, i)
  BY <1>3 DEF Merged
<1>5. v \in Seq(Entries) /\ Omits(q, i, v)
  BY <1>1, <1>4, RemoveAtOmits
<1>6. Good(v, X)
  BY <1>5, DropGood
<1>7. Len(q) = Len(v) + 1
  BY <1>5 DEF Omits
<1> QED BY <1>6, <1>7

\* The last step of free, once the index is good.
LEMMA ForwardGood ==
  ASSUME NEW r, NEW X, Good(r, X), NEW k \in DOMAIN r,
         NEW e, e = StartingAt(r, EndOf(r[k])), IsHole(r, e)
  PROVE  /\ Good(Merged(r, k, e), X) /\ Len(r) = Len(Merged(r, k, e)) + 1
         /\ e \in DOMAIN r /\ e # k /\ r[e].isHole /\ r[e].start = EndOf(r[k])
         /\ r[e].size > 0 /\ r[k].size > 0
         /\ Ran(Merged(r, k, e)) = (Ran(r) \ {r[k], r[e]}) \cup {Both(r[k], r[e])}
<1>1. /\ e \in DOMAIN r /\ r[e].isHole /\ r[e].start = EndOf(r[k])
      /\ r[e].size > 0 /\ r[k].size > 0 /\ e # k
  BY ForwardIs
<1>2. Nearly(r, X, e)
  BY GoodIsNearlyGood
<1>3. /\ Good(Merged(r, k, e), X)
      /\ Len(r) = Len(Merged(r, k, e)) + 1
      /\ Ran(Merged(r, k, e)) = {r[x] : x \in DOMAIN r \ {k, e}} \cup {Both(r[k], r[e])}
  BY <1>1, <1>2, MergeGood
<1>4. {r[x] : x \in DOMAIN r \ {k, e}} = Ran(r) \ {r[k], r[e]}
  <2>1. r \in Seq(Entries) /\ Tiles(r, X)
    BY DEF Good
  <2> QED BY <1>1, <2>1, RanWithout
<1> QED BY <1>1, <1>3, <1>4

\* What free does to an entry without size: it is dropped, or taken in by the hole
\* before it.
LEMMA EmptyFreed ==
  ASSUME Good(index, Arena), NEW a, StartingAt(index, a) # 0,
         index[StartingAt(index, a)].size = 0, Free(a)
  PROVE  /\ Good(index', Arena) /\ Len(index') <= Len(index)
         /\ heapPanic' \in {"no", "index out of range"} /\ emptied'
<1> DEFINE i == StartingAt(index, a)
           q == Marked(i)
           b == Behind(i, a)
           r == Backed(i, a)
           k == Kept(i, a)
           e == Ahead(i, a)
<1>1. /\ i \in DOMAIN index /\ index[i].start = a /\ index[i].size = 0
      /\ \A x \in DOMAIN index : index[x].start = a => i <= x
      /\ index \in Seq(Entries) /\ Len(index) \in Nat
  <2>1. index \in Seq(Entries)
    BY DEF Good
  <2> QED BY <2>1, StartingAtIs
<1>2. ~index[i].isHole
  BY <1>1 DEF Good, HolesHaveSize
<1>3. /\ heapPanic = "no"
      /\ emptied' = (emptied \/ (index[i].size = 0 /\ ~index[i].isHole))
      /\ k = 0 => heapPanic' = "index out of range" /\ index' = index
      /\ k # 0 => /\ heapPanic' = heapPanic
                  /\ index' = IF IsHole(r, e) THEN Merged(r, k, e) ELSE r
  BY FreeIs
<1>4. /\ q \in Seq(Entries) /\ Len(q) = Len(index) /\ DOMAIN q = DOMAIN index
      /\ \A x \in DOMAIN index : q[x].start = index[x].start
      /\ q[i].start = a /\ q[i].size = 0 /\ q[i].isHole /\ Nearly(q, Arena, i)
  BY <1>1, MarkedIs
<1>5. emptied'
  BY <1>1, <1>2, <1>3
<1>6. CASE k = 0
  <2>1. heapPanic' = "index out of range" /\ index' = index
    BY <1>3, <1>6
  <2> HIDE DEF i
  <2>2. Good(index', Arena)
    BY <2>1
  <2>3. Len(index') <= Len(index)
    <3>1. Len(index') = Len(index) /\ Len(index) \in Nat
      BY <1>1, <2>1
    <3> HIDE <2>1
    <3> QED BY <3>1
  <2>4. heapPanic' \in {"no", "index out of range"}
    BY <2>1
  <2> QED BY <1>5, <2>2, <2>3, <2>4
<1>7. CASE k # 0 /\ IsHole(q, b)
  <2>1. r = Merged(q, b, i) /\ k = EndingAt(r, a + q[i].size)
    BY <1>7 DEF Backed, Kept
  <2>2. Good(r, Arena) /\ Len(q) = Len(r) + 1
    <3> HIDE DEF i, q, b, r, k, e
    <3>1. CASE b = i
      <4>1. Good(Merged(q, i, i), Arena) /\ Len(q) = Len(Merged(q, i, i)) + 1
        BY <1>1, <1>4, MergedWithItself, Zenon
      <4> QED BY <2>1, <3>1, <4>1
    <3>2. CASE b # i
      <4>1. /\ b \in DOMAIN index /\ EndOf(index[b]) = a /\ index[b].size > 0
            /\ q[b] = index[b]
        BY <1>1, <1>7, <3>2, BehindIs DEF q, b
      <4>2. Good(Merged(q, b, i), Arena) /\ Len(q) = Len(Merged(q, b, i)) + 1
        <5>1. /\ Nearly(q, Arena, i) /\ b \in DOMAIN q /\ i \in DOMAIN q /\ b # i
              /\ EndOf(q[b]) = q[i].start /\ q[b].size > 0
          BY <1>1, <1>4, <3>2, <4>1
        <5> QED BY <5>1, MergeGood
      <4> QED BY <2>1, <4>2
    <3> QED BY <3>1, <3>2
  <2>3. r \in Seq(Entries) /\ Len(r) \in Nat
    BY <2>2 DEF Good
  <2>4. k \in DOMAIN r
    BY <1>7, <2>1, <2>3, EndingAtIs
  <2>5. e = StartingAt(r, EndOf(r[k]))
    BY DEF Ahead
  <2> HIDE DEF i, q, b, r, k, e
  <2>6. CASE IsHole(r, e)
    <3>1. Good(Merged(r, k, e), Arena) /\ Len(r) = Len(Merged(r, k, e)) + 1
      BY <2>2, <2>4, <2>5, <2>6, ForwardGood
    <3>2. Len(Merged(r, k, e)) \in Nat
      BY <3>1 DEF Good
    <3> QED BY <1>3, <1>4, <1>5, <1>7, <2>2, <2>3, <2>6, <3>1, <3>2
  <2>7. CASE ~IsHole(r, e)
    BY <1>3, <1>4, <1>5, <1>7, <2>2, <2>3, <2>7
  <2> QED BY <2>6, <2>7
<1>8. CASE k # 0 /\ ~IsHole(q, b)
  <2>1. r = q /\ k = i
    BY <1>8 DEF Backed, Kept
  <2>2. EndOf(q[i]) = a
    <3>1. q[i] \in Entries /\ q[i].start \in Nat
      BY <1>1, <1>4, EntryIs
    <3> QED BY <1>4, <3>1 DEF EndOf
  <2>3. e = StartingAt(q, a)
    BY <2>1, <2>2 DEF Ahead
  <2>4. e = i
    <3>1. \/ e = 0 /\ \A x \in DOMAIN q : q[x].start # a
          \/ /\ e \in DOMAIN q /\ q[e].start = a
             /\ \A x \in DOMAIN q : q[x].start = a => e <= x
      BY <1>4, <2>3, StartingAtIs
    <3>2. e \in DOMAIN q /\ q[e].start = a /\ e <= i
      BY <1>1, <1>4, <3>1
    <3>3. i <= e /\ e \in Nat /\ i \in Nat
      BY <1>1, <1>4, <3>2
    <3> QED BY <3>2, <3>3
  <2>5. IsHole(r, e)
    BY <1>1, <1>4, <2>1, <2>4 DEF IsHole
  <2>6. index' = Merged(q, i, i) /\ heapPanic' = heapPanic
    BY <1>3, <1>8, <2>1, <2>4, <2>5
  <2>7. Good(Merged(q, i, i), Arena) /\ Len(q) = Len(Merged(q, i, i)) + 1
    BY <1>1, <1>4, MergedWithItself, Zenon
  <2>8. Len(Merged(q, i, i)) \in Nat
    BY <2>7 DEF Good
  <2> QED BY <1>3, <1>4, <1>5, <2>6, <2>7, <2>8
<1> QED BY <1>6, <1>7, <1>8

\* What lies where the entry d of R ends and begins is an empty allocation, if a
\* hole is there: R without G is what the other holes are.
NoHoleAt(R, G, N) ==
  /\ \A x \in R \ G : x.isHole /\ EndOf(x) = N.start =>
       \E z \in R : IsEmpty(z) /\ z.start = N.start
  /\ \A x \in R \ G : x.isHole /\ EndOf(N) = x.start =>
       \E z \in R : IsEmpty(z) /\ z.start = x.start

\* Entries G become the one hole N.
Grows(R, G, N, S) ==
  /\ G \subseteq R /\ \A x \in G : x.size > 0
  /\ N.isHole /\ N.size > 0
  /\ S = (R \ G) \cup {N}

\* The first half of free, for an entry with a size d: it is merged with the hole
\* that ends where it starts, or no hole does but for those with an empty
\* allocation between.
LEMMA BackedIs ==
  ASSUME Good(index, Arena), NEW a, NEW i, i = StartingAt(index, a), i # 0,
         index[i].size > 0
  PROVE  LET r == Backed(i, a)
             k == Kept(i, a)
             R == Ran(index)
             d == index[i]
         IN  /\ Good(r, Arena) /\ Len(r) <= Len(index)
             /\ k \in DOMAIN r /\ EndOf(r[k]) = EndOf(d)
             /\ \E h \in DOMAIN r, G \in SUBSET R :
                  /\ EndOf(r[h]) = EndOf(d)
                  /\ Grows(R, G, r[h], Ran(r))
                  /\ d \in G /\ \A x \in G : x = d \/ x.isHole
                  /\ Apart(R) => \A x \in R : x.isHole /\ EndOf(x) = r[h].start =>
                                   \E z \in R : IsEmpty(z) /\ z.start = r[h].start
<1> DEFINE q == Marked(i)
           b == Behind(i, a)
           r == Backed(i, a)
           k == Kept(i, a)
           R == Ran(index)
           d == index[i]
<1>1. /\ i \in DOMAIN index /\ d.start = a /\ d.size > 0 /\ d \in Entries
      /\ index \in Seq(Entries) /\ Len(index) \in Nat /\ Tiles(index, Arena)
  <2>1. index \in Seq(Entries) /\ Tiles(index, Arena)
    BY DEF Good
  <2>2. i \in DOMAIN index /\ index[i].start = a
    BY <2>1, StartingAtIs
  <2> QED BY <2>1, <2>2
<1>2. d.start \in Nat /\ d.size \in Nat /\ EndOf(d) = d.start + d.size
  BY <1>1, EntryIs
<1>3. /\ q \in Seq(Entries) /\ Len(q) = Len(index) /\ DOMAIN q = DOMAIN index
      /\ \A x \in DOMAIN index : /\ q[x].start = index[x].start
                                 /\ q[x].size = index[x].size
                                 /\ x # i => q[x] = index[x]
      /\ q[i].isHole /\ Good(q, Arena)
  BY <1>1, MarkedIs
<1>4. EndOf(q[i]) = EndOf(d) /\ EndOf(d) # a /\ EndOf(d) = a + q[i].size
      /\ q[i].start = a /\ q[i].size > 0
  BY <1>1, <1>2, <1>3 DEF EndOf
<1>5. \A x \in DOMAIN index : index[x] \in R
  BY DEF Ran
<1>6. Ran(q) = {index[x] : x \in DOMAIN index \ {i}} \cup {q[i]}
  BY <1>1, <1>3 DEF Ran
<1>7. {index[x] : x \in DOMAIN index \ {i}} = R \ {d}
  <2>1. {index[x] : x \in DOMAIN index \ {i, i}} = R \ {d, d}
    BY <1>1, RanWithout
  <2>2. DOMAIN index \ {i, i} = DOMAIN index \ {i}
    OBVIOUS
  <2> QED BY <2>1, <2>2
<1>8. CASE IsHole(q, b)
  <2>1. r = Merged(q, b, i) /\ k = EndingAt(r, a + q[i].size)
    BY <1>8 DEF Backed, Kept
  <2>2. b \in DOMAIN q /\ EndOf(q[b]) = a
    BY <1>3, <1>8, EndingAtIs DEF IsHole, Behind
  <2>3. b # i
    BY <1>4, <2>2
  <2>4. /\ b \in DOMAIN index /\ EndOf(index[b]) = a /\ index[b].isHole
        /\ index[b].size > 0 /\ q[b] = index[b]
    BY <1>1, <1>8, <2>3, BehindIs
  <2> HIDE DEF q, b, r, k, R, d
  <2>5. Nearly(q, Arena, i)
    BY <1>3, GoodIsNearlyGood
  <2>6. /\ Good(r, Arena) /\ Len(q) = Len(r) + 1
        /\ Ran(r) = {q[x] : x \in DOMAIN q \ {b, i}} \cup {Both(q[b], q[i])}
    <3>1. /\ b \in DOMAIN q /\ i \in DOMAIN q /\ b # i
          /\ EndOf(q[b]) = q[i].start /\ q[b].size > 0
      BY <1>1, <1>3, <1>4, <2>3, <2>4
    <3> QED BY <2>1, <2>5, <3>1, MergeGood
  <2>7. r \in Seq(Entries) /\ Len(r) \in Nat /\ Len(r) <= Len(index)
    BY <1>3, <2>6 DEF Good
  <2>8. Both(q[b], q[i]) \in Ran(r)
    BY <2>6
  <2>9. PICK h \in DOMAIN r : r[h] = Both(q[b], q[i])
    BY <2>8 DEF Ran
  <2>10. /\ r[h].start = index[b].start /\ r[h].isHole /\ r[h].size > 0
         /\ EndOf(r[h]) = EndOf(d)
    <3>1. index[b].size \in Nat /\ q[b] \in Entries /\ q[i] \in Entries
      BY <1>1, <1>3, <2>4, EntryIs
    <3>2. Addresses(q[i]) \subseteq Arena
      BY <1>1, <1>3 DEF Good, Tiles
    <3>3. EndOf(q[b]) = q[i].start
      BY <1>4, <2>2
    <3>4. /\ EndOf(Both(q[b], q[i])) = EndOf(q[i])
          /\ Both(q[b], q[i]).start = q[b].start /\ Both(q[b], q[i]).isHole = q[b].isHole
          /\ Both(q[b], q[i]).size = q[b].size + q[i].size
      BY <3>1, <3>2, <3>3, BothIs
    <3>5. q[i].size \in Nat /\ q[i].size > 0
      BY <1>4, <3>1, EntryIs
    <3> QED BY <1>4, <2>4, <2>9, <3>1, <3>4, <3>5
  <2>11. k \in DOMAIN r /\ EndOf(r[k]) = EndOf(d)
    <3>1. \/ k = 0 /\ \A x \in DOMAIN r : EndOf(r[x]) # a + q[i].size
          \/ k \in DOMAIN r /\ EndOf(r[k]) = a + q[i].size
      BY <2>1, <2>7, EndingAtIs
    <3> QED BY <1>4, <2>10, <3>1
  <2>12. {q[x] : x \in DOMAIN q \ {b, i}} = R \ {index[b], d}
    <3>1. {index[x] : x \in DOMAIN index \ {b, i}} = R \ {index[b], index[i]}
      BY <1>1, <2>4, RanWithout DEF R, d
    <3>2. {q[x] : x \in DOMAIN q \ {b, i}} = {index[x] : x \in DOMAIN index \ {b, i}}
      BY <1>3
    <3> QED BY <3>1, <3>2 DEF d
  <2>13. Grows(R, {index[b], d}, r[h], Ran(r))
    <3>1. index[b] \in R /\ d \in R
      BY <1>1, <1>5, <2>4 DEF d
    <3> QED BY <1>1, <2>4, <2>6, <2>9, <2>10, <2>12, <3>1 DEF Grows
  <2>14. Apart(R) => \A x \in R : x.isHole /\ EndOf(x) = r[h].start =>
                       \E z \in R : IsEmpty(z) /\ z.start = r[h].start
    <3>1. index[b] \in R
      BY <1>5, <2>4
    <3> QED BY <2>4, <2>10, <3>1 DEF Apart
  <2>15. {index[b], d} \in SUBSET R
    BY <2>13 DEF Grows
  <2>16. \E G \in SUBSET R :
           /\ EndOf(r[h]) = EndOf(d)
           /\ Grows(R, G, r[h], Ran(r))
           /\ d \in G /\ \A x \in G : x = d \/ x.isHole
           /\ Apart(R) => \A x \in R : x.isHole /\ EndOf(x) = r[h].start =>
                            \E z \in R : IsEmpty(z) /\ z.start = r[h].start
    <3> WITNESS {index[b], d} \in SUBSET R
    <3>1. \A x \in {index[b], d} : x = d \/ x.isHole
      BY <2>4
    <3> QED BY <2>10, <2>13, <2>14, <3>1
  <2> QED BY <2>6, <2>7, <2>9, <2>11, <2>16 DEF r, k, R, d
<1>9. CASE ~IsHole(q, b)
  <2>1. r = q /\ k = i
    BY <1>9 DEF Backed, Kept
  <2>2. \/ b = 0 /\ \A x \in DOMAIN q : EndOf(q[x]) # a
        \/ b \in DOMAIN q /\ EndOf(q[b]) = a
    BY <1>3, EndingAtIs DEF Behind
  <2> HIDE DEF q, b, r, k, R, d
  <2>3. Grows(R, {d}, q[i], Ran(q))
    <3>1. d \in R
      BY <1>1, <1>5 DEF d
    <3> QED BY <1>1, <1>3, <1>4, <1>6, <1>7, <3>1 DEF Grows
  <2>4. ASSUME NEW x \in R, x.isHole, EndOf(x) = a
        PROVE  \E z \in R : IsEmpty(z) /\ z.start = a
    <3>1. PICK j \in DOMAIN index : index[j] = x
      BY DEF R, Ran
    <3>2. x \in Entries /\ j # i
      BY <1>1, <1>4, <2>4, <3>1 DEF d
    <3>3. q[j] = x /\ b \in DOMAIN q /\ EndOf(q[b]) = a /\ ~q[b].isHole /\ b # 0
      <4>1. 0 \notin DOMAIN index
        BY <1>1
      <4> QED BY <1>3, <1>9, <2>2, <2>4, <3>1, <3>2, <4>1 DEF IsHole
    <3>4. b # i /\ q[b] = index[b] /\ q[b] \in Entries /\ b \in DOMAIN index
      BY <1>3, <3>3
    <3>5. q[b].size \in Nat /\ q[b].start \in Nat /\ EndOf(q[b]) = q[b].start + q[b].size
      BY <3>4, EntryIs
    <3>6. q[b].size = 0
      <4> SUFFICES ASSUME q[b].size > 0 PROVE FALSE
        BY <3>5
      <4>1. x.size > 0
        BY <1>1, <2>4, <3>1 DEF Good, HolesHaveSize
      <4>2. Holds(x, a - 1) /\ Holds(q[b], a - 1)
        BY <2>4, <3>2, <3>3, <3>4, <4>1, AddressesOf
      <4>3. a - 1 \in Nat
        BY <3>3, <3>5
      <4>4. j = b
        BY <1>1, <3>1, <3>4, <4>2, <4>3, SharedIsSame
      <4> QED BY <2>4, <3>1, <3>3, <3>4, <4>4
    <3>7. index[b] \in R /\ IsEmpty(index[b]) /\ index[b].start = a
      BY <1>5, <3>3, <3>4, <3>5, <3>6 DEF IsEmpty
    <3> QED BY <3>7
  <2>5. \E G \in SUBSET R :
          /\ EndOf(r[i]) = EndOf(d)
          /\ Grows(R, G, r[i], Ran(r))
          /\ d \in G /\ \A x \in G : x = d \/ x.isHole
          /\ Apart(R) => \A x \in R : x.isHole /\ EndOf(x) = r[i].start =>
                           \E z \in R : IsEmpty(z) /\ z.start = r[i].start
    <3>1. {d} \in SUBSET R
      BY <2>3 DEF Grows
    <3> WITNESS {d} \in SUBSET R
    <3> QED BY <1>4, <2>1, <2>3, <2>4
  <2>6. Good(r, Arena) /\ Len(r) <= Len(index)
    BY <1>1, <1>3, <2>1
  <2>7. k \in DOMAIN r /\ EndOf(r[k]) = EndOf(d) /\ i \in DOMAIN r
    BY <1>1, <1>3, <1>4, <2>1
  <2> QED BY <2>5, <2>6, <2>7 DEF r, k, R, d
<1> QED BY <1>8, <1>9

\* What free does to an entry with a size.
LEMMA FreedIs ==
  ASSUME Good(index, Arena), NEW a, StartingAt(index, a) # 0,
         index[StartingAt(index, a)].size > 0, Free(a)
  PROVE  LET R == Ran(index)
             d == index[StartingAt(index, a)]
         IN  /\ heapPanic' = heapPanic /\ Good(index', Arena) /\ Len(index') <= Len(index)
             /\ d \in R
             /\ \E G \in SUBSET R, N \in Entries :
                  /\ Grows(R, G, N, Ran(index'))
                  /\ d \in G /\ \A x \in G : x = d \/ x.isHole
                  /\ Apart(R) => NoHoleAt(R, G, N)
<1> DEFINE i == StartingAt(index, a)
           r == Backed(i, a)
           k == Kept(i, a)
           e == Ahead(i, a)
           R == Ran(index)
           d == index[i]
           c == EndOf(d)
<1>1. /\ Good(r, Arena) /\ Len(r) <= Len(index)
      /\ k \in DOMAIN r /\ EndOf(r[k]) = c
      /\ \E h \in DOMAIN r, G \in SUBSET R :
           /\ EndOf(r[h]) = c
           /\ Grows(R, G, r[h], Ran(r))
           /\ d \in G /\ \A x \in G : x = d \/ x.isHole
           /\ Apart(R) => \A x \in R : x.isHole /\ EndOf(x) = r[h].start =>
                            \E z \in R : IsEmpty(z) /\ z.start = r[h].start
  BY BackedIs
<1>2. /\ r \in Seq(Entries) /\ Len(r) \in Nat /\ DOMAIN r = 1 .. Len(r) /\ Tiles(r, Arena)
      /\ index \in Seq(Entries) /\ Len(index) \in Nat
  BY <1>1 DEF Good
<1>3. /\ heapPanic' = heapPanic
      /\ index' = IF IsHole(r, e) THEN Merged(r, k, e) ELSE r
  <2>1. k # 0 =>
          /\ heapPanic' = heapPanic
          /\ index' = IF IsHole(r, e) THEN Merged(r, k, e) ELSE r
    BY FreeIs
  <2>2. k # 0
    BY <1>1, <1>2
  <2> QED BY <2>1, <2>2
<1>4. e = StartingAt(r, c)
  BY <1>1 DEF Ahead
<1> HIDE DEF i, r, k, e, R, d, c
<1>5. PICK h \in DOMAIN r, G \in SUBSET R :
        /\ EndOf(r[h]) = c
        /\ Grows(R, G, r[h], Ran(r))
        /\ d \in G /\ \A x \in G : x = d \/ x.isHole
        /\ Apart(R) => \A x \in R : x.isHole /\ EndOf(x) = r[h].start =>
                         \E z \in R : IsEmpty(z) /\ z.start = r[h].start
  BY <1>1
<1>6. /\ r[h] \in Entries /\ r[h].isHole /\ r[h].size > 0
      /\ r[h].start \in Nat /\ r[h].size \in Nat /\ c = r[h].start + r[h].size
  <2>1. r[h] \in Entries
    BY <1>2
  <2> QED BY <1>5, <2>1, EntryIs DEF Grows
<1>7. CASE IsHole(r, e)
  <2> DEFINE v == Merged(r, k, e)
             H == R \cap (G \cup {r[h], r[e]})
             N == Both(r[h], r[e])
  <2>1. /\ Good(v, Arena) /\ Len(r) = Len(v) + 1
        /\ e \in DOMAIN r /\ r[e].isHole /\ r[e].start = EndOf(r[k])
        /\ r[e].size > 0 /\ r[k].size > 0
        /\ Ran(v) = (Ran(r) \ {r[k], r[e]}) \cup {Both(r[k], r[e])}
    BY <1>1, <1>4, <1>7, ForwardGood, SMTT(30)
  <2>2. k = h
    <3>1. r[k] \in Entries
      BY <1>1, <1>2
    <3>2. Holds(r[k], c - 1) /\ Holds(r[h], c - 1)
      BY <1>1, <1>5, <1>6, <2>1, <3>1, AddressesOf
    <3>3. c - 1 \in Nat
      BY <1>6
    <3> QED BY <1>1, <1>2, <3>2, <3>3, SharedIsSame
  <2>3. r[e] \in Entries /\ r[e].size \in Nat /\ r[e].start = c
    <3>1. r[e] \in Entries
      BY <1>2, <2>1
    <3> QED BY <1>1, <2>1, <3>1, EntryIs
  <2>4. r[e] \in R
    <3>1. r[e] # r[h]
      BY <1>6, <2>3
    <3>2. r[e] \in Ran(r)
      BY <2>1 DEF Ran
    <3> QED BY <1>5, <3>1, <3>2 DEF Grows
  <2>5. /\ N \in Entries /\ EndOf(N) = EndOf(r[e]) /\ N.start = r[h].start
        /\ N.isHole /\ N.size > 0
    <3>1. Addresses(r[e]) \subseteq Arena
      BY <1>2, <2>1 DEF Tiles
    <3>2. EndOf(r[h]) = r[e].start
      BY <1>5, <2>3
    <3>3. /\ N \in Entries /\ EndOf(N) = EndOf(r[e])
          /\ N.start = r[h].start /\ N.isHole = r[h].isHole
          /\ N.size = r[h].size + r[e].size
      BY <1>6, <2>3, <3>1, <3>2, BothIs
    <3> QED BY <1>6, <2>3, <3>3
  <2>6. Len(v) <= Len(index)
    <3>1. Len(v) \in Nat
      BY <2>1 DEF Good
    <3> QED BY <1>1, <1>2, <2>1, <3>1
  <2>7. index' = v
    BY <1>3, <1>7
  <2> HIDE DEF v, N, H
  <2>8. Grows(R, H, N, Ran(v))
    <3>1. Ran(r) = (R \ G) \cup {r[h]} /\ \A x \in G : x.size > 0
      BY <1>5 DEF Grows
    <3>2. Ran(v) = (Ran(r) \ {r[h], r[e]}) \cup {N}
      BY <2>1, <2>2 DEF N
    <3>3. Ran(v) = (R \ H) \cup {N}
      BY <3>1, <3>2 DEF H
    <3>4. H \subseteq R /\ \A x \in H : x.size > 0
      BY <1>6, <2>1, <3>1 DEF H
    <3> QED BY <2>5, <3>3, <3>4 DEF Grows
  <2>9. d \in H /\ (\A x \in H : x = d \/ x.isHole) /\ H \in SUBSET R
    BY <1>5, <1>6, <2>1 DEF H
  <2>10. Apart(R) => NoHoleAt(R, H, N)
    <3> SUFFICES ASSUME Apart(R) PROVE NoHoleAt(R, H, N)
      OBVIOUS
    <3>1. \A x \in R : x.isHole /\ EndOf(x) = N.start =>
            \E z \in R : IsEmpty(z) /\ z.start = N.start
      BY <1>5, <2>5
    <3>2. \A x \in R : x.isHole /\ EndOf(N) = x.start =>
            \E z \in R : IsEmpty(z) /\ z.start = x.start
      BY <2>1, <2>4, <2>5 DEF Apart
    <3> QED BY <3>1, <3>2 DEF NoHoleAt
  <2>11. d \in R
    BY <2>9
  <2>12. \E F \in SUBSET R, M \in Entries :
           /\ Grows(R, F, M, Ran(index'))
           /\ d \in F /\ \A x \in F : x = d \/ x.isHole
           /\ Apart(R) => NoHoleAt(R, F, M)
    BY <2>5, <2>7, <2>8, <2>9, <2>10
  <2>13. Good(index', Arena) /\ Len(index') <= Len(index)
    BY <2>1, <2>6, <2>7
  <2> QED BY <1>3, <2>11, <2>12, <2>13 DEF R, d, i
<1>8. CASE ~IsHole(r, e)
  <2>1. index' = r
    BY <1>3, <1>8
  <2>2. ASSUME NEW x \in R \ G, x.isHole, x.start = c
        PROVE  \E z \in R : IsEmpty(z) /\ z.start = c
    <3>1. PICK y \in DOMAIN r : r[y] = x
      BY <1>5 DEF Grows, Ran
    <3>2. e \in DOMAIN r /\ r[e].start = c /\ ~r[e].isHole
      <4>1. e \in DOMAIN r /\ r[e].start = c
        BY <1>2, <1>4, <2>2, <3>1, StartingAtIs
      <4> QED BY <1>2, <1>8, <4>1 DEF IsHole
    <3>3. /\ r[e] \in Entries /\ r[e].size \in Nat /\ c \in Nat /\ x \in Entries
      BY <1>2, <1>6, <3>1, <3>2, EntryIs
    <3>4. r[e].size = 0
      <4> SUFFICES ASSUME r[e].size > 0 PROVE FALSE
        BY <3>3
      <4>1. x.size > 0
        BY <1>1, <2>2, <3>1 DEF Good, HolesHaveSize
      <4>2. Holds(x, c) /\ Holds(r[e], c)
        BY <2>2, <3>2, <3>3, <4>1, AddressesOf
      <4>3. y = e
        BY <1>2, <3>1, <3>2, <3>3, <4>2, SharedIsSame
      <4> QED BY <2>2, <3>1, <3>2, <4>3
    <3>5. r[e] \in R
      <4>1. r[e] \in Ran(r) /\ r[e] # r[h]
        BY <1>6, <3>2 DEF Ran
      <4> QED BY <1>5, <4>1 DEF Grows
    <3> QED BY <3>2, <3>4, <3>5 DEF IsEmpty
  <2>3. Apart(R) => NoHoleAt(R, G, r[h])
    BY <1>5, <2>2 DEF NoHoleAt
  <2>4. \E F \in SUBSET R, M \in Entries :
          /\ Grows(R, F, M, Ran(index'))
          /\ d \in F /\ \A x \in F : x = d \/ x.isHole
          /\ Apart(R) => NoHoleAt(R, F, M)
    BY <1>5, <1>6, <2>1, <2>3
  <2>5. Good(index', Arena) /\ Len(index') <= Len(index)
    BY <1>1, <2>1
  <2>6. d \in R
    BY <1>5
  <2> QED BY <1>3, <2>4, <2>5, <2>6 DEF R, d, i
<1> QED BY <1>7, <1>8

\* The hole that the entries become touches no other.
LEMMA GrowsApart ==
  ASSUME NEW R, NEW G, NEW N \in Entries, NEW S, Grows(R, G, N, S),
         Apart(R), NoHoleAt(R, G, N)
  PROVE  Apart(S)
<1>1. \A z \in R : IsEmpty(z) => z \in S
  BY DEF Grows, IsEmpty
<1>2. EndOf(N) # N.start
  BY EntryIs DEF Grows
<1>3. ASSUME NEW x \in S, NEW y \in S, x.isHole, y.isHole, EndOf(x) = y.start
      PROVE  \E z \in R : IsEmpty(z) /\ z.start = y.start
  <2>1. CASE x = N
    <3>1. y \in R \ G
      BY <1>2, <1>3, <2>1 DEF Grows
    <3> QED BY <1>3, <2>1, <3>1 DEF NoHoleAt
  <2>2. CASE x # N
    <3>1. x \in R \ G
      BY <2>2 DEF Grows
    <3>2. CASE y = N
      BY <1>3, <3>1, <3>2 DEF NoHoleAt
    <3>3. CASE y # N
      BY <1>3, <3>1, <3>3 DEF Grows, Apart
    <3> QED BY <3>2, <3>3
  <2> QED BY <2>1, <2>2
<1> QED BY <1>1, <1>3 DEF Apart

LEMMA FreeKeeps ==
  ASSUME HeapInv, NEW a, Free(a)
  PROVE  HeapInv'
<1> DEFINE i == StartingAt(index, a)
<1>1. /\ heapPanic = "no" /\ i # 0
      /\ emptied' = (emptied \/ (index[i].size = 0 /\ ~index[i].isHole))
  BY Zenon DEF Free
<1>2. Good(index, Arena) /\ index \in Seq(Entries) /\ Len(index) \in Nat
  <2>1. Good(index, Arena)
    BY DEF HeapInv
  <2>2. index \in Seq(Entries)
    BY <2>1 DEF Good
  <2> QED BY <2>1, <2>2
<1>3. i \in DOMAIN index /\ index[i].size \in Nat
  <2>1. i \in DOMAIN index
    BY <1>1, <1>2, StartingAtIs
  <2> QED BY <1>2, <2>1, EntryIs
<1>4. emptied' \in BOOLEAN
  BY <1>1
<1>5. Len(index) <= IndexSize /\ IndexSize \in Nat
  BY ConstantsAreNaturals DEF HeapInv
<1>6. CASE index[i].size = 0
  <2>1. /\ Good(index', Arena) /\ Len(index') <= Len(index)
        /\ heapPanic' \in {"no", "index out of range"} /\ emptied'
    BY <1>1, <1>2, <1>6, EmptyFreed
  <2>2. Len(index') \in Nat
    <3>1. index' \in Seq(Entries)
      BY <2>1 DEF Good
    <3> QED BY <3>1
  <2>3. Len(index') <= IndexSize
    <3>1. /\ Len(index') <= Len(index) /\ Len(index) <= IndexSize
          /\ Len(index') \in Nat /\ Len(index) \in Nat /\ IndexSize \in Nat
      BY <1>2, <1>5, <2>1, <2>2
    <3> HIDE DEF i
    <3>2. \A x, y, z \in Nat : x <= y /\ y <= z => x <= z
      OBVIOUS
    <3> QED BY <3>1, <3>2, Zenon
  <2>4. heapPanic' \in {"no", "no hole", "index full", "index out of range"}
    BY <2>1
  <2> QED BY <1>4, <2>1, <2>3, <2>4 DEF HeapInv
<1>7. CASE index[i].size > 0
  <2>1. /\ heapPanic' = heapPanic /\ Good(index', Arena) /\ Len(index') <= Len(index)
        /\ \E G \in SUBSET Ran(index), N \in Entries :
             /\ Grows(Ran(index), G, N, Ran(index'))
             /\ Apart(Ran(index)) => NoHoleAt(Ran(index), G, N)
    BY <1>1, <1>2, <1>7, FreedIs
  <2>2. Len(index') \in Nat
    <3>1. index' \in Seq(Entries)
      BY <2>1 DEF Good
    <3> QED BY <3>1
  <2>3. Len(index') <= IndexSize
    <3>1. /\ Len(index') <= Len(index) /\ Len(index) <= IndexSize
          /\ Len(index') \in Nat /\ Len(index) \in Nat /\ IndexSize \in Nat
      BY <1>2, <1>5, <2>1, <2>2
    <3> HIDE DEF i
    <3>2. \A x, y, z \in Nat : x <= y /\ y <= z => x <= z
      OBVIOUS
    <3> QED BY <3>1, <3>2, Zenon
  <2>4. emptied' = emptied
    BY <1>1, <1>7 DEF HeapInv
  <2>5. ~emptied' => Apart(Ran(index'))
    BY <2>1, <2>4, GrowsApart DEF HeapInv
  <2>6. /\ heapPanic' \in {"no", "no hole", "index full", "index out of range"}
        /\ heapPanic' # "index out of range"
    BY <1>1, <2>1
  <2> QED BY <1>4, <2>1, <2>3, <2>5, <2>6 DEF HeapInv
<1> QED BY <1>3, <1>6, <1>7

-----------------------------------------------------------------------------
(* Allocation.                                                             *)

\* The first entry that satisfies a condition does.
LEMMA HoleIs ==
  ASSUME NEW q \in Seq(Entries), NEW n
  PROVE  \/ SmallestHole(q, n) = 0
         \/ /\ SmallestHole(q, n) \in DOMAIN q
            /\ q[SmallestHole(q, n)].isHole /\ q[SmallestHole(q, n)].size >= n
<1> DEFINE I == {i \in 1 .. Len(q) : q[i].isHole /\ q[i].size >= n}
           k == SmallestHole(q, n)
<1>1. k = IF I # {} THEN Min(I) ELSE 0
  BY DEF SmallestHole, SelectInSeq
<1>2. Len(q) \in Nat /\ I \subseteq 1 .. Len(q) /\ DOMAIN q = 1 .. Len(q)
  OBVIOUS
<1>3. \A i \in I : i \in DOMAIN q /\ q[i].isHole /\ q[i].size >= n
  BY <1>2
<1> HIDE DEF I, k
<1>4. k = 0 \/ k \in I
  BY <1>1, <1>2, FirstIs
<1> QED BY <1>3, <1>4 DEF k

LEMMA AlignedHoleIs ==
  ASSUME NEW q \in Seq(Entries), NEW n
  PROVE  LET k == SmallestAlignedHole(q, n)
         IN  \/ k = 0
             \/ k \in DOMAIN q /\ q[k].isHole /\ q[k].size >= n + Offset(q[k])
<1> DEFINE I == {i \in 1 .. Len(q) : q[i].isHole /\ q[i].size >= n + Offset(q[i])}
           k == SmallestAlignedHole(q, n)
<1>1. k = IF I # {} THEN Min(I) ELSE 0
  BY DEF SmallestAlignedHole, SelectInSeq
<1>2. Len(q) \in Nat /\ I \subseteq 1 .. Len(q) /\ DOMAIN q = 1 .. Len(q)
  OBVIOUS
<1>3. \A i \in I : i \in DOMAIN q /\ q[i].isHole /\ q[i].size >= n + Offset(q[i])
  BY <1>2
<1> HIDE DEF I, k
<1>4. k = 0 \/ k \in I
  BY <1>1, <1>2, FirstIs
<1> QED BY <1>3, <1>4 DEF k

LEMMA OffsetIs ==
  ASSUME NEW e \in Entries
  PROVE  Offset(e) \in Nat
<1>1. e.start \in Nat /\ PageSize \in Nat /\ PageSize > 0
  BY EntryIs, ConstantsAreNaturals
<1>2. e.start % PageSize \in 0 .. PageSize - 1
  BY <1>1
<1>3. PageSize - (e.start % PageSize) \in Nat
  BY <1>1, <1>2
<1>4. (PageSize - (e.start % PageSize)) % PageSize \in 0 .. PageSize - 1
  BY <1>1, <1>3
<1> QED BY <1>1, <1>4 DEF Offset

Span(s, m) == {a \in Nat : s <= a /\ a < s + m}

LEMMA SpanIs ==
  ASSUME NEW s \in First .. End, NEW m \in 0 .. End - First, NEW hole \in BOOLEAN
  PROVE  /\ Entry(s, m, hole) \in Entries
         /\ Entry(s, m, hole).start = s /\ Entry(s, m, hole).size = m
         /\ Entry(s, m, hole).isHole = hole
         /\ EndOf(Entry(s, m, hole)) = s + m
         /\ Addresses(Entry(s, m, hole)) = Span(s, m)
<1> DEFINE e == Entry(s, m, hole)
<1>1. e \in Entries /\ e.start = s /\ e.size = m /\ e.isHole = hole
  BY DEF Entry, Entries
<1> HIDE DEF e
<1>2. EndOf(e) = s + m
  BY <1>1 DEF EndOf
<1>3. Addresses(e) = Span(s, m)
  BY <1>1, <1>2 DEF Addresses, Holds, Span
<1> QED BY <1>1, <1>2, <1>3 DEF e

\* A hole of m bytes, if there are any.
Spare(s, m) == Entry(s, m, TRUE)

Rest(s, m) == IF m = 0 THEN {} ELSE {Spare(s, m)}

\* Addresses of the arena that are not in X.
Fits(S, X) == S \subseteq Arena /\ S \cap X = {}

\* The index u has what q has and the entries of T.
HasMore(u, q, T) == Ran(u) = Ran(q) \cup T

LEMMA RestGood ==
  ASSUME NEW q, NEW X, Good(q, X), NEW s \in First .. End, NEW m \in 0 .. End - First,
         Fits(Span(s, m), X),
         NEW u, m = 0 => u = q, m # 0 => u = Insert(q, Spare(s, m))
  PROVE  Good(u, X \cup Span(s, m)) /\ HasMore(u, q, Rest(s, m))
<1>1. CASE m = 0
  <2>1. Span(s, m) = {}
    BY <1>1, ConstantsAreNaturals DEF Span
  <2>2. X \cup Span(s, m) = X
    BY <2>1
  <2>3. Ran(q) \cup Rest(s, m) = Ran(q)
    BY <1>1 DEF Rest
  <2> QED BY <1>1, <2>2, <2>3 DEF HasMore
<1>2. CASE m # 0
  <2> DEFINE e == Spare(s, m)
  <2>1. e \in Entries /\ e.size = m /\ Addresses(e) = Span(s, m)
    BY SpanIs DEF Spare
  <2>2. m > 0
    BY <1>2, ConstantsAreNaturals
  <2> HIDE DEF e
  <2>3. Good(Insert(q, e), X \cup Span(s, m)) /\ Ran(Insert(q, e)) = Ran(q) \cup {e}
    <3>1. Addresses(e) \subseteq Arena /\ Addresses(e) \cap X = {}
      BY <2>1 DEF Fits
    <3>2. Good(Insert(q, e), X \cup Addresses(e)) /\ Ran(Insert(q, e)) = Ran(q) \cup {e}
      BY <2>1, <2>2, <3>1, InsertGood
    <3> QED BY <2>1, <3>2
  <2> QED BY <1>2, <2>3 DEF HasMore, Rest, e
<1> QED BY <1>1, <1>2

\* n bytes are taken from a hole.
LEMMA TakenIs ==
  ASSUME Good(index, Arena), NEW i \in DOMAIN index, index[i].isHole,
         NEW skip \in Nat, NEW n \in Nat, skip + n <= index[i].size
  PROVE  LET h == index[i]
             s == AfterAlloc(RemoveAt(index, i), h, skip, n)
             new == Entry(h.start + skip, n, FALSE)
         IN  /\ Good(s, Arena)
             /\ new \in Entries /\ Addresses(new) \subseteq Addresses(h)
             /\ Ran(s) = (Ran(index) \ {h}) \cup Rest(h.start, skip)
                           \cup Rest(h.start + skip + n, h.size - skip - n) \cup {new}
<1> DEFINE h == index[i]
           q == RemoveAt(index, i)
           left == h.size - skip - n
           before == IF skip = 0 THEN q ELSE Insert(q, Entry(h.start, skip, TRUE))
           behind == IF left = 0 THEN before
                     ELSE Insert(before, Entry(h.start + skip + n, left, TRUE))
           new == Entry(h.start + skip, n, FALSE)
           s == Insert(behind, new)
           S1 == Span(h.start, skip)
           S2 == Span(h.start + skip + n, left)
           S3 == Span(h.start + skip, n)
           X == Arena \ Addresses(h)
<1>1. s = AfterAlloc(q, h, skip, n)
  BY DEF AfterAlloc
<1>2. /\ h \in Entries /\ h.size > 0 /\ Addresses(h) \subseteq Arena
      /\ index \in Seq(Entries) /\ i \in 1 .. Len(index) /\ Tiles(index, Arena)
  BY DEF Good, HolesHaveSize, Tiles
<1>3. /\ First \in Nat /\ End \in Nat /\ Arena \subseteq Nat
      /\ h.start \in Nat /\ h.size \in Nat /\ First <= h.start /\ h.size <= End - First
      /\ EndOf(h) = h.start + h.size
  BY <1>2, ConstantsAreNaturals, EntryIs DEF Arena
<1>4. h.start + h.size <= End
  <2>1. Holds(h, EndOf(h) - 1)
    BY <1>2, AddressesOf
  <2>2. EndOf(h) - 1 \in Nat
    BY <1>2, <1>3
  <2>3. EndOf(h) - 1 \in Arena
    BY <1>2, <2>1, <2>2 DEF Addresses
  <2> QED BY <1>3, <2>3 DEF Arena
<1>5. Addresses(h) = Span(h.start, h.size)
  BY <1>3 DEF Addresses, Holds, Span
<1>6. Good(q, X) /\ Ran(q) = Ran(index) \ {h}
  <2>1. q \in Seq(Entries) /\ Omits(index, i, q)
    BY <1>2, RemoveAtOmits
  <2>2. Good(q, X)
    BY <2>1, OmitsGood
  <2>3. Ran(index) = Ran(q) \cup {h}
    BY <2>1, OmitsRan
  <2>4. h \notin Ran(q)
    <3> SUFFICES ASSUME NEW x \in DOMAIN q, q[x] = h PROVE FALSE
      BY DEF Ran
    <3>1. Addresses(h) \subseteq X
      BY <2>2 DEF Good, Tiles
    <3>2. h.start \in Addresses(h)
      BY <1>2, <1>3, AddressesOf DEF Addresses
    <3> QED BY <3>1, <3>2
  <2> QED BY <2>2, <2>3, <2>4
<1>7. /\ left \in Nat /\ skip \in 0 .. End - First /\ left \in 0 .. End - First
      /\ n \in 0 .. End - First
      /\ h.start \in First .. End /\ h.start + skip \in First .. End
      /\ h.start + skip + n \in First .. End
  BY <1>3, <1>4
<1>8. /\ S1 \cap S2 = {} /\ S1 \cap S3 = {} /\ S2 \cap S3 = {}
      /\ S1 \cup S2 \cup S3 = Addresses(h)
  BY <1>3, <1>5, <1>7 DEF Span
<1> HIDE DEF h, q, left, before, behind, new, s, S1, S2, S3, X
<1>9. Good(before, X \cup S1) /\ Ran(before) = Ran(q) \cup Rest(h.start, skip)
  <2> DEFINE t == h.start
             m == skip
  <2>1. S1 \cap X = {} /\ S1 \subseteq Arena
    BY <1>2, <1>8 DEF X
  <2>2. /\ m = 0 => before = q
        /\ m # 0 => before = Insert(q, Spare(t, m))
    BY DEF before, Spare
  <2>3. S1 = Span(t, m)
    BY DEF S1
  <2>4. Good(q, X) /\ t \in First .. End /\ m \in 0 .. End - First
    BY <1>6, <1>7
  <2> HIDE DEF t, m
  <2>5. Fits(Span(t, m), X)
    BY <2>1, <2>3 DEF Fits
  <2>6. Good(before, X \cup Span(t, m))
    BY ONLY <2>2, <2>4, <2>5, RestGood
  <2>7. HasMore(before, q, Rest(t, m))
    BY ONLY <2>2, <2>4, <2>5, RestGood
  <2> QED BY <2>3, <2>6, <2>7 DEF HasMore, t, m
<1>10. /\ Good(behind, X \cup S1 \cup S2)
       /\ Ran(behind) = Ran(before) \cup Rest(h.start + skip + n, left)
  <2>1. S2 \cap (X \cup S1) = {} /\ S2 \subseteq Arena
    BY <1>2, <1>8 DEF X
  <2> DEFINE t == h.start + skip + n
  <2>3. S2 = Span(t, left)
    BY DEF S2
  <2>4. Good(before, X \cup S1) /\ t \in First .. End /\ left \in 0 .. End - First
    BY <1>7, <1>9
  <2> HIDE DEF t
  <2>5. Fits(Span(t, left), X \cup S1)
    BY <2>1, <2>3 DEF Fits
  <2>6. /\ left = 0 => behind = before
        /\ left # 0 => behind = Insert(before, Spare(t, left))
    BY DEF behind, Spare, t
  <2>7. /\ Good(behind, (X \cup S1) \cup Span(t, left))
        /\ HasMore(behind, before, Rest(t, left))
    BY <2>4, <2>5, <2>6, RestGood
  <2> QED BY <2>3, <2>7 DEF HasMore, t
<1>11. new \in Entries /\ Addresses(new) = S3 /\ ~new.isHole
  BY <1>7, SpanIs DEF new, S3
<1>12. /\ Good(s, X \cup S1 \cup S2 \cup S3)
       /\ Ran(s) = Ran(behind) \cup {new}
  <2>1. Addresses(new) \cap (X \cup S1 \cup S2) = {} /\ Addresses(new) \subseteq Arena
    BY <1>2, <1>8, <1>11 DEF X
  <2> QED BY <1>10, <1>11, <2>1, InsertGood DEF s
<1>13. X \cup S1 \cup S2 \cup S3 = Arena
  BY <1>2, <1>8 DEF X
<1>14. Good(s, Arena)
  BY <1>12, <1>13
<1>15. Ran(s) = (Ran(index) \ {h}) \cup Rest(h.start, skip)
                  \cup Rest(h.start + skip + n, left) \cup {new}
  BY <1>6, <1>9, <1>10, <1>12
<1>16. new \in Entries /\ Addresses(new) \subseteq Addresses(h)
  BY <1>8, <1>11
<1> QED BY <1>1, <1>14, <1>15, <1>16 DEF h, q, left, new

\* Entries with sizes lie one behind the other.
LEMMA OneBehindTheOther ==
  ASSUME Good(index, Arena), NEW x \in Ran(index), NEW y \in Ran(index), x # y,
         x.size > 0, y.size > 0
  PROVE  EndOf(x) <= y.start \/ EndOf(y) <= x.start
<1>1. PICK i \in DOMAIN index, j \in DOMAIN index : x = index[i] /\ y = index[j]
  BY DEF Ran
<1>2. Tiles(index, Arena) /\ x \in Entries /\ y \in Entries
  BY <1>1 DEF Good
<1>3. /\ x.start \in Nat /\ x.size \in Nat /\ EndOf(x) = x.start + x.size
      /\ y.start \in Nat /\ y.size \in Nat /\ EndOf(y) = y.start + y.size
  BY <1>2, EntryIs
<1>4. \A a \in Nat : ~(Holds(x, a) /\ Holds(y, a))
  BY <1>1, <1>2, SharedIsSame
<1>5. CASE x.start <= y.start
  BY <1>3, <1>4, <1>5 DEF Holds
<1>6. CASE y.start <= x.start
  BY <1>3, <1>4, <1>6 DEF Holds
<1> QED BY <1>3, <1>5, <1>6

\* What is left of a hole h, L before the new entry and B behind it, touches no
\* other hole, unless the new entry is empty.
IsRest(R, h, skip, n, left, L, B, new, S) ==
  /\ Apart(R) /\ h \in R /\ h.isHole /\ h.start \in Nat /\ EndOf(h) \in Nat
  /\ h.start < EndOf(h)
  /\ {skip, n, left} \subseteq Nat /\ h.start + skip + n + left = EndOf(h)
  /\ L.start = h.start /\ EndOf(L) = h.start + skip
  /\ B.start = h.start + skip + n /\ EndOf(B) = EndOf(h)
  /\ new.start = h.start + skip /\ new.size = n /\ ~new.isHole
  /\ new \in S /\ \A z \in R : IsEmpty(z) => z \in S
  /\ \A x \in S : x.isHole => \/ x \in R \ {h}
                              \/ skip > 0 /\ x = L
                              \/ left > 0 /\ x = B
  /\ \A x \in R \ {h} : x.isHole =>
       /\ x.start \in Nat /\ EndOf(x) \in Nat /\ x.start < EndOf(x)
       /\ EndOf(x) <= h.start \/ EndOf(h) <= x.start

LEMMA RestApart ==
  ASSUME NEW R, NEW h, NEW skip, NEW n, NEW left, NEW L, NEW B, NEW new, NEW S,
         IsRest(R, h, skip, n, left, L, B, new, S)
  PROVE  Apart(S)
<1> USE DEF IsRest
<1>1. ASSUME NEW x \in R, NEW y \in R, x.isHole, y.isHole, EndOf(x) = y.start
      PROVE  \E z \in S : IsEmpty(z) /\ z.start = y.start
  BY <1>1 DEF Apart
<1>2. ASSUME NEW x \in R, x.isHole, EndOf(x) = h.start
      PROVE  \E z \in S : IsEmpty(z) /\ z.start = h.start
  BY <1>1, <1>2
<1>3. ASSUME NEW y \in R, y.isHole, EndOf(h) = y.start
      PROVE  \E z \in S : IsEmpty(z) /\ z.start = y.start
  BY <1>1, <1>3
<1>4. ASSUME NEW x \in S, NEW y \in S, x.isHole, y.isHole, EndOf(x) = y.start
      PROVE  \E z \in S : IsEmpty(z) /\ z.start = y.start
  <2>1. CASE x \in R \ {h}
    <3>1. CASE y \in R \ {h}
      BY <1>1, <1>4, <2>1, <3>1
    <3>2. CASE skip > 0 /\ y = L
      BY <1>2, <1>4, <2>1, <3>2
    <3>3. CASE left > 0 /\ y = B
      <4>1. EndOf(x) = h.start + skip + n
        BY <1>4, <3>3
      <4>2. EndOf(x) = h.start
        BY <1>4, <2>1, <3>3, <4>1
      <4>3. y.start = h.start
        BY <1>4, <4>2
      <4> QED BY <1>2, <1>4, <2>1, <4>2, <4>3
    <3> QED BY <1>4, <3>1, <3>2, <3>3
  <2>2. CASE skip > 0 /\ x = L
    <3>1. CASE y \in R \ {h}
      <4>1. y.start = h.start + skip
        BY <1>4, <2>2
      <4>2. y.start = EndOf(h)
        BY <1>4, <2>2, <3>1, <4>1
      <4> QED BY <1>3, <1>4, <3>1, <4>2
    <3>2. CASE skip > 0 /\ y = L
      BY <1>4, <2>2, <3>2
    <3>3. CASE left > 0 /\ y = B
      <4>1. n = 0 /\ new.start = y.start
        BY <1>4, <2>2, <3>3
      <4> QED BY <4>1 DEF IsEmpty
    <3> QED BY <1>4, <3>1, <3>2, <3>3
  <2>3. CASE left > 0 /\ x = B
    <3>1. CASE y \in R \ {h}
      <4>1. y.start = EndOf(h)
        BY <1>4, <2>3
      <4> QED BY <1>3, <1>4, <3>1, <4>1
    <3>2. CASE skip > 0 /\ y = L
      BY <1>4, <2>3, <3>2
    <3>3. CASE left > 0 /\ y = B
      BY <1>4, <2>3, <3>3
    <3> QED BY <1>4, <3>1, <3>2, <3>3
  <2> QED BY <1>4, <2>1, <2>2, <2>3
<1> QED BY <1>4 DEF Apart

LEMMA TakenApart ==
  ASSUME Good(index, Arena), Apart(Ran(index)), NEW i \in DOMAIN index, index[i].isHole,
         NEW skip \in Nat, NEW n \in Nat, skip + n <= index[i].size,
         NEW S,
         S = (Ran(index) \ {index[i]}) \cup Rest(index[i].start, skip)
                \cup Rest(index[i].start + skip + n, index[i].size - skip - n)
                \cup {Entry(index[i].start + skip, n, FALSE)}
  PROVE  Apart(S)
<1> DEFINE h == index[i]
           R == Ran(index)
           left == h.size - skip - n
           L == Spare(h.start, skip)
           B == Spare(h.start + skip + n, left)
           new == Entry(h.start + skip, n, FALSE)
<1>1. h \in R /\ h \in Entries /\ h.isHole /\ h.size > 0
  BY DEF Ran, Good, HolesHaveSize
<1>2. h.start \in Nat /\ h.size \in Nat /\ EndOf(h) = h.start + h.size
  BY <1>1, EntryIs
<1>3. /\ L.start = h.start /\ L.size = skip
      /\ B.start = h.start + skip + n /\ B.size = left
      /\ new.start = h.start + skip /\ new.size = n /\ ~new.isHole
  BY DEF Spare, Entry
<1>4. S = (R \ {h}) \cup Rest(h.start, skip) \cup Rest(h.start + skip + n, left) \cup {new}
  OBVIOUS
<1>5. Rest(h.start, skip) = IF skip = 0 THEN {} ELSE {L}
  BY DEF Rest
<1>6. Rest(h.start + skip + n, left) = IF left = 0 THEN {} ELSE {B}
  BY DEF Rest
<1>7. left \in Nat /\ h.start + skip + n + left = EndOf(h)
  BY <1>1, <1>2
<1> HIDE DEF R, L, B, new, left, h
<1>8. EndOf(L) = h.start + skip /\ EndOf(B) = EndOf(h)
  BY <1>3, <1>7 DEF EndOf
<1>9. EndOf(h) \in Nat /\ h.start < EndOf(h)
  BY <1>1, <1>2
<1>10. ASSUME NEW x \in R \ {h}, x.isHole
       PROVE  /\ x.start \in Nat /\ EndOf(x) \in Nat /\ x.start < EndOf(x)
              /\ EndOf(x) <= h.start \/ EndOf(h) <= x.start
  <2>1. x.size > 0 /\ x \in Entries
    BY <1>10 DEF R, Ran, Good, HolesHaveSize
  <2>2. EndOf(x) <= h.start \/ EndOf(h) <= x.start
    BY <1>1, <1>10, <2>1, OneBehindTheOther DEF R
  <2>3. x.start \in Nat /\ x.size \in Nat /\ EndOf(x) = x.start + x.size
    BY <2>1, EntryIs
  <2> QED BY <2>1, <2>2, <2>3
<1>11. new \in S /\ \A z \in R : IsEmpty(z) => z \in S
  BY <1>1, <1>4 DEF IsEmpty
<1>12. ASSUME NEW x \in S, x.isHole
       PROVE  \/ x \in R \ {h}
              \/ skip > 0 /\ x = L
              \/ left > 0 /\ x = B
  <2>1. x # new
    BY <1>3, <1>12
  <2>2. x \in R \ {h} \/ x \in Rest(h.start, skip) \/ x \in Rest(h.start + skip + n, left)
    BY <1>4, <2>1
  <2>3. x \in Rest(h.start, skip) => skip > 0 /\ x = L
    BY <1>5
  <2>4. x \in Rest(h.start + skip + n, left) => left > 0 /\ x = B
    BY <1>6, <1>7
  <2> QED BY <2>2, <2>3, <2>4
<1>13. Apart(R)
  BY DEF R
<1>14. IsRest(R, h, skip, n, left, L, B, new, S)
  BY <1>1, <1>2, <1>3, <1>7, <1>8, <1>9, <1>10, <1>11, <1>12, <1>13 DEF IsRest
<1>15. Apart(S)
  BY <1>14, RestApart
<1> QED BY <1>15

\* A hole that Alloc or AllocAligned has found.
LEMMA TakeKeeps ==
  ASSUME HeapInv, NEW i \in DOMAIN index, index[i].isHole,
         NEW skip \in Nat, NEW n \in Nat, skip + n <= index[i].size,
         heapPanic = "no", TakeFrom(i, skip, n), UNCHANGED emptied
  PROVE  HeapInv'
<1> DEFINE s == AfterAlloc(RemoveAt(index, i), index[i], skip, n)
<1>1. Good(index, Arena)
  BY DEF HeapInv
<1>2. /\ Good(s, Arena)
      /\ Ran(s) = (Ran(index) \ {index[i]}) \cup Rest(index[i].start, skip)
                    \cup Rest(index[i].start + skip + n, index[i].size - skip - n)
                    \cup {Entry(index[i].start + skip, n, FALSE)}
  BY <1>1, TakenIs
<1>3. \/ Len(s) <= IndexSize /\ index' = s /\ heapPanic' = heapPanic
      \/ index' = index /\ heapPanic' = "index full"
  BY DEF TakeFrom, Panic
<1> HIDE DEF s
<1>4. Apart(Ran(index)) => Apart(Ran(s))
  BY <1>1, <1>2, TakenApart
<1>5. CASE Len(s) <= IndexSize /\ index' = s /\ heapPanic' = heapPanic
  BY <1>2, <1>4, <1>5 DEF HeapInv
<1>6. CASE index' = index /\ heapPanic' = "index full"
  BY <1>6 DEF HeapInv
<1> QED BY <1>3, <1>5, <1>6

LEMMA PanicKeeps ==
  ASSUME HeapInv, Panic("no hole"), UNCHANGED emptied
  PROVE  HeapInv'
BY DEF HeapInv, Panic

LEMMA AllocKeeps ==
  ASSUME HeapInv, NEW n \in Sizes, Alloc(n)
  PROVE  HeapInv'
<1> DEFINE i == SmallestHole(index, n)
<1>1. /\ heapPanic = "no"
      /\ IF i = 0 THEN Panic("no hole") ELSE TakeFrom(i, 0, n)
      /\ UNCHANGED emptied
  BY DEF Alloc
<1>2. index \in Seq(Entries) /\ n \in Nat
  BY ConstantsAreNaturals DEF HeapInv, Good
<1>3. i = 0 \/ (i \in DOMAIN index /\ index[i].isHole /\ index[i].size >= n)
  BY <1>2, HoleIs
<1> HIDE DEF i
<1>4. CASE i = 0
  BY <1>1, <1>4, PanicKeeps
<1>5. CASE i # 0
  <2>1. i \in DOMAIN index /\ index[i].isHole /\ index[i].size \in Nat
    BY <1>2, <1>3, <1>5, EntryIs
  <2>2. 0 \in Nat /\ 0 + n <= index[i].size
    BY <1>2, <1>3, <1>5, <2>1
  <2>3. TakeFrom(i, 0, n)
    BY <1>1, <1>5
  <2> QED BY <1>1, <1>2, <2>1, <2>2, <2>3, TakeKeeps
<1> QED BY <1>4, <1>5

LEMMA AllocAlignedKeeps ==
  ASSUME HeapInv, NEW n \in Sizes, AllocAligned(n)
  PROVE  HeapInv'
<1> DEFINE i == SmallestAlignedHole(index, n)
           skip == Offset(index[i])
<1>1. /\ heapPanic = "no"
      /\ IF i = 0 THEN Panic("no hole") ELSE TakeFrom(i, skip, n)
      /\ UNCHANGED emptied
  BY DEF AllocAligned
<1>2. index \in Seq(Entries) /\ n \in Nat
  BY ConstantsAreNaturals DEF HeapInv, Good
<1>3. i = 0 \/ (i \in DOMAIN index /\ index[i].isHole /\ index[i].size >= n + skip)
  BY <1>2, AlignedHoleIs
<1> HIDE DEF i, skip
<1>4. CASE i = 0
  BY <1>1, <1>4, PanicKeeps
<1>5. CASE i # 0
  <2>1. i \in DOMAIN index /\ index[i].isHole /\ index[i].size \in Nat /\ index[i] \in Entries
    BY <1>2, <1>3, <1>5, EntryIs
  <2>2. skip \in Nat
    BY <2>1, OffsetIs DEF skip
  <2>3. skip + n <= index[i].size
    BY <1>2, <1>3, <1>5, <2>1, <2>2
  <2>4. TakeFrom(i, skip, n)
    BY <1>1, <1>5
  <2> QED BY <1>1, <1>2, <2>1, <2>2, <2>3, <2>4, TakeKeeps
<1> QED BY <1>4, <1>5

-----------------------------------------------------------------------------
(* Theorems.                                                               *)

LEMMA InitGood ==
  ASSUME HeapInit
  PROVE  HeapInv
<1> DEFINE e == Entry(First, End - First, TRUE)
<1>1. /\ First \in Nat /\ End \in Nat /\ First < End
      /\ IndexSize \in Nat /\ IndexSize > 0
  BY ConstantsAreNaturals
<1>2. /\ e \in Entries /\ e.start = First /\ e.size = End - First /\ e.isHole
      /\ EndOf(e) = End
  <2>1. First \in First .. End /\ End - First \in 0 .. End - First
    BY <1>1
  <2>2. /\ e \in Entries /\ e.start = First /\ e.size = End - First /\ e.isHole = TRUE
        /\ EndOf(e) = First + (End - First)
    BY <2>1, SpanIs
  <2>3. First + (End - First) = End
    BY <1>1
  <2> HIDE DEF e
  <2> QED BY <2>2, <2>3
<1>3. index = <<e>> /\ heapPanic = "no" /\ emptied = FALSE
  BY DEF HeapInit
<1> HIDE DEF e
<1>4. index \in Seq(Entries) /\ DOMAIN index = {1} /\ index[1] = e /\ Len(index) = 1
  BY <1>2, <1>3
<1>5. Tiles(index, Arena)
  BY <1>1, <1>2, <1>4 DEF Tiles, Addresses, Holds, Arena
<1>6. EmptiesFirst(index) /\ HolesHaveSize(index)
  BY <1>1, <1>2, <1>4 DEF EmptiesFirst, HolesHaveSize
<1>7. Good(index, Arena)
  BY <1>4, <1>5, <1>6 DEF Good
<1>8. Apart(Ran(index))
  <2>1. Ran(index) = {e}
    BY <1>4 DEF Ran
  <2>2. EndOf(e) # e.start
    BY <1>1, <1>2
  <2> QED BY <2>1, <2>2 DEF Apart
<1>9. Len(index) <= IndexSize
  BY <1>1, <1>4
<1>10. /\ heapPanic \in {"no", "no hole", "index full", "index out of range"}
       /\ heapPanic # "index out of range"
  BY <1>3
<1>11. emptied \in BOOLEAN
  BY <1>3
<1> QED BY <1>7, <1>8, <1>9, <1>10, <1>11 DEF HeapInv

LEMMA NextKeeps ==
  ASSUME HeapInv, [HeapNext]_heapVars
  PROVE  HeapInv'
<1>1. ASSUME NEW n \in Sizes, Alloc(n) PROVE HeapInv'
  BY <1>1, AllocKeeps
<1>2. ASSUME NEW n \in Sizes, AllocAligned(n) PROVE HeapInv'
  BY <1>2, AllocAlignedKeeps
<1>3. ASSUME NEW a \in First .. End, Free(a) PROVE HeapInv'
  BY <1>3, FreeKeeps
<1>4. CASE UNCHANGED heapVars
  BY <1>4 DEF heapVars, HeapInv
<1>5. CASE Halted
  BY <1>4, <1>5 DEF Halted
<1> QED BY <1>1, <1>2, <1>3, <1>4, <1>5 DEF HeapNext

\* The invariant that the others follow from: the entries tile the heap, those
\* without size come first in the index, every hole has a size, and until an empty
\* allocation is freed no two holes touch (Heap.cpp:40-148).
THEOREM HeapKeepsInv == HeapSpec => []HeapInv
<1>1. HeapInit => HeapInv
  BY InitGood
<1>2. HeapInv /\ [HeapNext]_heapVars => HeapInv'
  BY NextKeeps
<1> QED BY <1>1, <1>2, PTL DEF HeapSpec

LEMMA InvTiles ==
  ASSUME HeapInv
  PROVE  EntriesTile
<1>1. Good(index, Arena)
  BY DEF HeapInv
<1>2. TypeOK
  BY <1>1 DEF HeapInv, Good, TypeOK, Entries
<1>3. ASSUME NEW a \in First .. End - 1
      PROVE  \E i \in DOMAIN index : /\ Holds(index[i], a)
                                     /\ \A j \in DOMAIN index : Holds(index[j], a) => j = i
  BY <1>1 DEF Good, Tiles, Arena
<1>4. ASSUME ~emptied, NEW i \in DOMAIN index, NEW j \in DOMAIN index,
             index[i].isHole, index[j].isHole, EndOf(index[i]) = index[j].start
      PROVE  \E k \in DOMAIN index : IsEmpty(index[k]) /\ index[k].start = index[j].start
  <2>1. index[i] \in Ran(index) /\ index[j] \in Ran(index)
    BY DEF Ran
  <2>2. PICK z \in Ran(index) : IsEmpty(z) /\ z.start = index[j].start
    BY <1>4, <2>1 DEF HeapInv, Apart
  <2> QED BY <2>2 DEF Ran
<1> QED BY <1>2, <1>3, <1>4 DEF EntriesTile

\* Holes and data neither overlap nor leak, and holes are maximal, in heaps of any
\* size (Heap.cpp:40-148).
THEOREM EntriesTileTheHeap == HeapSpec => []EntriesTile
<1>1. HeapInv => EntriesTile
  BY InvTiles
<1> QED BY <1>1, HeapKeepsInv, PTL

LEMMA InvFits ==
  ASSUME HeapInv
  PROVE  IndexIsNotExceeded
<1>1. index \in Seq(Entries) /\ Tiles(index, Arena) /\ Len(index) <= IndexSize
  BY DEF HeapInv, Good
<1>2. First \in Arena
  BY ConstantsAreNaturals DEF Arena
<1>3. PICK i \in DOMAIN index : Holds(index[i], First)
  BY <1>1, <1>2 DEF Tiles
<1>4. Len(index) \in Nat /\ i \in 1 .. Len(index) /\ IndexSize \in Nat
  BY <1>1, ConstantsAreNaturals
<1>5. Len(index) \in 1 .. IndexSize
  BY <1>1, <1>4
<1> QED BY <1>5 DEF HeapInv, IndexIsNotExceeded

\* free looks up no entry that does not exist before an empty allocation is freed,
\* and the index stays in its array (inc/OrderedArray.hpp:55,65).
THEOREM IndexIsKept == HeapSpec => []IndexIsNotExceeded
<1>1. HeapInv => IndexIsNotExceeded
  BY InvFits
<1> QED BY <1>1, HeapKeepsInv, PTL

\* The allocations that an index holds.
Block(x) == [start |-> x.start, size |-> x.size]
Blocks(R) == {Block(x) : x \in {y \in R : ~y.isHole}}
Live(q) == {[start |-> q[i].start, size |-> q[i].size] :
              i \in {j \in DOMAIN q : ~q[j].isHole}}

LEMMA LiveIs ==
  ASSUME NEW q
  PROVE  Live(q) = Blocks(Ran(q))
BY DEF Live, Blocks, Block, Ran

LEMMA SameBlock ==
  ASSUME NEW x \in Entries, NEW y \in Entries, ~x.isHole, ~y.isHole, Block(x) = Block(y)
  PROVE  x = y
<1>1. x.start = y.start /\ x.size = y.size
  BY DEF Block
<1>2. x.isHole = FALSE /\ y.isHole = FALSE
  BY DEF Entries
<1>3. /\ x = [start |-> x.start, size |-> x.size, isHole |-> x.isHole]
      /\ y = [start |-> y.start, size |-> y.size, isHole |-> y.isHole]
  BY DEF Entries
<1> QED BY <1>1, <1>2, <1>3, Zenon

LEMMA BlockHas ==
  ASSUME NEW x \in Entries
  PROVE  A!Addresses(Block(x)) = Addresses(x)
<1>1. x.start \in Nat /\ x.size \in Nat /\ EndOf(x) = x.start + x.size
  BY EntryIs
<1>2. Block(x).start = x.start /\ Block(x).size = x.size
  BY DEF Block
<1> QED BY <1>1, <1>2 DEF A!Addresses, Addresses, Holds

LEMMA AllocatorSteps ==
  /\ \A s \in First .. End, n \in Sizes :
       LET b == [start |-> s, size |-> n]
       IN  /\ A!Addresses(b) \subseteq Arena
           /\ \A l \in Live(index) : A!Addresses(l) \cap A!Addresses(b) = {}
           /\ Live(index)' = Live(index) \cup {b}
           /\ UNCHANGED emptied
           => A!Next
  /\ \A b \in Live(index) :
       /\ b.size = 0 => emptied'
       /\ b.size # 0 => Live(index)' = Live(index) \ {b} /\ UNCHANGED emptied
       => A!Next
<1>1. ASSUME NEW s \in First .. End, NEW n \in Sizes,
             A!Addresses([start |-> s, size |-> n]) \subseteq Arena,
             \A l \in Live(index) :
               A!Addresses(l) \cap A!Addresses([start |-> s, size |-> n]) = {},
             Live(index)' = Live(index) \cup {[start |-> s, size |-> n]},
             UNCHANGED emptied
      PROVE  A!Next
  <2>1. A!Allocate([start |-> s, size |-> n])
    BY <1>1 DEF A!Allocate, Live, Arena
  <2> QED BY <2>1 DEF A!Next
<1>2. ASSUME NEW b \in Live(index), b.size = 0 => emptied',
             b.size # 0 => Live(index)' = Live(index) \ {b} /\ UNCHANGED emptied
      PROVE  A!Next
  <2>1. A!Free(b)
    BY <1>2 DEF A!Free, Live
  <2> QED BY <2>1 DEF A!Next, Live
<1> QED BY <1>1, <1>2

LEMMA TakeAllocates ==
  ASSUME HeapInv, NEW i \in DOMAIN index, index[i].isHole,
         NEW skip \in Nat, NEW n \in Sizes, skip + n <= index[i].size,
         TakeFrom(i, skip, n), UNCHANGED emptied
  PROVE  A!Next \/ UNCHANGED <<Live(index), emptied>>
<1> DEFINE s == AfterAlloc(RemoveAt(index, i), index[i], skip, n)
           h == index[i]
           new == Entry(h.start + skip, n, FALSE)
           R == Ran(index)
<1>1. Good(index, Arena) /\ n \in Nat
  BY ConstantsAreNaturals DEF HeapInv
<1>2. /\ new \in Entries /\ Addresses(new) \subseteq Addresses(h)
      /\ Ran(s) = (R \ {h}) \cup Rest(h.start, skip)
                    \cup Rest(h.start + skip + n, h.size - skip - n) \cup {new}
  BY <1>1, TakenIs
<1>3. index' = s \/ index' = index
  BY DEF TakeFrom, Panic
<1>4. /\ new.start = h.start + skip /\ new.size = n /\ ~new.isHole
      /\ \A t, m : \A x \in Rest(t, m) : x.isHole
  BY DEF Entry, Rest, Spare
<1>5. h \in R /\ h.isHole /\ index \in Seq(Entries) /\ Tiles(index, Arena)
  BY <1>1 DEF Ran, Good
<1> HIDE DEF s, h, new, R
<1>6. Blocks(Ran(s)) = Blocks(R) \cup {Block(new)}
  <2>1. \A x \in Ran(s) : ~x.isHole => x = new \/ x \in R
    BY <1>2, <1>4
  <2>2. \A x \in R : ~x.isHole => x \in Ran(s)
    BY <1>2, <1>5
  <2>3. new \in Ran(s)
    BY <1>2
  <2> QED BY <1>4, <2>1, <2>2, <2>3 DEF Blocks
<1>7. CASE index' = s
  <2>1. Live(index)' = Live(index) \cup {Block(new)}
    <3>1. Live(index)' = Live(s)
      BY <1>7 DEF Live
    <3>2. Live(s) = Blocks(Ran(s)) /\ Live(index) = Blocks(R)
      BY LiveIs DEF R
    <3> QED BY <1>6, <3>1, <3>2
  <2>2. A!Addresses(Block(new)) \subseteq Arena
    <3>1. Addresses(h) \subseteq Arena
      BY <1>5 DEF Tiles, h
    <3> QED BY <1>2, <3>1, BlockHas
  <2>3. ASSUME NEW l \in Live(index)
        PROVE  A!Addresses(l) \cap A!Addresses(Block(new)) = {}
    <3>1. PICK j \in DOMAIN index : ~index[j].isHole /\ l = Block(index[j])
      BY DEF Live, Block
    <3>2. index[j] \in Entries /\ j # i
      BY <1>5, <3>1
    <3>3. \A a \in Nat : ~(Holds(index[j], a) /\ Holds(index[i], a))
      BY <1>5, <3>2, SharedIsSame
    <3>4. Addresses(index[j]) \cap Addresses(new) = {}
      BY <1>2, <3>3 DEF Addresses, h
    <3> QED BY <1>2, <3>1, <3>2, <3>4, BlockHas
  <2>4. Block(new) = [start |-> new.start, size |-> n] /\ new.start \in First .. End
    BY <1>2, <1>4 DEF Block, Entries
  <2> QED BY <2>1, <2>2, <2>3, <2>4, AllocatorSteps
<1>8. CASE index' = index
  BY <1>8 DEF Live
<1> QED BY <1>3, <1>7, <1>8

LEMMA FreeFrees ==
  ASSUME HeapInv, NEW a, Free(a)
  PROVE  A!Next \/ UNCHANGED <<Live(index), emptied>>
<1> DEFINE i == StartingAt(index, a)
           d == index[i]
           R == Ran(index)
<1>1. /\ i # 0
      /\ emptied' = (emptied \/ (d.size = 0 /\ ~d.isHole))
  BY Zenon DEF Free
<1>2. Good(index, Arena) /\ index \in Seq(Entries) /\ HolesHaveSize(index)
  BY DEF HeapInv, Good
<1>3. i \in DOMAIN index /\ d \in Entries /\ d.size \in Nat /\ Block(d).size = d.size
  <2>1. i \in DOMAIN index
    BY <1>1, <1>2, StartingAtIs
  <2> QED BY <1>2, <2>1, EntryIs DEF Block
<1>4. ~d.isHole => Block(d) \in Live(index)
  BY <1>3 DEF Live, Block
<1>5. CASE d.size = 0
  <2>1. ~d.isHole
    BY <1>2, <1>3, <1>5 DEF HolesHaveSize
  <2>2. emptied'
    BY <1>1, <1>2, <1>5, EmptyFreed
  <2> HIDE DEF d
  <2> QED BY <1>3, <1>4, <1>5, <2>1, <2>2, AllocatorSteps
<1>6. CASE d.size > 0
  <2>1. PICK G \in SUBSET R, N \in Entries :
          /\ Grows(R, G, N, Ran(index'))
          /\ d \in G /\ \A x \in G : x = d \/ x.isHole
    BY <1>1, <1>2, <1>6, FreedIs
  <2>2. emptied' = emptied
    <3>1. d.size # 0
      BY <1>6
    <3>2. emptied \in BOOLEAN
      BY DEF HeapInv
    <3> QED BY <1>1, <3>1, <3>2, Zenon
  <2>3. Live(index)' = Blocks(Ran(index')) /\ Live(index) = Blocks(R)
    <3>1. Live(index)' = Live(index')
      BY DEF Live
    <3> QED BY <3>1, LiveIs
  <2>4. \A x \in R : x \in Entries
    BY <1>2 DEF Ran
  <2> HIDE DEF R, d, i
  <2>5. Blocks(Ran(index')) = {Block(x) : x \in {y \in R : ~y.isHole /\ y # d}}
    <3>1. Ran(index') = (R \ G) \cup {N} /\ N.isHole
      BY <2>1 DEF Grows
    <3>2. \A y : (y \in Ran(index') /\ ~y.isHole) <=> (y \in R /\ ~y.isHole /\ y # d)
      BY <2>1, <3>1
    <3> QED BY <3>2 DEF Blocks
  <2>6. CASE d.isHole
    <3>1. Blocks(Ran(index')) = Blocks(R)
      BY <2>5, <2>6 DEF Blocks
    <3> QED BY <2>2, <2>3, <3>1
  <2>7. CASE ~d.isHole
    <3>1. Blocks(Ran(index')) = Blocks(R) \ {Block(d)}
      <4>1. \A y \in R : ~y.isHole /\ Block(y) = Block(d) => y = d
        BY <1>3, <2>4, <2>7, SameBlock
      <4> QED BY <2>5, <4>1 DEF Blocks
    <3>2. Live(index)' = Live(index) \ {Block(d)}
      BY <2>3, <3>1
    <3>3. Block(d).size # 0
      BY <1>3, <1>6
    <3> QED BY <1>4, <2>2, <2>7, <3>2, <3>3, AllocatorSteps
  <2> QED BY <2>6, <2>7
<1> QED BY <1>3, <1>5, <1>6

LEMMA NextAllocates ==
  ASSUME HeapInv, [HeapNext]_heapVars
  PROVE  A!Next \/ UNCHANGED <<Live(index), emptied>>
<1>1. index \in Seq(Entries)
  BY DEF HeapInv, Good
<1>2. ASSUME Panic("no hole"), UNCHANGED emptied
      PROVE  UNCHANGED <<Live(index), emptied>>
  BY <1>2 DEF Panic, Live
<1>3. ASSUME NEW n \in Sizes, Alloc(n)
      PROVE  A!Next \/ UNCHANGED <<Live(index), emptied>>
  <2> DEFINE i == SmallestHole(index, n)
  <2>1. /\ IF i = 0 THEN Panic("no hole") ELSE TakeFrom(i, 0, n)
        /\ UNCHANGED emptied
    BY <1>3 DEF Alloc
  <2>2. i = 0 \/ (i \in DOMAIN index /\ index[i].isHole /\ index[i].size >= n)
    BY <1>1, HoleIs
  <2> HIDE DEF i
  <2>3. CASE i = 0
    BY <1>2, <2>1, <2>3
  <2>4. CASE i # 0
    <3>1. i \in DOMAIN index /\ index[i].isHole /\ index[i].size \in Nat /\ n \in Nat
      BY <1>1, <2>2, <2>4, EntryIs, ConstantsAreNaturals
    <3>2. 0 \in Nat /\ 0 + n <= index[i].size
      BY <2>2, <2>4, <3>1
    <3>3. TakeFrom(i, 0, n)
      BY <2>1, <2>4
    <3> QED BY <2>1, <3>1, <3>2, <3>3, TakeAllocates
  <2> QED BY <2>3, <2>4
<1>4. ASSUME NEW n \in Sizes, AllocAligned(n)
      PROVE  A!Next \/ UNCHANGED <<Live(index), emptied>>
  <2> DEFINE i == SmallestAlignedHole(index, n)
             skip == Offset(index[i])
  <2>1. /\ IF i = 0 THEN Panic("no hole") ELSE TakeFrom(i, skip, n)
        /\ UNCHANGED emptied
    BY <1>4 DEF AllocAligned
  <2>2. i = 0 \/ (i \in DOMAIN index /\ index[i].isHole /\ index[i].size >= n + skip)
    BY <1>1, AlignedHoleIs
  <2> HIDE DEF i, skip
  <2>3. CASE i = 0
    BY <1>2, <2>1, <2>3
  <2>4. CASE i # 0
    <3>1. /\ i \in DOMAIN index /\ index[i].isHole /\ index[i].size \in Nat
          /\ n \in Nat /\ index[i] \in Entries
      BY <1>1, <2>2, <2>4, EntryIs, ConstantsAreNaturals
    <3>2. skip \in Nat
      BY <3>1, OffsetIs DEF skip
    <3>3. skip + n <= index[i].size
      BY <2>2, <2>4, <3>1, <3>2
    <3>4. TakeFrom(i, skip, n)
      BY <2>1, <2>4
    <3> QED BY <2>1, <3>1, <3>2, <3>3, <3>4, TakeAllocates
  <2> QED BY <2>3, <2>4
<1>5. ASSUME NEW a \in First .. End, Free(a)
      PROVE  A!Next \/ UNCHANGED <<Live(index), emptied>>
  BY <1>5, FreeFrees
<1>6. CASE UNCHANGED heapVars
  BY <1>6 DEF heapVars, Live
<1>7. CASE Halted
  BY <1>6, <1>7 DEF Halted
<1> QED BY <1>3, <1>4, <1>5, <1>6, <1>7 DEF HeapNext

\* The heap implements Allocator: its allocations are disjoint ranges of the heap
\* that nothing but free takes back, until an empty one is freed (Heap.cpp:40-148).
THEOREM HeapImplementsAllocator == HeapSpec => HeapAllocates
<1>1. HeapInit => A!Init
  BY DEF HeapInit, A!Init, Entry
<1>2. HeapInv /\ [HeapNext]_heapVars => [A!Next]_<<Live(index), emptied>>
  BY NextAllocates
<1>3. HeapInv /\ [HeapNext]_heapVars =>
        [A!Next]_<<{[start |-> index[i].start, size |-> index[i].size] :
                     i \in {j \in DOMAIN index : ~index[j].isHole}}, emptied>>
  BY <1>2 DEF Live
<1> QED BY <1>1, <1>3, HeapKeepsInv, PTL DEF HeapSpec, HeapAllocates, A!Spec
=============================================================================
