-------------------------- MODULE Services_proofs ---------------------------
(***************************************************************************)
(* The services answer each request, and what it asked: Services keeps its *)
(* inductive invariant ServicesInv for any drivers, programs, functions on *)
(* the PCI bus and any number of commands, and with it has the safety      *)
(* properties of ServicesProperties.                                       *)
(*                                                                         *)
(* A request of a program is in one place: in the queue of the server, on  *)
(* its list of those who await something, among what it has still to       *)
(* answer, or answered in the queue of the program (Placed).  That is said *)
(* of sets of messages, and proved once for each way in which a message    *)
(* moves.  Scripts are sound (Sound): each call of a script relies on what *)
(* is known when the script begins or on what an earlier call of it gives, *)
(* such as that a root is mounted, once AWAIT_ROOT is answered; so what a  *)
(* call relies on is known when it is made.  Whole scripts are put         *)
(* together from parts that are sound.                                     *)
(***************************************************************************)
EXTENDS ServicesProperties, SequenceLemmas

-----------------------------------------------------------------------------
(* What there is in scripts and queues.                                    *)

\* What a request may ask, and what may be told.
AskOps == FileOps \cup {"AWAIT_ROOT", "ROOT", "REGISTER_DRIVER", "MOUNT_ROOT", "MBR_READ",
                        "DEVICE_CONFIG", "AWAIT_DRIVERS_UP", "SET_BAR4"}
ToldOps == {"DMA_UP", "SHUTDOWN"}

\* The requests whose answer is in what they ask for.
ArgOps == FileOps \cup {"MBR_READ", "DEVICE_CONFIG"}

\* What requests and answers carry.
Args == {"", "boot record", "fat", "its driver", "piix3", "driver", "sys", "drivers", "entry",
         "end"} \cup Procs \cup {DriverFiles[i] : i \in DOMAIN DriverFiles} \cup Int
Data == [op : AskOps \cup ToldOps, arg : Args]
Message == [id : Nat, from : Procs, reply_to : Nat, data : Data]

Calls ==
  [do : {"ask"}, to : Procs, op : AskOps, arg : Args]
    \cup [do : {"tell"}, to : Procs, op : ToldOps]
    \cup [do : {"lookup", "register"}, name : Procs]
    \cup [do : {"begin", "wait"}, pid : Procs]
    \cup [do : {"reply"}, request : Message, arg : Args]
    \cup [do : {"pass"}, request : Message]

IsAnswer(c) == c.do \in {"reply", "pass"}

\* Whom each process asks for what.
MayAsk(p, to, op) ==
  \/ p = "vfs" /\ to = "fat" /\ op \in FileOps
  \/ p = "fat" /\ to = "ata" /\ op = "MBR_READ"
  \/ p = "fat" /\ to = "vfs" /\ op \in {"REGISTER_DRIVER", "MOUNT_ROOT"}
  \/ p \notin {"ata", "fat", "vfs"} /\ to = "vfs" /\ op \in FileOps \cup {"AWAIT_ROOT", "ROOT"}
  \/ p \notin {"ata", "fat", "vfs", "pci"} /\ to = "pci"
       /\ op \in {"DEVICE_CONFIG", "AWAIT_DRIVERS_UP"}
  \/ p \notin {"ata", "fat", "vfs", "pci"} /\ to = "ata" /\ op = "SET_BAR4"

MayTell(to, op) ==
  \/ to = "pci" /\ op = "DMA_UP"
  \/ to = "acpi" /\ op = "SHUTDOWN"

\* Whom each process answers what.
MayAnswer(p, r, arg) ==
  /\ p \in {"ata", "fat", "vfs", "pci"}
  /\ r.data.op \in ArgOps => arg = r.data.arg
  /\ r.data.op = "REGISTER_DRIVER" => arg = 1

MayDo(p, c) ==
  /\ c.do = "ask" => MayAsk(p, c.to, c.op)
  /\ c.do = "tell" => MayTell(c.to, c.op)
  /\ c.do = "reply" => MayAnswer(p, c.request, c.arg)
  /\ c.do = "pass" => p \in {"fat", "vfs"} /\ c.request.data.op \in FileOps

\* What a call takes for granted: that a server runs, that a root is mounted, that
\* fat is registered; and what one knows after a call.
Mounted == "a root is mounted"
Registered == "fat is registered"

GivenBy(op) ==
  IF op = "AWAIT_ROOT" THEN {Mounted}
  ELSE IF op = "REGISTER_DRIVER" THEN {Registered} ELSE {}

TakenBy(op) ==
  IF op \in FileOps THEN {Mounted} ELSE IF op = "MOUNT_ROOT" THEN {Registered} ELSE {}

Needs(c) ==
  IF c.do = "ask" THEN {c.to} \cup TakenBy(c.op)
  ELSE IF c.do = "tell" THEN {c.to}
  ELSE IF IsAnswer(c) THEN GivenBy(c.request.data.op) \cup (TakenBy(c.request.data.op) \cap {Mounted})
  ELSE {}

Gives(c) ==
  IF c.do = "ask" THEN GivenBy(c.op)
  ELSE IF c.do = "lookup" THEN {c.name} \cap Residents
  ELSE IF c.do = "begin" THEN {c.pid} \cap Residents
  ELSE {}

Known == (alive \cap Residents) \cup (IF root # NoRoot THEN {Mounted} ELSE {})
           \cup (IF drivers # <<"vfs">> THEN {Registered} ELSE {})

\* s gives x before its position n.
GivesBefore(s, n, x) == \E j \in DOMAIN s : j < n /\ x \in Gives(s[j])

\* A script of p each of whose calls has what it needs, when K is known.
Sound(p, s, K) ==
  /\ s \in Seq(Calls)
  /\ \A i \in DOMAIN s :
       /\ MayDo(p, s[i])
       /\ \A x \in Needs(s[i]) : x \in K \/ GivesBefore(s, i, x)

\* Each request that s answers, it answers once.
AnswersDiffer(s) ==
  \A i, j \in DOMAIN s :
    IsAnswer(s[i]) /\ IsAnswer(s[j]) /\ s[i].request.id = s[j].request.id => i = j

\* An answer that is passed on is the one the call before it asks for.
PassesFit(s, a) ==
  \A i \in DOMAIN s : s[i].do = "pass" =>
    \/ i = 1 /\ a = s[i].request.data.arg
    \/ i = 2 /\ s[1].do = "ask" /\ s[1].op \in ArgOps /\ s[1].arg = s[i].request.data.arg

NoPass(s) == \A i \in DOMAIN s : s[i].do # "pass"

OwedIn(s) == {s[i].request : i \in {j \in DOMAIN s : IsAnswer(s[j])}}
In(s) == {s[i] : i \in DOMAIN s}
IdsDiffer(s) == \A i, j \in DOMAIN s : s[i].id = s[j].id => i = j

-----------------------------------------------------------------------------
(* Where requests are.                                                     *)

Held == [p \in Procs |-> In(queue[p])]
Listed == [p \in Procs |-> IF p \in {"vfs", "pci"} THEN In(awaiting[p]) ELSE {}]
Owed == [p \in Procs |-> OwedIn(script[p])]
Asking == [p \in Procs |-> IF script[p] = <<>> THEN NoCall ELSE Head(script[p])]

\* x fits what c asks.
Fits(x, c) ==
  /\ x.op = c.op
  /\ c.op \in ArgOps => x.arg = c.arg

\* The one who sent r waits for s to answer it.
Pends(s, r, ask, c) ==
  /\ r.reply_to = 0 /\ r.id # 0
  /\ ask[r.from] = r.id
  /\ c[r.from].to = s
  /\ Fits(r.data, c[r.from])

IsRequest(x) == x.reply_to = 0 /\ x.data.op \notin ToldOps

ServersAreAsked(ask, c) == \A p \in Procs : ask[p] # 0 => c[p].to \in Procs

IdsAreOld(H, n, ask) ==
  /\ \A p \in Procs : \A x \in H[p] : 0 < x.id /\ x.id <= n
  /\ \A p \in Procs : ask[p] <= n
  /\ \A p, q \in Procs : ask[p] = ask[q] /\ ask[p] # 0 => p = q

RequestsPend(H, ask, c) ==
  \A s \in Procs : \A x \in H[s] : IsRequest(x) => Pends(s, x, ask, c)

ListedPend(H, W, ask, c) ==
  \A s \in Procs : \A x \in W[s] :
    Pends(s, x, ask, c) /\ \A z \in H[s] : z.id # x.id

OwedPend(H, W, R, ask, c) ==
  \A s \in Procs : \A x \in R[s] :
    /\ Pends(s, x, ask, c)
    /\ \A z \in H[s] : z.id # x.id
    /\ \A z \in W[s] : z.id # x.id

AnswersPend(H, W, R, ask, c) ==
  \A p \in Procs : \A y \in H[p] : y.reply_to # 0 =>
    /\ ask[p] = y.reply_to
    /\ Fits(y.data, c[p])
    /\ \A z \in H[p] : z.reply_to = y.reply_to => z = y
    /\ \A z \in H[c[p].to] \cup W[c[p].to] \cup R[c[p].to] : z.id # y.reply_to

AskedAreSomewhere(H, W, R, ask, c) ==
  \A p \in Procs : ask[p] # 0 =>
    \/ \E x \in H[c[p].to] : IsRequest(x) /\ x.id = ask[p] /\ x.from = p
    \/ \E x \in W[c[p].to] : x.id = ask[p] /\ x.from = p
    \/ \E x \in R[c[p].to] : x.id = ask[p] /\ x.from = p
    \/ \E y \in H[p] : y.reply_to = ask[p]

Placed(H, W, R, n, ask, c) ==
  /\ ServersAreAsked(ask, c)
  /\ IdsAreOld(H, n, ask)
  /\ RequestsPend(H, ask, c)
  /\ ListedPend(H, W, ask, c)
  /\ OwedPend(H, W, R, ask, c)
  /\ AnswersPend(H, W, R, ask, c)
  /\ AskedAreSomewhere(H, W, R, ask, c)

-----------------------------------------------------------------------------
Typed ==
  /\ queue \in [Procs -> Seq(Message)]
  /\ lastMsgId \in Nat
  /\ Booted \ {"init"} \subseteq alive /\ names \subseteq alive /\ alive \subseteq Procs
  /\ asked \in [Procs -> Nat]
  /\ answer \in [Procs -> Data \cup {NoAnswer}]
  /\ drivers \in {<<"vfs">>, <<"vfs", "fat">>}
  /\ root \in {NoRoot, 1}
  /\ nonHdsUp \in BOOLEAN
  /\ awaiting \in [{"vfs", "pci"} -> Seq(Message)]

ScriptsAreSound ==
  /\ script \in [Procs -> Seq(Calls)]
  /\ \A p \in Procs : /\ Sound(p, script[p], Known)
                      /\ AnswersDiffer(script[p])
                      /\ PassesFit(script[p], answer[p].arg)

AskersAsk ==
  \A p \in Procs : asked[p] # 0 => p \in alive /\ script[p] # <<>> /\ Head(script[p]).do = "ask"

\* What is in a queue went by what its sender knew.
SoundMessage(p, x, K) ==
  /\ x.data.op \in FileOps => Mounted \in K
  /\ x.reply_to # 0 => GivenBy(x.data.op) \subseteq K
  /\ x.reply_to # 0 /\ x.data.op = "REGISTER_DRIVER" => x.data.arg = 1
  /\ x.reply_to = 0 /\ x.data.op = "DMA_UP" => p = "pci"
  /\ x.reply_to = 0 /\ x.data.op = "SHUTDOWN" => p = "acpi"

MessagesAreSound == \A p \in Procs : \A x \in Held[p] : SoundMessage(p, x, Known)

ListsAreSound ==
  /\ IdsDiffer(awaiting["vfs"]) /\ IdsDiffer(awaiting["pci"])
  /\ \A x \in Listed["vfs"] : x.data.op = "AWAIT_ROOT" /\ root = NoRoot
  /\ \A x \in Listed["pci"] : x.data.op = "AWAIT_DRIVERS_UP" /\ ~nonHdsUp

\* Those that ask vfs for files each time they take a message or a command.
ServersKnow ==
  \A p \in {"pci", "sh"} :
    Mounted \in Known \/ GivesBefore(script[p], Len(script[p]) + 1, Mounted)

\* How fat becomes the driver of vfs_root.
IsAsk(c, op) == c.do = "ask" /\ c.op = op
Registration(s) ==
  \A i \in DOMAIN s :
    /\ IsAsk(s[i], "REGISTER_DRIVER") => i + 1 = Len(s) /\ IsAsk(s[i + 1], "MOUNT_ROOT")
    /\ IsAsk(s[i], "MOUNT_ROOT") => i = Len(s) /\ (i > 1 => IsAsk(s[i - 1], "REGISTER_DRIVER"))

\* fat has still to send a request.
HasToAsk(op) ==
  \E i \in DOMAIN script["fat"] :
    IsAsk(script["fat"][i], op) /\ ~(i = 1 /\ asked["fat"] # 0)

Mounting ==
  /\ Registration(script["fat"])
  /\ root # NoRoot => drivers # <<"vfs">>
  /\ HasToAsk("REGISTER_DRIVER") => drivers = <<"vfs">>
  /\ HasToAsk("MOUNT_ROOT") => root = NoRoot
  /\ script["fat"] # <<>> /\ IsAsk(script["fat"][1], "MOUNT_ROOT") /\ asked["fat"] = 0 =>
       answer["fat"].arg = 1
  /\ \A x \in Held["vfs"] : IsRequest(x) =>
       /\ x.data.op = "REGISTER_DRIVER" => drivers = <<"vfs">>
       /\ x.data.op = "MOUNT_ROOT" => x.data.arg = 1 /\ drivers # <<"vfs">> /\ root = NoRoot

ServicesInv ==
  /\ Typed
  /\ ScriptsAreSound
  /\ AskersAsk
  /\ \A p \in Procs : IdsDiffer(queue[p])
  /\ Placed(Held, Listed, Owed, lastMsgId, asked, Asking)
  /\ MessagesAreSound
  /\ ListsAreSound
  /\ ServersKnow
  /\ Mounting

-----------------------------------------------------------------------------
(* Calls and scripts.                                                      *)

LEMMA CallKinds ==
  ASSUME NEW c \in Calls
  PROVE  /\ c.do = "ask" => c.to \in Procs /\ c.op \in AskOps /\ c.arg \in Args
         /\ c.do = "tell" => c.to \in Procs /\ c.op \in ToldOps
         /\ c.do \in {"lookup", "register"} => c.name \in Procs
         /\ c.do \in {"begin", "wait"} => c.pid \in Procs
         /\ IsAnswer(c) => c.request \in Message
         /\ c.do = "reply" => c.arg \in Args
  BY DEF Calls, IsAnswer

LEMMA ServiceNames ==
  /\ Services = {"ata", "fat", "vfs", "init", "acpi", "pci", "keyboard", "sh"}
  /\ Services \subseteq Procs /\ Drivers \subseteq Procs /\ Programs \subseteq Procs
  BY DEF Services, Booted, Procs

LEMMA AskIsCall ==
  ASSUME NEW q \in Procs, NEW op \in AskOps, NEW arg \in Args
  PROVE  Ask(q, op, arg) \in Calls
  BY DEF Ask, Calls

LEMMA ReplyIsCall ==
  ASSUME NEW r \in Message, NEW arg \in Args
  PROVE  Reply(r, arg) \in Calls /\ Pass(r) \in Calls
  BY DEF Reply, Pass, Calls

LEMMA SoundOne ==
  ASSUME NEW p, NEW c \in Calls, NEW K, MayDo(p, c), Needs(c) \subseteq K
  PROVE  Sound(p, <<c>>, K)
  BY DEF Sound

LEMMA SoundEmpty ==
  ASSUME NEW p, NEW K
  PROVE  Sound(p, <<>>, K)
  BY DEF Sound

\* What is known when b begins is known before or given by a.
LEMMA SoundConcat ==
  ASSUME NEW p, NEW a, NEW b, NEW K, NEW L, Sound(p, a, K), Sound(p, b, L),
         \A x \in L : x \in K \/ GivesBefore(a, Len(a) + 1, x)
  PROVE  Sound(p, a \o b, K)
<1> DEFINE u == a \o b
<1>1. a \in Seq(Calls) /\ b \in Seq(Calls)
  BY DEF Sound
<1>2. /\ u \in Seq(Calls) /\ Len(u) = Len(a) + Len(b)
      /\ \A i \in 1 .. Len(a) : u[i] = a[i]
      /\ \A i \in 1 .. Len(b) : u[Len(a) + i] = b[i]
  BY <1>1, ConcatAt
<1> HIDE DEF u
<1>3. ASSUME NEW i \in DOMAIN a
      PROVE  MayDo(p, u[i]) /\ \A x \in Needs(u[i]) : x \in K \/ GivesBefore(u, i, x)
  <2>1. u[i] = a[i] /\ i \in Nat
    BY <1>1, <1>2
  <2>2. ASSUME NEW x, GivesBefore(a, i, x) PROVE GivesBefore(u, i, x)
    <3>1. PICK j \in DOMAIN a : j < i /\ x \in Gives(a[j])
      BY <2>2 DEF GivesBefore
    <3>2. j \in DOMAIN u /\ u[j] = a[j]
      BY <1>1, <1>2, SMTT(30)
    <3> QED BY <3>1, <3>2 DEF GivesBefore
  <2> QED BY <2>1, <2>2 DEF Sound
<1>4. ASSUME NEW k \in DOMAIN b
      PROVE  /\ MayDo(p, u[Len(a) + k])
             /\ \A x \in Needs(u[Len(a) + k]) : x \in K \/ GivesBefore(u, Len(a) + k, x)
  <2>1. u[Len(a) + k] = b[k] /\ k \in 1 .. Len(b) /\ Len(a) \in Nat
    BY <1>1, <1>2
  <2>2. ASSUME NEW x, GivesBefore(b, k, x) PROVE GivesBefore(u, Len(a) + k, x)
    <3>1. PICK j \in DOMAIN b : j < k /\ x \in Gives(b[j])
      BY <2>2 DEF GivesBefore
    <3>2. Len(a) + j \in DOMAIN u /\ u[Len(a) + j] = b[j] /\ Len(a) + j < Len(a) + k
      BY <1>1, <1>2, <2>1, <3>1
    <3> QED BY <3>1, <3>2 DEF GivesBefore
  <2>3. ASSUME NEW x, GivesBefore(a, Len(a) + 1, x) PROVE GivesBefore(u, Len(a) + k, x)
    <3>1. PICK j \in DOMAIN a : x \in Gives(a[j])
      BY <2>3 DEF GivesBefore
    <3>2. j \in DOMAIN u /\ u[j] = a[j] /\ j < Len(a) + k
      BY <1>1, <1>2, <2>1, SMTT(30)
    <3> QED BY <3>1, <3>2 DEF GivesBefore
  <2> QED BY <2>1, <2>2, <2>3 DEF Sound
<1>5. ASSUME NEW i \in DOMAIN u
      PROVE  MayDo(p, u[i]) /\ \A x \in Needs(u[i]) : x \in K \/ GivesBefore(u, i, x)
  <2>1. CASE i \in DOMAIN a
    BY <1>3, <2>1
  <2>2. CASE i \notin DOMAIN a
    <3>1. i - Len(a) \in DOMAIN b /\ Len(a) + (i - Len(a)) = i
      BY <1>1, <1>2, <2>2
    <3>2. /\ MayDo(p, u[Len(a) + (i - Len(a))])
          /\ \A x \in Needs(u[Len(a) + (i - Len(a))]) :
               x \in K \/ GivesBefore(u, Len(a) + (i - Len(a)), x)
      BY <1>4, <3>1
    <3> QED BY <3>1, <3>2
  <2> QED BY <2>1, <2>2
<1> QED BY <1>2, <1>5 DEF Sound, u

\* What a or b gives, a \o b gives.
LEMMA GivesConcat ==
  ASSUME NEW a \in Seq(Calls), NEW b \in Seq(Calls), NEW x,
         GivesBefore(a, Len(a) + 1, x) \/ GivesBefore(b, Len(b) + 1, x)
  PROVE  GivesBefore(a \o b, Len(a \o b) + 1, x)
<1> DEFINE u == a \o b
<1>1. /\ u \in Seq(Calls) /\ Len(u) = Len(a) + Len(b)
      /\ \A i \in 1 .. Len(a) : u[i] = a[i]
      /\ \A i \in 1 .. Len(b) : u[Len(a) + i] = b[i]
  BY ConcatAt
<1> HIDE DEF u
<1>2. CASE GivesBefore(a, Len(a) + 1, x)
  <2>1. PICK j \in DOMAIN a : x \in Gives(a[j])
    BY <1>2 DEF GivesBefore
  <2>2. j \in DOMAIN u /\ u[j] = a[j] /\ j < Len(u) + 1
    BY <1>1
  <2> QED BY <2>1, <2>2 DEF GivesBefore, u
<1>3. CASE GivesBefore(b, Len(b) + 1, x)
  <2>1. PICK j \in DOMAIN b : x \in Gives(b[j])
    BY <1>3 DEF GivesBefore
  <2>2. Len(a) \in Nat /\ Len(b) \in Nat /\ j \in 1 .. Len(b)
    OBVIOUS
  <2>3. Len(a) + j \in 1 .. Len(u) /\ u[Len(a) + j] = b[j]
    BY <1>1, <2>2
  <2>4. Len(a) + j \in DOMAIN u /\ Len(a) + j < Len(u) + 1
    BY <1>1, <2>3
  <2> QED BY <2>1, <2>3, <2>4 DEF GivesBefore, u
<1> QED BY <1>2, <1>3

LEMMA GivesOne ==
  ASSUME NEW c, NEW x \in Gives(c)
  PROVE  GivesBefore(<<c>>, Len(<<c>>) + 1, x)
  BY DEF GivesBefore

LEMMA SoundMore ==
  ASSUME NEW p, NEW s, NEW K, NEW L, Sound(p, s, K), K \subseteq L
  PROVE  Sound(p, s, L)
  BY DEF Sound

LEMMA TailAt ==
  ASSUME NEW S, NEW s \in Seq(S), s # <<>>
  PROVE  /\ Tail(s) \in Seq(S) /\ Len(Tail(s)) = Len(s) - 1 /\ Len(s) \in Nat \ {0}
         /\ \A i \in DOMAIN Tail(s) : i \in Nat /\ i + 1 \in DOMAIN s /\ Tail(s)[i] = s[i + 1]
         /\ \A i \in DOMAIN s : i \in Nat /\ (i > 1 => i - 1 \in DOMAIN Tail(s) /\ Tail(s)[i - 1] = s[i])
         /\ 1 \in DOMAIN s /\ Head(s) = s[1] /\ Head(s) \in S
  OBVIOUS

\* Once its first call is done, the rest of a script is sound.
LEMMA SoundTail ==
  ASSUME NEW p, NEW s, NEW K, NEW L, Sound(p, s, K), s # <<>>,
         K \subseteq L, Gives(Head(s)) \subseteq L
  PROVE  Sound(p, Tail(s), L)
<1> DEFINE t == Tail(s)
<1>1. s \in Seq(Calls)
  BY DEF Sound
<1>2. /\ t \in Seq(Calls) /\ Head(s) = s[1]
      /\ \A i \in DOMAIN t : i \in Nat /\ i + 1 \in DOMAIN s /\ t[i] = s[i + 1]
      /\ \A i \in DOMAIN s : i \in Nat /\ (i > 1 => i - 1 \in DOMAIN t /\ t[i - 1] = s[i])
  BY <1>1, TailAt
<1> HIDE DEF t
<1>3. ASSUME NEW i \in DOMAIN t, NEW x \in Needs(t[i])
      PROVE  x \in L \/ GivesBefore(t, i, x)
  <2>1. i \in Nat /\ i + 1 \in DOMAIN s /\ t[i] = s[i + 1]
    BY <1>2
  <2>2. CASE x \in K
    BY <2>2
  <2>3. CASE GivesBefore(s, i + 1, x)
    <3>1. PICK j \in DOMAIN s : j < i + 1 /\ x \in Gives(s[j])
      BY <2>3 DEF GivesBefore
    <3>2. CASE j = 1
      BY <1>2, <3>1, <3>2
    <3>3. CASE j > 1
      <4>1. j - 1 \in DOMAIN t /\ t[j - 1] = s[j] /\ j - 1 < i
        BY <1>2, <2>1, <3>1, <3>3
      <4> QED BY <3>1, <4>1 DEF GivesBefore
    <3>4. j = 1 \/ j > 1
      BY <1>1
    <3> QED BY <3>2, <3>3, <3>4
  <2> QED BY <2>1, <2>2, <2>3 DEF Sound
<1>4. ASSUME NEW i \in DOMAIN t PROVE MayDo(p, t[i])
  BY <1>2 DEF Sound
<1> QED BY <1>2, <1>3, <1>4 DEF Sound, t

-----------------------------------------------------------------------------
(* The scripts of clients.                                                 *)

\* A script that answers nobody.
Client(p, s, K) == Sound(p, s, K) /\ \A i \in DOMAIN s : ~IsAnswer(s[i])

LEMMA ClientOne ==
  ASSUME NEW p, NEW c \in Calls, NEW K, MayDo(p, c), Needs(c) \subseteq K, ~IsAnswer(c)
  PROVE  Client(p, <<c>>, K)
<1>1. Sound(p, <<c>>, K)
  BY SoundOne
<1> QED BY <1>1 DEF Client

LEMMA ClientEmpty ==
  ASSUME NEW p, NEW K
  PROVE  Client(p, <<>>, K)
  BY SoundEmpty DEF Client

LEMMA ClientConcat ==
  ASSUME NEW p, NEW a, NEW b, NEW K, NEW L, Client(p, a, K), Client(p, b, L),
         \A x \in L : x \in K \/ GivesBefore(a, Len(a) + 1, x)
  PROVE  Client(p, a \o b, K)
<1> DEFINE u == a \o b
<1>1. Sound(p, u, K)
  BY SoundConcat DEF Client
<1>2. a \in Seq(Calls) /\ b \in Seq(Calls)
  BY DEF Client, Sound
<1>3. /\ u \in Seq(Calls) /\ Len(u) = Len(a) + Len(b)
      /\ \A i \in 1 .. Len(a) : u[i] = a[i]
      /\ \A i \in 1 .. Len(b) : u[Len(a) + i] = b[i]
  BY <1>2, ConcatAt
<1> HIDE DEF u
<1>4. ASSUME NEW i \in DOMAIN u PROVE ~IsAnswer(u[i])
  <2>1. CASE i \in DOMAIN a
    BY <1>2, <1>3, <2>1 DEF Client
  <2>2. CASE i \notin DOMAIN a
    <3>1. i - Len(a) \in DOMAIN b /\ Len(a) + (i - Len(a)) = i
      BY <1>2, <1>3, <2>2
    <3>2. u[Len(a) + (i - Len(a))] = b[i - Len(a)]
      BY <1>2, <1>3, <3>1, SMTT(30)
    <3> QED BY <3>1, <3>2 DEF Client
  <2> QED BY <2>1, <2>2
<1> QED BY <1>1, <1>4 DEF Client, u

\* The usual case: b needs no more than is known before a.
LEMMA ClientBoth ==
  ASSUME NEW p, NEW a, NEW b, NEW K, Client(p, a, K), Client(p, b, K)
  PROVE  Client(p, a \o b, K)
  BY ClientConcat

LEMMA ClientMore ==
  ASSUME NEW p, NEW s, NEW K, NEW L, Client(p, s, K), K \subseteq L
  PROVE  Client(p, s, L)
  BY SoundMore DEF Client

LEMMA ClientIsSeq ==
  ASSUME NEW p, NEW s, NEW K, Client(p, s, K)
  PROVE  s \in Seq(Calls)
  BY DEF Client, Sound

\* A process that uses files.
FileUser(p) == p \notin {"ata", "fat", "vfs"}

LEMMA FsIsClient ==
  ASSUME NEW p, FileUser(p), NEW op \in FileOps, NEW arg \in Args, NEW K,
         "vfs" \in K, Mounted \in K
  PROVE  /\ Fs(op, arg) \in Calls /\ MayDo(p, Fs(op, arg))
         /\ Needs(Fs(op, arg)) \subseteq K /\ ~IsAnswer(Fs(op, arg))
<1> DEFINE c == Fs(op, arg)
<1>1. c.do = "ask" /\ c.to = "vfs" /\ c.op = op
  BY DEF Fs, Ask
<1>2. c \in Calls
  BY ServiceNames, AskIsCall DEF Fs, AskOps
<1> HIDE DEF c
<1>3. MayDo(p, c)
  BY <1>1 DEF MayDo, MayAsk, FileUser
<1>4. Needs(c) \subseteq K
  BY <1>1 DEF Needs, TakenBy, FileOps
<1>5. ~IsAnswer(c)
  BY <1>1 DEF IsAnswer
<1> QED BY <1>2, <1>3, <1>4, <1>5 DEF c

LEMMA FsInitIsClient ==
  ASSUME NEW p, FileUser(p), NEW K, "vfs" \in K
  PROVE  Client(p, FsInit, K) /\ GivesBefore(FsInit, Len(FsInit) + 1, Mounted)
<1> DEFINE a == Fs("AWAIT_ROOT", "")
           b == Fs("ROOT", "")
<1>1. /\ a.do = "ask" /\ a.to = "vfs" /\ a.op = "AWAIT_ROOT"
      /\ b.do = "ask" /\ b.to = "vfs" /\ b.op = "ROOT"
  BY DEF Fs, Ask
<1>2. a \in Calls /\ b \in Calls
  <2>1. "AWAIT_ROOT" \in AskOps /\ "ROOT" \in AskOps
    BY DEF AskOps
  <2>2. "" \in Args
    BY DEF Args
  <2> QED BY <2>1, <2>2, ServiceNames, AskIsCall DEF Fs
<1>3. FsInit = <<a, b>>
  BY DEF FsInit
<1> HIDE DEF a, b
<1>4. MayDo(p, a) /\ MayDo(p, b)
  BY <1>1 DEF MayDo, MayAsk, FileUser
<1>5. Needs(a) \subseteq K /\ Needs(b) \subseteq K /\ Mounted \in Gives(a)
  BY <1>1 DEF Needs, TakenBy, FileOps, Gives, GivenBy
<1>6. ~IsAnswer(a) /\ ~IsAnswer(b)
  BY <1>1 DEF IsAnswer
<1>7. Sound(p, FsInit, K)
  BY <1>2, <1>3, <1>4, <1>5 DEF Sound
<1> QED BY <1>3, <1>5, <1>6, <1>7 DEF Client, GivesBefore

LEMMA ResolvePathIsClient ==
  ASSUME NEW p, FileUser(p), NEW path \in Seq(Args), NEW K, "vfs" \in K, Mounted \in K
  PROVE  Client(p, ResolvePath(path), K)
<1> DEFINE s == ResolvePath(path)
<1>1. DOMAIN s = 1 .. Len(path) /\ Len(path) \in Nat
      /\ \A i \in 1 .. Len(path) : s[i] = Fs("FINDDIR", path[i]) /\ path[i] \in Args
  BY DEF ResolvePath
<1>2. \A i \in 1 .. Len(path) :
        s[i] \in Calls /\ MayDo(p, s[i]) /\ Needs(s[i]) \subseteq K /\ ~IsAnswer(s[i])
  <2>1. "FINDDIR" \in FileOps
    BY DEF FileOps
  <2> QED BY <1>1, <2>1, FsIsClient
<1>3. s \in Seq(Calls)
  <2>1. s = [i \in 1 .. Len(path) |-> s[i]]
    BY <1>1 DEF ResolvePath
  <2> HIDE DEF s
  <2>2. [i \in 1 .. Len(path) |-> s[i]] \in Seq(Calls)
    BY <1>1, <1>2
  <2> QED BY <2>1, <2>2
<1> HIDE DEF s
<1> QED BY <1>1, <1>2, <1>3 DEF Sound, Client, s

LEMMA FsOneIsClient ==
  ASSUME NEW p, FileUser(p), NEW op \in FileOps, NEW arg \in Args, NEW K,
         "vfs" \in K, Mounted \in K
  PROVE  Client(p, <<Fs(op, arg)>>, K)
<1>1. /\ Fs(op, arg) \in Calls /\ MayDo(p, Fs(op, arg))
      /\ Needs(Fs(op, arg)) \subseteq K /\ ~IsAnswer(Fs(op, arg))
  BY FsIsClient
<1> QED BY <1>1, ClientOne

LEMMA BeginIsClient ==
  ASSUME NEW p, NEW q \in Procs, NEW K
  PROVE  /\ Client(p, <<Begin(q)>>, K)
         /\ q \in Residents => GivesBefore(<<Begin(q)>>, Len(<<Begin(q)>>) + 1, q)
<1> DEFINE c == Begin(q)
<1>1. c.do = "begin" /\ c.pid = q /\ c \in Calls
  BY DEF Begin, Calls
<1> HIDE DEF c
<1>2. MayDo(p, c) /\ Needs(c) = {} /\ ~IsAnswer(c) /\ Gives(c) = {q} \cap Residents
  BY <1>1 DEF MayDo, Needs, IsAnswer, Gives
<1>3. Client(p, <<c>>, K)
  BY <1>1, <1>2, ClientOne
<1>4. q \in Residents => GivesBefore(<<c>>, Len(<<c>>) + 1, q)
  BY <1>2, GivesOne
<1> QED BY <1>3, <1>4 DEF c

\* What a program does to start another from its image.
LEMMA BootstrapIsClient ==
  ASSUME NEW p, FileUser(p), NEW path \in Seq(Args), path # <<>>, Last(path) \in Procs,
         NEW K, "vfs" \in K, Mounted \in K
  PROVE  /\ Client(p, Bootstrap(path), K)
         /\ Last(path) \in Residents =>
              GivesBefore(Bootstrap(path), Len(Bootstrap(path)) + 1, Last(path))
<1> DEFINE a == FOpen(path)
           b == FRead(path)
           c == <<Begin(Last(path))>>
<1>1. Client(p, a, K)
  BY ResolvePathIsClient DEF FOpen
<1>2. Client(p, b, K)
  <2>1. Last(path) \in Args
    BY DEF Last
  <2>2. "READ" \in FileOps
    BY DEF FileOps
  <2> QED BY <2>1, <2>2, FsOneIsClient DEF FRead
<1>3. Client(p, c, K) /\ (Last(path) \in Residents => GivesBefore(c, Len(c) + 1, Last(path)))
  BY BeginIsClient
<1>4. Bootstrap(path) = (a \o b) \o c
  BY DEF Bootstrap
<1> HIDE DEF a, b, c
<1>5. Client(p, a \o b, K)
  BY <1>1, <1>2, ClientBoth
<1>6. Client(p, (a \o b) \o c, K)
  BY <1>3, <1>5, ClientBoth
<1>7. Last(path) \in Residents =>
        GivesBefore((a \o b) \o c, Len((a \o b) \o c) + 1, Last(path))
  BY <1>3, <1>5, ClientIsSeq, GivesConcat
<1> QED BY <1>4, <1>6, <1>7

\* A script that needs K, and after which L is known.
Leads(p, s, K, L) ==
  /\ Client(p, s, K)
  /\ \A x \in L : x \in K \/ GivesBefore(s, Len(s) + 1, x)

LEMMA LeadsBoth ==
  ASSUME NEW p, NEW a, NEW b, NEW K, NEW L, NEW M, Leads(p, a, K, L), Leads(p, b, L, M)
  PROVE  Leads(p, a \o b, K, M)
<1>1. Client(p, a \o b, K)
  BY ClientConcat DEF Leads
<1>2. a \in Seq(Calls) /\ b \in Seq(Calls)
  BY ClientIsSeq DEF Leads
<1>3. ASSUME NEW x \in M PROVE x \in K \/ GivesBefore(a \o b, Len(a \o b) + 1, x)
  <2>1. x \in K \/ GivesBefore(a, Len(a) + 1, x) \/ GivesBefore(b, Len(b) + 1, x)
    BY DEF Leads
  <2> QED BY <1>2, <2>1, GivesConcat
<1> QED BY <1>1, <1>3 DEF Leads

LEMMA BootstrapLeads ==
  ASSUME NEW p, FileUser(p), NEW q \in Args \cap Procs, NEW K, "vfs" \in K, Mounted \in K
  PROVE  Leads(p, Bootstrap(<<q>>), K, K \cup ({q} \cap Residents))
<1> DEFINE path == <<q>>
<1>1. path \in Seq(Args) /\ path # <<>> /\ Last(path) = q /\ q \in Procs
  BY DEF Last
<1> HIDE DEF path
<1>2. /\ Client(p, Bootstrap(path), K)
      /\ q \in Residents => GivesBefore(Bootstrap(path), Len(Bootstrap(path)) + 1, q)
  BY <1>1, BootstrapIsClient
<1>3. \A x \in K \cup ({q} \cap Residents) :
        x \in K \/ GivesBefore(Bootstrap(path), Len(Bootstrap(path)) + 1, x)
  BY <1>2
<1>4. Leads(p, Bootstrap(path), K, K \cup ({q} \cap Residents))
  BY <1>2, <1>3, Zenon DEF Leads
<1> QED BY <1>4 DEF path

LEMMA FsInitLeads ==
  ASSUME NEW p, FileUser(p), NEW K, "vfs" \in K
  PROVE  Leads(p, FsInit, K, K \cup {Mounted})
<1>1. Client(p, FsInit, K) /\ GivesBefore(FsInit, Len(FsInit) + 1, Mounted)
  BY FsInitIsClient
<1>2. \A x \in K \cup {Mounted} : x \in K \/ GivesBefore(FsInit, Len(FsInit) + 1, x)
  BY <1>1
<1> QED BY <1>1, <1>2, Zenon DEF Leads

LEMMA ClientLeads ==
  ASSUME NEW p, NEW s, NEW K, Client(p, s, K)
  PROVE  Leads(p, s, K, K)
  BY DEF Leads

LEMMA RegisterIsClient ==
  ASSUME NEW p, NEW n \in Procs, NEW K
  PROVE  Client(p, <<Register(n)>>, K)
<1> DEFINE c == Register(n)
<1>1. c.do = "register" /\ c \in Calls
  BY DEF Register, Calls
<1> HIDE DEF c
<1>2. MayDo(p, c) /\ Needs(c) \subseteq K /\ ~IsAnswer(c)
  BY <1>1 DEF MayDo, Needs, IsAnswer
<1>3. Client(p, <<c>>, K)
  BY <1>1, <1>2, ClientOne
<1> QED BY <1>3 DEF c

\* init's requests to the root and to pci come when there is one.
LEMMA InitScriptIsClient ==
  ASSUME NEW K, "vfs" \in K
  PROVE  Client("init", InitScript, K)
<1> DEFINE p == "init"
           M == K \cup {Mounted}
           P == M \cup {"pci"}
           s1 == FsInit \o Bootstrap(<<"acpi">>)
           s2 == s1 \o <<Register("acpi")>>
           s3 == s2 \o Bootstrap(<<"pci">>)
           c1 == Register("pci")
           c2 == Ask("pci", "AWAIT_DRIVERS_UP", "")
           s4 == s3 \o <<c1, c2>>
           s5 == s4 \o Bootstrap(<<"keyboard">>)
           s6 == s5 \o <<Register("keyboard")>>
<1>1. /\ FileUser(p)
      /\ {"acpi", "pci", "keyboard", "sh"} \subseteq Args \cap Procs
  BY ServiceNames DEF FileUser, Args
<1>2. "vfs" \in M /\ Mounted \in M /\ "vfs" \in P /\ Mounted \in P /\ "pci" \in P
  OBVIOUS
<1>3. Leads(p, FsInit, K, M)
  BY <1>1, FsInitLeads
<1>4. InitScript = s6 \o Bootstrap(<<"sh">>)
  BY DEF InitScript
<1> HIDE DEF p
<1>5. ASSUME NEW L, "vfs" \in L, Mounted \in L, NEW q \in {"acpi", "pci", "keyboard", "sh"}
      PROVE  Leads(p, Bootstrap(<<q>>), L, L)
  <2>1. Leads(p, Bootstrap(<<q>>), L, L \cup ({q} \cap Residents))
    BY <1>1, <1>5, BootstrapLeads
  <2> QED BY <2>1 DEF Leads
<1>6. Leads(p, Bootstrap(<<"pci">>), M, P)
  <2>1. Leads(p, Bootstrap(<<"pci">>), M, M \cup ({"pci"} \cap Residents))
    BY <1>1, <1>2, BootstrapLeads
  <2>2. M \cup ({"pci"} \cap Residents) = P
    BY DEF Residents
  <2> QED BY <2>1, <2>2
<1>7. \A q \in {"acpi", "keyboard"} : \A L : Leads(p, <<Register(q)>>, L, L)
  BY <1>1, RegisterIsClient, ClientLeads
<1>8. Client(p, <<c1, c2>>, P)
  <2>1. c1.do = "register" /\ c1 \in Calls
    BY ServiceNames DEF Register, Calls
  <2>2. c2.do = "ask" /\ c2.to = "pci" /\ c2.op = "AWAIT_DRIVERS_UP"
    BY DEF Ask
  <2>3. c2 \in Calls
    <3>1. "AWAIT_DRIVERS_UP" \in AskOps /\ "" \in Args /\ "pci" \in Procs
      BY ServiceNames DEF AskOps, Args
    <3> QED BY <3>1, AskIsCall
  <2> HIDE DEF c1, c2
  <2>4. MayDo(p, c1) /\ Needs(c1) \subseteq P /\ ~IsAnswer(c1)
    BY <2>1 DEF MayDo, Needs, IsAnswer
  <2>5. MayDo(p, c2) /\ ~IsAnswer(c2)
    BY <2>2 DEF MayDo, MayAsk, IsAnswer, p
  <2>6. Needs(c2) \subseteq P
    BY <2>2 DEF Needs, TakenBy, FileOps
  <2>7. Sound(p, <<c1, c2>>, P)
    BY <2>1, <2>3, <2>4, <2>5, <2>6 DEF Sound
  <2> QED BY <2>4, <2>5, <2>7 DEF Client
<1>9. Leads(p, <<c1, c2>>, P, P)
  BY <1>8, ClientLeads
<1> HIDE DEF M, P, c1, c2
<1>10. Leads(p, s1, K, M)
  BY <1>2, <1>3, <1>5, LeadsBoth
<1> HIDE DEF s1
<1>11. Leads(p, s2, K, M)
  BY <1>7, <1>10, LeadsBoth
<1> HIDE DEF s2
<1>12. Leads(p, s3, K, P)
  BY <1>6, <1>11, LeadsBoth
<1> HIDE DEF s3
<1>13. Leads(p, s4, K, P)
  BY <1>9, <1>12, LeadsBoth
<1> HIDE DEF s4
<1>14. Leads(p, s5, K, P)
  BY <1>2, <1>5, <1>13, LeadsBoth
<1> HIDE DEF s5
<1>15. Leads(p, s6, K, P)
  BY <1>7, <1>14, LeadsBoth
<1> HIDE DEF s6
<1>16. Leads(p, s6 \o Bootstrap(<<"sh">>), K, P)
  BY <1>2, <1>5, <1>15, LeadsBoth
<1> QED BY <1>4, <1>16 DEF Leads, p

\* A process that uses pci or acpi once it has looked it up.
LEMMA LookupIsClient ==
  ASSUME NEW p, NEW n \in Procs, NEW K
  PROVE  /\ Lookup(n) \in Calls /\ MayDo(p, Lookup(n)) /\ Needs(Lookup(n)) = {}
         /\ ~IsAnswer(Lookup(n)) /\ Gives(Lookup(n)) = {n} \cap Residents
<1> DEFINE c == Lookup(n)
<1>1. c.do = "lookup" /\ c.name = n /\ c \in Calls
  BY DEF Lookup, Calls
<1> HIDE DEF c
<1>2. MayDo(p, c) /\ Needs(c) = {} /\ ~IsAnswer(c) /\ Gives(c) = {n} \cap Residents
  BY <1>1 DEF MayDo, Needs, IsAnswer, Gives
<1> QED BY <1>1, <1>2 DEF c

LEMMA LookupLeads ==
  ASSUME NEW p, NEW n \in Procs \cap Residents, NEW K
  PROVE  Leads(p, <<Lookup(n)>>, K, K \cup {n})
<1> DEFINE c == Lookup(n)
<1>1. c \in Calls /\ MayDo(p, c) /\ Needs(c) = {} /\ ~IsAnswer(c) /\ n \in Gives(c)
  BY LookupIsClient
<1> HIDE DEF c
<1>2. Client(p, <<c>>, K)
  BY <1>1, ClientOne
<1>3. \A x \in K \cup {n} : x \in K \/ GivesBefore(<<c>>, Len(<<c>>) + 1, x)
  BY <1>1, GivesOne
<1>4. Leads(p, <<c>>, K, K \cup {n})
  BY <1>2, <1>3, Zenon DEF Leads
<1> QED BY <1>4 DEF c

LEMMA AskIsClient ==
  ASSUME NEW p, NEW q \in Procs, NEW op \in AskOps, NEW arg \in Args, NEW K,
         MayAsk(p, q, op), q \in K, TakenBy(op) \subseteq K
  PROVE  Client(p, <<Ask(q, op, arg)>>, K)
<1> DEFINE c == Ask(q, op, arg)
<1>1. c.do = "ask" /\ c.to = q /\ c.op = op
  BY DEF Ask
<1>2. c \in Calls
  BY AskIsCall
<1> HIDE DEF c
<1>3. MayDo(p, c) /\ ~IsAnswer(c)
  BY <1>1 DEF MayDo, IsAnswer
<1>4. Needs(c) \subseteq K
  BY <1>1 DEF Needs
<1>5. Client(p, <<c>>, K)
  BY <1>2, <1>3, <1>4, ClientOne
<1> QED BY <1>5 DEF c

LEMMA TellIsClient ==
  ASSUME NEW p, NEW q \in Procs, NEW op \in ToldOps, NEW K, MayTell(q, op), q \in K
  PROVE  Client(p, <<Tell(q, op)>>, K)
<1> DEFINE c == Tell(q, op)
<1>1. c.do = "tell" /\ c.to = q /\ c.op = op /\ c \in Calls
  BY DEF Tell, Calls
<1> HIDE DEF c
<1>2. MayDo(p, c) /\ ~IsAnswer(c) /\ Needs(c) \subseteq K
  BY <1>1 DEF MayDo, IsAnswer, Needs
<1>3. Client(p, <<c>>, K)
  BY <1>1, <1>2, ClientOne
<1> QED BY <1>3 DEF c

\* fat takes the mount for granted only once it is registered.
LEMMA FatScriptIsClient ==
  ASSUME NEW K, "ata" \in K, "vfs" \in K
  PROVE  Client("fat", FatScript, K) /\ Registration(FatScript)
<1> DEFINE p == "fat"
           c1 == Lookup("ata")
           c2 == Ask("ata", "MBR_READ", "boot record")
           c3 == Ask("ata", "MBR_READ", "fat")
           c4 == Lookup("vfs")
           c5 == Ask("vfs", "REGISTER_DRIVER", "")
           c6 == Ask("vfs", "MOUNT_ROOT", "its driver")
           s == <<c1, c2, c3, c4, c5, c6>>
<1>1. /\ {"ata", "vfs"} \subseteq Procs
      /\ {"MBR_READ", "REGISTER_DRIVER", "MOUNT_ROOT"} \subseteq AskOps
      /\ {"boot record", "fat", "", "its driver"} \subseteq Args
  BY ServiceNames DEF AskOps, Args
<1>2. \A c \in {c1, c4} : c \in Calls /\ MayDo(p, c) /\ Needs(c) = {} /\ ~IsAnswer(c) /\ c.do = "lookup"
  <2>1. c1.do = "lookup" /\ c4.do = "lookup"
    BY DEF Lookup
  <2> QED BY <1>1, <2>1, LookupIsClient, ZenonT(40)
<1>3. /\ c2.do = "ask" /\ c2.to = "ata" /\ c2.op = "MBR_READ"
      /\ c3.do = "ask" /\ c3.to = "ata" /\ c3.op = "MBR_READ"
      /\ c5.do = "ask" /\ c5.to = "vfs" /\ c5.op = "REGISTER_DRIVER"
      /\ c6.do = "ask" /\ c6.to = "vfs" /\ c6.op = "MOUNT_ROOT"
  BY DEF Ask
<1>4. \A c \in {c2, c3, c5, c6} : c \in Calls
  BY <1>1, AskIsCall
<1>5. FatScript = s
  BY DEF FatScript
<1> HIDE DEF c1, c2, c3, c4, c5, c6
<1>6. \A c \in {c2, c3, c5, c6} : MayDo(p, c) /\ ~IsAnswer(c)
  BY <1>3 DEF MayDo, MayAsk, IsAnswer, p
<1>7. /\ Needs(c2) \subseteq K /\ Needs(c3) \subseteq K /\ Needs(c5) \subseteq K
      /\ Needs(c6) \subseteq K \cup {Registered} /\ Registered \in Gives(c5)
  BY <1>3 DEF Needs, TakenBy, FileOps, Gives, GivenBy
<1>8. /\ s \in Seq(Calls) /\ DOMAIN s = 1 .. 6
      /\ s[1] = c1 /\ s[2] = c2 /\ s[3] = c3 /\ s[4] = c4 /\ s[5] = c5 /\ s[6] = c6
  BY <1>2, <1>4
<1> HIDE DEF s
<1>9. GivesBefore(s, 6, Registered)
  BY <1>7, <1>8 DEF GivesBefore
<1>10. ASSUME NEW i \in DOMAIN s
       PROVE  /\ MayDo(p, s[i]) /\ ~IsAnswer(s[i])
              /\ \A x \in Needs(s[i]) : x \in K \/ GivesBefore(s, i, x)
  <2>1. CASE i \in {1, 4}
    BY <1>2, <1>8, <2>1
  <2>2. CASE i \in {2, 3, 5}
    BY <1>6, <1>7, <1>8, <2>2
  <2>3. CASE i = 6
    BY <1>6, <1>7, <1>8, <1>9, <2>3
  <2> QED BY <1>8, <2>1, <2>2, <2>3
<1>11. Client(p, s, K)
  BY <1>8, <1>10 DEF Client, Sound
<1>12. Len(s) = 6
  BY <1>8
<1>13. /\ ~IsAsk(c1, "REGISTER_DRIVER") /\ ~IsAsk(c1, "MOUNT_ROOT")
       /\ ~IsAsk(c2, "REGISTER_DRIVER") /\ ~IsAsk(c2, "MOUNT_ROOT")
       /\ ~IsAsk(c3, "REGISTER_DRIVER") /\ ~IsAsk(c3, "MOUNT_ROOT")
       /\ ~IsAsk(c4, "REGISTER_DRIVER") /\ ~IsAsk(c4, "MOUNT_ROOT")
       /\ IsAsk(c5, "REGISTER_DRIVER") /\ ~IsAsk(c5, "MOUNT_ROOT")
       /\ ~IsAsk(c6, "REGISTER_DRIVER") /\ IsAsk(c6, "MOUNT_ROOT")
  BY <1>2, <1>3 DEF IsAsk
<1>14. Registration(s)
  BY <1>8, <1>12, <1>13 DEF Registration
<1> QED BY <1>5, <1>11, <1>14 DEF p

LEMMA PairIs ==
  ASSUME NEW S, NEW u \in Seq(S), Len(u) = 2
  PROVE  u = <<u[1], u[2]>>
  OBVIOUS

LEMMA TripleIs ==
  ASSUME NEW S, NEW u \in Seq(S), Len(u) = 3
  PROVE  u = <<u[1], u[2], u[3]>>
  OBVIOUS

LEMMA TuplesConcat ==
  ASSUME NEW x, NEW y, NEW z
  PROVE  /\ <<x>> \o <<y>> = <<x, y>>
         /\ <<x, y>> \o <<z>> = <<x, y, z>>
         /\ Append(<<x, y>>, z) = <<x, y, z>> /\ Append(<<x>>, y) = <<x, y>>
<1> DEFINE S == {x, y, z}
           u == <<x>> \o <<y>>
           v == <<x, y>> \o <<z>>
           w == Append(<<x, y>>, z)
           o == Append(<<x>>, y)
<1>1. u \in Seq(S) /\ Len(u) = 2 /\ u[1] = x /\ u[2] = y
  OBVIOUS
<1>2. v \in Seq(S) /\ Len(v) = 3 /\ v[1] = x /\ v[2] = y /\ v[3] = z
  OBVIOUS
<1>3. w \in Seq(S) /\ Len(w) = 3 /\ w[1] = x /\ w[2] = y /\ w[3] = z
  OBVIOUS
<1>4. o \in Seq(S) /\ Len(o) = 2 /\ o[1] = x /\ o[2] = y
  OBVIOUS
<1> HIDE DEF S, u, v, w, o
<1>5. u = <<x, y>> /\ o = <<x, y>>
  BY <1>1, <1>4, PairIs
<1>6. v = <<x, y, z>> /\ w = <<x, y, z>>
  BY <1>2, <1>3, TripleIs
<1> QED BY <1>5, <1>6 DEF u, v, w, o

LEMMA DriverPaths ==
  ASSUME NEW d \in Args
  PROVE  LET path == Append(DriverPath, d)
         IN  path \in Seq(Args) /\ path # <<>> /\ Last(path) = d
<1>1. "sys" \in Args /\ "drivers" \in Args
  BY DEF Args
<1>2. Append(DriverPath, d) = <<"sys", "drivers", d>>
  BY TuplesConcat DEF DriverPath
<1> QED BY <1>1, <1>2 DEF Last

LEMMA PathIsClient ==
  ASSUME NEW p, FileUser(p), NEW path \in Seq(Args), NEW K, "vfs" \in K, Mounted \in K
  PROVE  Client(p, FExists(path), K) /\ Client(p, IsDirectory(path), K) /\ Client(p, OpenDir(path), K)
  BY ResolvePathIsClient DEF FExists, IsDirectory, OpenDir

LEMMA PciScriptIsClient ==
  ASSUME NEW K, "vfs" \in K
  PROVE  Leads("pci", PciScript, K, {Mounted})
<1> DEFINE p == "pci"
           M == K \cup {Mounted}
           path == Append(DriverPath, "piix3")
           b == IF "piix3" \in Drivers THEN Bootstrap(path) ELSE <<>>
           s == FsInit \o FExists(path)
<1>1. FileUser(p) /\ "piix3" \in Args
  BY DEF FileUser, Args
<1>2. path \in Seq(Args) /\ path # <<>> /\ Last(path) = "piix3"
  BY <1>1, DriverPaths
<1>3. PciScript = s \o b
  BY DEF PciScript
<1> HIDE DEF path, p
<1>4. Leads(p, FsInit, K, M)
  BY <1>1, FsInitLeads
<1>5. "vfs" \in M /\ Mounted \in M
  OBVIOUS
<1> HIDE DEF M
<1>6. Leads(p, FExists(path), M, M)
  BY <1>1, <1>2, <1>5, PathIsClient, ClientLeads
<1>7. Leads(p, b, M, M)
  <2>1. CASE "piix3" \in Drivers
    <3>1. Last(path) \in Procs
      BY <1>2, <2>1, ServiceNames
    <3>2. Client(p, Bootstrap(path), M)
      BY <1>1, <1>2, <1>5, <3>1, BootstrapIsClient
    <3> QED BY <2>1, <3>2, ClientLeads
  <2>2. CASE "piix3" \notin Drivers
    BY <2>2, ClientEmpty, ClientLeads
  <2> QED BY <2>1, <2>2
<1> HIDE DEF b
<1>8. Leads(p, s, K, M)
  BY <1>4, <1>6, LeadsBoth
<1> HIDE DEF s
<1>9. Leads(p, s \o b, K, M)
  BY <1>7, <1>8, LeadsBoth
<1> QED BY <1>3, <1>5, <1>9 DEF Leads, p

\* Those that are neither servers nor users of files.
OtherUser(p) == p \notin {"ata", "fat", "vfs", "pci"}

LEMMA Piix3ScriptIsClient ==
  ASSUME NEW p, OtherUser(p), NEW K
  PROVE  Client(p, Piix3Script, K)
<1> DEFINE a == <<Lookup("pci")>>
           b == <<Ask("pci", "DEVICE_CONFIG", "piix3")>>
           c == <<Lookup("ata")>>
           d == <<Ask("ata", "SET_BAR4", "")>>
           e == <<Tell("pci", "DMA_UP")>>
           f == (c \o d) \o e
           L == K \cup {"pci"}
           M == L \cup {"ata"}
<1>1. /\ "pci" \in Procs \cap Residents /\ "ata" \in Procs \cap Residents
      /\ "DEVICE_CONFIG" \in AskOps /\ "SET_BAR4" \in AskOps /\ "DMA_UP" \in ToldOps
      /\ "piix3" \in Args /\ "" \in Args
  BY ServiceNames DEF Residents, AskOps, ToldOps, Args
<1>2. a \o b = <<Lookup("pci"), Ask("pci", "DEVICE_CONFIG", "piix3")>>
  BY TuplesConcat
<1>3. f = <<Lookup("ata"), Ask("ata", "SET_BAR4", ""), Tell("pci", "DMA_UP")>>
  <2>1. c \o d = <<Lookup("ata"), Ask("ata", "SET_BAR4", "")>>
    BY TuplesConcat
  <2> QED BY <2>1, TuplesConcat
<1>4. Piix3Script = (a \o b) \o (IF Cardinality(DevicesOf("piix3")) = 1 THEN f ELSE <<>>)
  BY <1>2, <1>3 DEF Piix3Script
<1>5. /\ MayAsk(p, "pci", "DEVICE_CONFIG") /\ MayAsk(p, "ata", "SET_BAR4")
      /\ MayTell("pci", "DMA_UP")
      /\ TakenBy("DEVICE_CONFIG") = {} /\ TakenBy("SET_BAR4") = {}
  BY DEF OtherUser, MayAsk, MayTell, TakenBy, FileOps
<1>6. Leads(p, a, K, L)
  BY <1>1, LookupLeads
<1>7. Leads(p, b, L, L)
  <2>1. Client(p, b, L)
    BY <1>1, <1>5, AskIsClient
  <2> QED BY <2>1, ClientLeads
<1>8. Leads(p, c, L, M)
  BY <1>1, LookupLeads
<1>9. Leads(p, d, M, M)
  <2>1. Client(p, d, M)
    BY <1>1, <1>5, AskIsClient
  <2> QED BY <2>1, ClientLeads
<1>10. Leads(p, e, M, M)
  <2>1. Client(p, e, M)
    BY <1>1, <1>5, TellIsClient
  <2> QED BY <2>1, ClientLeads
<1> HIDE DEF a, b, c, d, e, L, M
<1>11. Leads(p, a \o b, K, L)
  BY <1>6, <1>7, LeadsBoth
<1>12. Leads(p, c \o d, L, M)
  BY <1>8, <1>9, LeadsBoth
<1>13. Leads(p, f, L, M)
  BY <1>10, <1>12, LeadsBoth
<1> HIDE DEF f
<1>14. Client(p, (a \o b) \o f, K)
  BY <1>11, <1>13, LeadsBoth DEF Leads
<1>15. Client(p, (a \o b) \o <<>>, K)
  <2>1. Client(p, <<>>, K)
    BY ClientEmpty
  <2> QED BY <1>11, <2>1, ClientBoth DEF Leads
<1> QED BY <1>4, <1>14, <1>15

LEMMA DriverScriptIsClient ==
  ASSUME NEW p, OtherUser(p), NEW K
  PROVE  Client(p, DriverScript, K)
<1> DEFINE a == <<Lookup("pci")>>
           b == <<Ask("pci", "DEVICE_CONFIG", "driver")>>
           L == K \cup {"pci"}
<1>1. /\ "pci" \in Procs \cap Residents /\ "DEVICE_CONFIG" \in AskOps /\ "driver" \in Args
  BY ServiceNames DEF Residents, AskOps, Args
<1>2. DriverScript = a \o b
  BY DEF DriverScript
<1>3. MayAsk(p, "pci", "DEVICE_CONFIG") /\ TakenBy("DEVICE_CONFIG") = {}
  BY DEF OtherUser, MayAsk, TakenBy, FileOps
<1>4. Leads(p, a, K, L)
  BY <1>1, LookupLeads
<1>5. Client(p, b, L)
  BY <1>1, <1>3, AskIsClient
<1> HIDE DEF a, b, L
<1> QED BY <1>2, <1>4, <1>5, ClientConcat DEF Leads

LEMMA ProgramScriptIsClient ==
  ASSUME NEW p, NEW K
  PROVE  Client(p, ProgramScript, K)
<1> DEFINE a == <<Lookup("acpi")>>
           b == <<Tell("acpi", "SHUTDOWN")>>
           L == K \cup {"acpi"}
<1>1. /\ "acpi" \in Procs \cap Residents /\ "SHUTDOWN" \in ToldOps /\ MayTell("acpi", "SHUTDOWN")
  BY ServiceNames DEF Residents, ToldOps, MayTell
<1>2. ProgramScript = a \o b
  BY DEF ProgramScript
<1>3. Leads(p, a, K, L)
  BY <1>1, LookupLeads
<1>4. Client(p, b, L)
  BY <1>1, TellIsClient
<1> HIDE DEF a, b, L
<1> QED BY <1>2, <1>3, <1>4, ClientConcat DEF Leads

\* Every process begins with a script that needs no more than what runs at first.
LEMMA ScriptsBegin ==
  ASSUME NEW p \in Procs, NEW K, "ata" \in K, "vfs" \in K
  PROVE  Client(p, ScriptOf(p), K)
<1> USE NamesAssumption DEF Services, Booted
<1>1. CASE p = "init"
  BY <1>1, InitScriptIsClient DEF ScriptOf
<1>2. CASE p = "fat"
  BY <1>2, FatScriptIsClient DEF ScriptOf
<1>3. CASE p = "pci"
  BY <1>3, PciScriptIsClient DEF ScriptOf, Leads
<1>4. CASE p = "sh"
  <2>1. FileUser(p)
    BY <1>4 DEF FileUser
  <2>2. ScriptOf(p) = FsInit
    BY <1>4 DEF ScriptOf
  <2> QED BY <2>1, <2>2, FsInitIsClient
<1>5. CASE p \in Harddisk
  <2>1. OtherUser(p)
    BY <1>5 DEF OtherUser, Harddisk
  <2>2. ScriptOf(p) = Piix3Script
    BY <1>5 DEF ScriptOf, Harddisk
  <2> QED BY <2>1, <2>2, Piix3ScriptIsClient
<1>6. CASE p \in Drivers \ Harddisk
  <2>1. OtherUser(p)
    BY <1>6 DEF OtherUser
  <2>2. ScriptOf(p) = DriverScript
    BY <1>6 DEF ScriptOf
  <2> QED BY <2>1, <2>2, DriverScriptIsClient
<1>7. CASE p \in Programs
  <2>1. ScriptOf(p) = ProgramScript
    BY <1>7 DEF ScriptOf
  <2> QED BY <2>1, ProgramScriptIsClient
<1>8. CASE p \in {"ata", "vfs", "acpi", "keyboard"}
  <2>1. ScriptOf(p) = <<>>
    BY <1>8 DEF ScriptOf, Harddisk
  <2> QED BY <2>1, ClientEmpty
<1> QED BY <1>1, <1>2, <1>3, <1>4, <1>5, <1>6, <1>7, <1>8 DEF Procs

LEMMA FlattenIsClient ==
  ASSUME NEW p, NEW K, NEW n \in Nat, NEW ss \in [1 .. n -> Seq(Calls)],
         \A i \in 1 .. n : Client(p, ss[i], K)
  PROVE  Client(p, FlattenSeq(ss), K)
<1>1. ss \in Seq(Seq(Calls)) /\ Len(ss) = n
  OBVIOUS
<1>2. CASE n = 0
  <2>1. FlattenSeq(ss) = <<>>
    BY <1>1, <1>2 DEF FlattenSeq
  <2> QED BY <2>1, ClientEmpty
<1>3. CASE n # 0
  <2>1. PICK f : /\ FlattenSeq(ss) = f[n]
                 /\ \A i \in 1 .. n : f[i] = IF i = 1 THEN ss[i] ELSE f[i - 1] \o ss[i]
    BY <1>1, <1>3, FlattenSeqSteps
  <2> DEFINE I == {i \in 1 .. n : ~Client(p, f[i], K)}
  <2>2. CASE I = {}
    <3>1. n \in 1 .. n /\ n \notin I
      BY <1>3, <2>2, SMTT(30)
    <3> QED BY <2>1, <3>1
  <2>3. CASE I # {}
    <3>1. I \subseteq Nat
      OBVIOUS
    <3>2. PICK i \in I : \A j \in I : i <= j
      <4> HIDE DEF I
      <4> QED BY <2>3, <3>1, LeastElement
    <3>3. i \in 1 .. n /\ ~Client(p, f[i], K)
      OBVIOUS
    <3>4. CASE i = 1
      BY <2>1, <3>3, <3>4
    <3>5. CASE i # 1
      <4>1. i - 1 \in 1 .. n /\ ~(i <= i - 1)
        BY <3>3, <3>5
      <4>2. Client(p, f[i - 1], K)
        BY <3>2, <4>1
      <4>3. f[i] = f[i - 1] \o ss[i] /\ Client(p, ss[i], K)
        BY <2>1, <3>3, <3>5
      <4>4. Client(p, f[i - 1] \o ss[i], K)
        BY <4>2, <4>3, ClientBoth
      <4> QED BY <3>3, <4>3, <4>4
    <3> QED BY <3>4, <3>5
  <2> QED BY <2>2, <2>3
<1> QED BY <1>2, <1>3

LEMMA ReadDirIsClient ==
  ASSUME NEW p, FileUser(p), NEW entry \in Args, NEW K, "vfs" \in K, Mounted \in K
  PROVE  Client(p, ReadDir(entry), K)
<1>1. "READDIR" \in FileOps
  BY DEF FileOps
<1> QED BY <1>1, FsOneIsClient DEF ReadDir

\* What pci does with each entry of the directory of drivers.
LEMMA EntryIsClient ==
  ASSUME NEW d \in Args, NEW K, "vfs" \in K, Mounted \in K
  PROVE  LET path == Append(DriverPath, d)
         IN  Client("pci", ReadDir(d)
                      \o (IF d \in Harddisk THEN <<>> ELSE FExists(path) \o IsDirectory(path))
                      \o (IF d \in Drivers \ Harddisk THEN Bootstrap(path) ELSE <<>>), K)
<1> DEFINE p == "pci"
           path == Append(DriverPath, d)
           a == ReadDir(d)
           b == IF d \in Harddisk THEN <<>> ELSE FExists(path) \o IsDirectory(path)
           c == IF d \in Drivers \ Harddisk THEN Bootstrap(path) ELSE <<>>
<1>1. FileUser(p)
  BY DEF FileUser
<1>2. path \in Seq(Args) /\ path # <<>> /\ Last(path) = d
  BY DriverPaths
<1> HIDE DEF p, path
<1>3. Client(p, a, K)
  BY <1>1, ReadDirIsClient
<1>4. Client(p, b, K)
  <2>1. Client(p, FExists(path) \o IsDirectory(path), K)
    BY <1>1, <1>2, PathIsClient, ClientBoth
  <2>2. Client(p, <<>>, K)
    BY ClientEmpty
  <2> QED BY <2>1, <2>2
<1>5. Client(p, c, K)
  <2>1. CASE d \in Drivers \ Harddisk
    <3>1. Last(path) \in Procs
      BY <1>2, <2>1, ServiceNames
    <3>2. Client(p, Bootstrap(path), K)
      BY <1>1, <1>2, <3>1, BootstrapIsClient
    <3> QED BY <2>1, <3>2
  <2>2. CASE ~(d \in Drivers \ Harddisk)
    BY <2>2, ClientEmpty
  <2> QED BY <2>1, <2>2
<1> HIDE DEF a, b, c
<1>6. Client(p, a \o b, K)
  BY <1>3, <1>4, ClientBoth
<1>7. Client(p, (a \o b) \o c, K)
  BY <1>5, <1>6, ClientBoth
<1> QED BY <1>7 DEF p, path, a, b, c

LEMMA CheckNonHdsIsClient ==
  ASSUME NEW K, "vfs" \in K, Mounted \in K
  PROVE  Client("pci", CheckNonHds, K)
<1> DEFINE p == "pci"
           path(d) == Append(DriverPath, d)
           entry(d) == ReadDir(d)
                    \o (IF d \in Harddisk THEN <<>>
                        ELSE FExists(path(d)) \o IsDirectory(path(d)))
                    \o (IF d \in Drivers \ Harddisk THEN Bootstrap(path(d)) ELSE <<>>)
           n == Len(DriverFiles)
           ss == [i \in DOMAIN DriverFiles |-> entry(DriverFiles[i])]
           a == OpenDir(DriverPath)
           b == FlattenSeq(ss)
           c == ReadDir("end")
<1>1. FileUser(p)
  BY DEF FileUser
<1>2. CheckNonHds = (a \o b) \o c
  BY DEF CheckNonHds
<1>3. n \in Nat /\ DOMAIN DriverFiles = 1 .. n
  BY ServicesAssumption
<1>4. ASSUME NEW i \in 1 .. n PROVE Client(p, entry(DriverFiles[i]), K)
  <2>1. DriverFiles[i] \in Args
    BY <1>3 DEF Args
  <2> QED BY <2>1, EntryIsClient
<1> HIDE DEF entry
<1>5. \A i \in 1 .. n : ss[i] = entry(DriverFiles[i])
  BY <1>3
<1>6. ss = [i \in 1 .. n |-> ss[i]]
  BY <1>3
<1> HIDE DEF n, ss
<1>7. \A i \in 1 .. n : Client(p, ss[i], K) /\ ss[i] \in Seq(Calls)
  BY <1>4, <1>5, ClientIsSeq
<1>8. ss \in [1 .. n -> Seq(Calls)]
  <2>1. [i \in 1 .. n |-> ss[i]] \in [1 .. n -> Seq(Calls)]
    BY <1>7
  <2> QED BY <1>6, <2>1
<1>9. Client(p, b, K)
  BY <1>3, <1>7, <1>8, FlattenIsClient
<1>10. Client(p, a, K)
  <2>1. DriverPath \in Seq(Args)
    BY DEF DriverPath, Args
  <2> QED BY <1>1, <2>1, PathIsClient
<1>11. Client(p, c, K)
  <2>1. "end" \in Args
    BY DEF Args
  <2> QED BY <1>1, <2>1, ReadDirIsClient
<1> HIDE DEF a, b, c
<1>12. Client(p, a \o b, K)
  BY <1>9, <1>10, ClientBoth
<1>13. Client(p, (a \o b) \o c, K)
  BY <1>11, <1>12, ClientBoth
<1> QED BY <1>2, <1>13 DEF p

LEMMA CommandsAreClients ==
  ASSUME NEW K, "vfs" \in K, Mounted \in K
  PROVE  /\ Client("sh", List, K)
         /\ \A q \in Programs, background \in BOOLEAN : Client("sh", Run(q, background), K)
<1> DEFINE p == "sh"
<1>1. FileUser(p) /\ "entry" \in Args /\ "end" \in Args /\ <<>> \in Seq(Args)
  BY DEF FileUser, Args
<1> HIDE DEF p
<1>2. Client(p, List, K)
  <2> DEFINE a == OpenDir(<<>>)
             b == ReadDir("entry")
             c == ReadDir("end")
  <2>1. Client(p, a, K) /\ Client(p, b, K) /\ Client(p, c, K)
    BY <1>1, PathIsClient, ReadDirIsClient
  <2>2. List = (a \o b) \o c
    BY DEF List
  <2> HIDE DEF a, b, c
  <2>3. Client(p, a \o b, K)
    BY <2>1, ClientBoth
  <2>4. Client(p, (a \o b) \o c, K)
    BY <2>1, <2>3, ClientBoth
  <2> QED BY <2>2, <2>4
<1>3. ASSUME NEW q \in Programs, NEW background \in BOOLEAN
      PROVE  Client(p, Run(q, background), K)
  <2> DEFINE path == <<q>>
             a == FExists(path)
             b == IsDirectory(path)
             c == Bootstrap(path)
             w == <<WaitProcess(q)>>
             d == IF background THEN <<>> ELSE w
  <2>1. q \in Procs /\ q \in Args
    BY ServiceNames DEF Args
  <2>2. path \in Seq(Args) /\ path # <<>> /\ Last(path) = q
    BY <2>1 DEF Last
  <2>3. Run(q, background) = ((a \o b) \o c) \o d
    BY DEF Run
  <2> HIDE DEF path
  <2>4. Client(p, a, K) /\ Client(p, b, K) /\ Client(p, c, K)
    BY <1>1, <2>1, <2>2, PathIsClient, BootstrapIsClient
  <2>5. Client(p, w, K)
    <3> DEFINE e == WaitProcess(q)
    <3>1. e.do = "wait" /\ e \in Calls
      BY <2>1 DEF WaitProcess, Calls
    <3> HIDE DEF e
    <3>2. MayDo(p, e) /\ Needs(e) \subseteq K /\ ~IsAnswer(e)
      BY <3>1 DEF MayDo, Needs, IsAnswer
    <3>3. Client(p, <<e>>, K)
      BY <3>1, <3>2, ClientOne
    <3> QED BY <3>3 DEF e
  <2>6. Client(p, d, K)
    BY <2>5, ClientEmpty
  <2> HIDE DEF a, b, c, d
  <2>7. Client(p, a \o b, K)
    BY <2>4, ClientBoth
  <2>8. Client(p, (a \o b) \o c, K)
    BY <2>4, <2>7, ClientBoth
  <2>9. Client(p, ((a \o b) \o c) \o d, K)
    BY <2>6, <2>8, ClientBoth
  <2> QED BY <2>3, <2>9
<1> QED BY <1>2, <1>3 DEF p

-----------------------------------------------------------------------------
(* How requests move.                                                      *)

Places == [Procs -> SUBSET Message]

\* From H to H2, x joins the messages of q, or leaves them.
Joins(x, q, H, H2) ==
  /\ H \in Places /\ H2 \in Places
  /\ \A s \in Procs : H2[s] = IF s = q THEN H[q] \cup {x} ELSE H[s]

Leaves(x, q, H, H2) ==
  /\ H \in Places /\ H2 \in Places
  /\ \A s \in Procs : H2[s] = IF s = q THEN H[q] \ {x} ELSE H[s]

\* From ask to ask2, p has been given k as the message it waits for.
Sets(k, p, ask, ask2) ==
  /\ ask \in [Procs -> Nat] /\ ask2 \in [Procs -> Nat]
  /\ \A s \in Procs : ask2[s] = IF s = p THEN k ELSE ask[s]

LEMMA PlacedFrame ==
  ASSUME NEW H \in Places, NEW W \in Places, NEW R \in Places, NEW n \in Nat,
         NEW ask \in [Procs -> Nat], NEW c, NEW c2, Placed(H, W, R, n, ask, c),
         \A s \in Procs : ask[s] # 0 => c2[s] = c[s]
  PROVE  Placed(H, W, R, n, ask, c2)
<1> USE DEF Placed, Places
<1>1. ServersAreAsked(ask, c2)
  BY DEF ServersAreAsked
<1>2. ASSUME NEW s \in Procs, NEW r \in Message, Pends(s, r, ask, c) PROVE Pends(s, r, ask, c2)
  BY <1>2 DEF Pends, Message
<1>3. RequestsPend(H, ask, c2)
  BY <1>2 DEF RequestsPend
<1>4. ListedPend(H, W, ask, c2)
  BY <1>2 DEF ListedPend
<1>5. OwedPend(H, W, R, ask, c2)
  BY <1>2 DEF OwedPend
<1>6. AnswersPend(H, W, R, ask, c2)
  BY DEF AnswersPend
<1>7. AskedAreSomewhere(H, W, R, ask, c2)
  BY DEF AskedAreSomewhere
<1> QED BY <1>1, <1>3, <1>4, <1>5, <1>6, <1>7

\* p asks.
LEMMA PlacedAsk ==
  ASSUME NEW H \in Places, NEW W \in Places, NEW R \in Places, NEW n \in Nat,
         NEW ask, NEW c, Placed(H, W, R, n, ask, c),
         NEW p \in Procs, NEW x \in Message, NEW H2, NEW ask2,
         ask[p] = 0, c[p].to \in Procs,
         x.id = n + 1, x.from = p, x.reply_to = 0, IsRequest(x), Fits(x.data, c[p]),
         Joins(x, c[p].to, H, H2), Sets(n + 1, p, ask, ask2)
  PROVE  Placed(H2, W, R, n + 1, ask2, c)
<1> USE DEF Placed, Places, Joins, Sets
<1> DEFINE q == c[p].to
<1>1. ServersAreAsked(ask2, c)
  BY DEF ServersAreAsked
<1>2. IdsAreOld(H2, n + 1, ask2)
  BY DEF IdsAreOld, Message
<1>3. ASSUME NEW s \in Procs, NEW r \in Message, Pends(s, r, ask, c)
      PROVE  Pends(s, r, ask2, c) /\ r.id <= n
  <2>1. ask[r.from] = r.id /\ r.id # 0 /\ r.from \in Procs
    BY <1>3 DEF Pends, Message
  <2>2. r.from # p /\ r.id <= n
    BY <2>1 DEF IdsAreOld
  <2> QED BY <1>3, <2>1, <2>2 DEF Pends
<1>4. RequestsPend(H2, ask2, c)
  <2> SUFFICES ASSUME NEW s \in Procs, NEW r \in H2[s], IsRequest(r)
               PROVE  Pends(s, r, ask2, c)
    BY DEF RequestsPend
  <2>1. CASE r \in H[s]
    BY <1>3, <2>1 DEF RequestsPend
  <2>2. CASE r \notin H[s]
    <3>1. r = x /\ s = q
      BY <2>2
    <3>2. ask2[p] = n + 1
      OBVIOUS
    <3> QED BY <3>1, <3>2 DEF Pends
  <2> QED BY <2>1, <2>2
<1>5. ListedPend(H2, W, ask2, c)
  BY <1>3 DEF ListedPend
<1>6. OwedPend(H2, W, R, ask2, c)
  BY <1>3 DEF OwedPend
<1>7. AnswersPend(H2, W, R, ask2, c)
  <2> SUFFICES ASSUME NEW s \in Procs, NEW y \in H2[s], y.reply_to # 0
               PROVE  /\ ask2[s] = y.reply_to
                      /\ Fits(y.data, c[s])
                      /\ \A z \in H2[s] : z.reply_to = y.reply_to => z = y
                      /\ \A z \in H2[c[s].to] \cup W[c[s].to] \cup R[c[s].to] : z.id # y.reply_to
    BY DEF AnswersPend
  <2>1. y \in H[s]
    OBVIOUS
  <2>2. /\ ask[s] = y.reply_to
        /\ Fits(y.data, c[s])
        /\ \A z \in H[s] : z.reply_to = y.reply_to => z = y
        /\ \A z \in H[c[s].to] \cup W[c[s].to] \cup R[c[s].to] : z.id # y.reply_to
    BY <2>1 DEF AnswersPend
  <2>3. s # p /\ y.reply_to <= n /\ c[s].to \in Procs
    BY <2>2 DEF IdsAreOld, ServersAreAsked
  <2>4. x.id # y.reply_to
    BY <2>3
  <2> QED BY <2>2, <2>3, <2>4
<1>8. AskedAreSomewhere(H2, W, R, ask2, c)
  <2> SUFFICES ASSUME NEW s \in Procs, ask2[s] # 0
               PROVE  \/ \E z \in H2[c[s].to] : IsRequest(z) /\ z.id = ask2[s] /\ z.from = s
                      \/ \E z \in W[c[s].to] : z.id = ask2[s] /\ z.from = s
                      \/ \E z \in R[c[s].to] : z.id = ask2[s] /\ z.from = s
                      \/ \E y \in H2[s] : y.reply_to = ask2[s]
    BY DEF AskedAreSomewhere
  <2>1. CASE s = p
    <3>1. x \in H2[q]
      OBVIOUS
    <3> QED BY <2>1, <3>1
  <2>2. CASE s # p
    <3>1. ask2[s] = ask[s] /\ ask[s] # 0 /\ c[s].to \in Procs
      BY <2>2 DEF ServersAreAsked
    <3>2. H[s] \subseteq H2[s] /\ H[c[s].to] \subseteq H2[c[s].to]
      BY <3>1
    <3> QED BY <3>1, <3>2 DEF AskedAreSomewhere
  <2> QED BY <2>1, <2>2
<1> QED BY <1>1, <1>2, <1>4, <1>5, <1>6, <1>7, <1>8

\* p tells q something, for which it does not wait.
LEMMA PlacedTell ==
  ASSUME NEW H \in Places, NEW W \in Places, NEW R \in Places, NEW n \in Nat,
         NEW ask \in [Procs -> Nat], NEW c, Placed(H, W, R, n, ask, c),
         NEW q \in Procs, NEW x \in Message, NEW H2,
         x.id = n + 1, x.reply_to = 0, ~IsRequest(x), Joins(x, q, H, H2)
  PROVE  Placed(H2, W, R, n + 1, ask, c)
<1> USE DEF Placed, Places, Joins
<1>1. ServersAreAsked(ask, c)
  OBVIOUS
<1>2. IdsAreOld(H2, n + 1, ask)
  BY DEF IdsAreOld, Message
<1>3. ASSUME NEW s \in Procs, NEW r \in Message, Pends(s, r, ask, c)
      PROVE  r.id <= n
  BY <1>3 DEF Pends, Message, IdsAreOld
<1>4. RequestsPend(H2, ask, c)
  BY DEF RequestsPend
<1>5. ListedPend(H2, W, ask, c)
  BY <1>3 DEF ListedPend
<1>6. OwedPend(H2, W, R, ask, c)
  BY <1>3 DEF OwedPend
<1>7. AnswersPend(H2, W, R, ask, c)
  <2> SUFFICES ASSUME NEW s \in Procs, NEW y \in H2[s], y.reply_to # 0
               PROVE  /\ ask[s] = y.reply_to
                      /\ Fits(y.data, c[s])
                      /\ \A z \in H2[s] : z.reply_to = y.reply_to => z = y
                      /\ \A z \in H2[c[s].to] \cup W[c[s].to] \cup R[c[s].to] : z.id # y.reply_to
    BY DEF AnswersPend
  <2>1. y \in H[s]
    OBVIOUS
  <2>2. /\ ask[s] = y.reply_to
        /\ Fits(y.data, c[s])
        /\ \A z \in H[s] : z.reply_to = y.reply_to => z = y
        /\ \A z \in H[c[s].to] \cup W[c[s].to] \cup R[c[s].to] : z.id # y.reply_to
    BY <2>1 DEF AnswersPend
  <2>3. y.reply_to <= n /\ c[s].to \in Procs
    BY <2>2 DEF IdsAreOld, ServersAreAsked
  <2>4. x.id # y.reply_to
    BY <2>3
  <2> QED BY <2>2, <2>3, <2>4
<1>8. AskedAreSomewhere(H2, W, R, ask, c)
  <2>1. ASSUME NEW s \in Procs, ask[s] # 0
        PROVE  c[s].to \in Procs /\ H[s] \subseteq H2[s] /\ H[c[s].to] \subseteq H2[c[s].to]
    <3>1. c[s].to \in Procs
      BY <2>1 DEF ServersAreAsked
    <3> QED BY <3>1
  <2> QED BY <2>1 DEF AskedAreSomewhere
<1> QED BY <1>1, <1>2, <1>4, <1>5, <1>6, <1>7, <1>8

\* p answers r.
LEMMA PlacedReply ==
  ASSUME NEW H \in Places, NEW W \in Places, NEW R, NEW n \in Nat,
         NEW ask \in [Procs -> Nat], NEW c, Placed(H, W, R, n, ask, c),
         NEW p \in Procs, NEW r \in Message, r \in R[p], \A z \in R[p] : z.id = r.id => z = r,
         NEW y \in Message, NEW H2, NEW R2,
         y.id = n + 1, y.reply_to = r.id, y.data.op = r.data.op,
         r.data.op \in ArgOps => y.data.arg = r.data.arg,
         Joins(y, r.from, H, H2), Leaves(r, p, R, R2)
  PROVE  Placed(H2, W, R2, n + 1, ask, c)
<1> USE DEF Placed, Places, Joins, Leaves
<1> DEFINE q == r.from
<1>1. /\ q \in Procs /\ Pends(p, r, ask, c)
      /\ \A z \in H[p] : z.id # r.id
      /\ \A z \in W[p] : z.id # r.id
  BY DEF OwedPend, Message
<1>2. ask[q] = r.id /\ r.id # 0 /\ c[q].to = p /\ Fits(r.data, c[q])
  BY <1>1 DEF Pends
<1>3. IdsAreOld(H2, n + 1, ask)
  BY DEF IdsAreOld, Message
<1>4. ASSUME NEW s \in Procs, NEW z \in Message, Pends(s, z, ask, c)
      PROVE  z.id <= n /\ z.id # y.id
  BY <1>4 DEF Pends, Message, IdsAreOld
<1>5. RequestsPend(H2, ask, c)
  BY <1>2 DEF RequestsPend, IsRequest
<1>6. ListedPend(H2, W, ask, c)
  BY <1>4 DEF ListedPend
<1>7. OwedPend(H2, W, R2, ask, c)
  BY <1>4 DEF OwedPend
<1>8. AnswersPend(H2, W, R2, ask, c)
  <2> SUFFICES ASSUME NEW s \in Procs, NEW x \in H2[s], x.reply_to # 0
               PROVE  /\ ask[s] = x.reply_to
                      /\ Fits(x.data, c[s])
                      /\ \A z \in H2[s] : z.reply_to = x.reply_to => z = x
                      /\ \A z \in H2[c[s].to] \cup W[c[s].to] \cup R2[c[s].to] : z.id # x.reply_to
    BY DEF AnswersPend
  <2>1. CASE x \in H[s]
    <3>1. /\ ask[s] = x.reply_to
          /\ Fits(x.data, c[s])
          /\ \A z \in H[s] : z.reply_to = x.reply_to => z = x
          /\ \A z \in H[c[s].to] \cup W[c[s].to] \cup R[c[s].to] : z.id # x.reply_to
      BY <2>1 DEF AnswersPend
    <3>2. x.reply_to <= n /\ c[s].to \in Procs
      BY <3>1 DEF IdsAreOld, ServersAreAsked
    <3>3. s # q
      BY <1>2, <3>1
    <3> QED BY <3>1, <3>2, <3>3
  <2>2. CASE x \notin H[s]
    <3>1. s = q /\ x = y
      BY <2>2
    <3>2. ask[s] = x.reply_to /\ c[s].to = p /\ Fits(x.data, c[s])
      BY <1>2, <3>1 DEF Fits
    <3>3. \A z \in H[s] : z.reply_to # x.reply_to
      <4> SUFFICES ASSUME NEW z \in H[s], z.reply_to = x.reply_to PROVE FALSE
        OBVIOUS
      <4>1. \A w \in R[c[s].to] : w.id # z.reply_to
        BY <1>2, <3>1 DEF AnswersPend
      <4> QED BY <3>1, <3>2, <4>1
    <3>4. \A z \in R2[p] : z.id # r.id
      OBVIOUS
    <3>5. r.id <= n
      BY <1>1, <1>2 DEF IdsAreOld
    <3> QED BY <1>1, <3>1, <3>2, <3>3, <3>4, <3>5
  <2> QED BY <2>1, <2>2
<1>9. AskedAreSomewhere(H2, W, R2, ask, c)
  <2> SUFFICES ASSUME NEW s \in Procs, ask[s] # 0
               PROVE  \/ \E z \in H2[c[s].to] : IsRequest(z) /\ z.id = ask[s] /\ z.from = s
                      \/ \E z \in W[c[s].to] : z.id = ask[s] /\ z.from = s
                      \/ \E z \in R2[c[s].to] : z.id = ask[s] /\ z.from = s
                      \/ \E x \in H2[s] : x.reply_to = ask[s]
    BY DEF AskedAreSomewhere
  <2>1. CASE s = q
    <3>1. y \in H2[q]
      BY <1>1
    <3> QED BY <1>2, <2>1, <3>1
  <2>2. CASE s # q
    <3>1. c[s].to \in Procs
      BY DEF ServersAreAsked
    <3>2. H[s] \subseteq H2[s] /\ H[c[s].to] \subseteq H2[c[s].to]
      BY <3>1
    <3>3. ASSUME NEW z \in R[c[s].to], z.from = s PROVE z \in R2[c[s].to]
      BY <2>2, <3>1, <3>3
    <3> QED BY <3>1, <3>2, <3>3 DEF AskedAreSomewhere
  <2> QED BY <2>1, <2>2
<1> QED BY <1>3, <1>5, <1>6, <1>7, <1>8, <1>9

\* p takes y, its answer.
LEMMA PlacedTake ==
  ASSUME NEW H, NEW W \in Places, NEW R \in Places, NEW n \in Nat,
         NEW ask, NEW c, Placed(H, W, R, n, ask, c),
         NEW p \in Procs, NEW y, y \in H[p], ask[p] # 0, y.reply_to = ask[p],
         NEW H2, NEW ask2, Leaves(y, p, H, H2), Sets(0, p, ask, ask2)
  PROVE  Placed(H2, W, R, n, ask2, c)
<1> USE DEF Placed, Places, Leaves, Sets
<1> DEFINE k == ask[p]
<1>1. y \in Message /\ k \in Nat /\ k # 0 /\ y.reply_to = k /\ c[p].to \in Procs
  BY DEF ServersAreAsked
<1>2. /\ \A z \in H[p] : z.reply_to = k => z = y
      /\ \A z \in H[c[p].to] \cup W[c[p].to] \cup R[c[p].to] : z.id # k
  BY <1>1 DEF AnswersPend
<1>3. ServersAreAsked(ask2, c)
  BY DEF ServersAreAsked
<1>4. IdsAreOld(H2, n, ask2)
  BY DEF IdsAreOld
<1>5. ASSUME NEW s \in Procs, NEW r \in H[s] \cup W[s] \cup R[s], Pends(s, r, ask, c)
      PROVE  Pends(s, r, ask2, c)
  <2>1. ask[r.from] = r.id /\ c[r.from].to = s /\ r.from \in Procs
    BY <1>5 DEF Pends, Message
  <2>2. r.from # p
    BY <1>2, <2>1
  <2> QED BY <1>5, <2>1, <2>2 DEF Pends
<1>6. RequestsPend(H2, ask2, c)
  BY <1>5 DEF RequestsPend
<1>7. ListedPend(H2, W, ask2, c)
  BY <1>5 DEF ListedPend
<1>8. OwedPend(H2, W, R, ask2, c)
  BY <1>5 DEF OwedPend
<1>9. AnswersPend(H2, W, R, ask2, c)
  <2> SUFFICES ASSUME NEW s \in Procs, NEW x \in H2[s], x.reply_to # 0
               PROVE  /\ ask2[s] = x.reply_to
                      /\ Fits(x.data, c[s])
                      /\ \A z \in H2[s] : z.reply_to = x.reply_to => z = x
                      /\ \A z \in H2[c[s].to] \cup W[c[s].to] \cup R[c[s].to] : z.id # x.reply_to
    BY DEF AnswersPend
  <2>1. x \in H[s]
    OBVIOUS
  <2>2. /\ ask[s] = x.reply_to
        /\ Fits(x.data, c[s])
        /\ \A z \in H[s] : z.reply_to = x.reply_to => z = x
        /\ \A z \in H[c[s].to] \cup W[c[s].to] \cup R[c[s].to] : z.id # x.reply_to
    BY <2>1 DEF AnswersPend
  <2>3. c[s].to \in Procs
    BY <2>2 DEF ServersAreAsked
  <2>4. s # p
    BY <1>2, <2>1, <2>2
  <2> QED BY <2>2, <2>3, <2>4
<1>10. AskedAreSomewhere(H2, W, R, ask2, c)
  <2> SUFFICES ASSUME NEW s \in Procs, ask2[s] # 0
               PROVE  \/ \E z \in H2[c[s].to] : IsRequest(z) /\ z.id = ask2[s] /\ z.from = s
                      \/ \E z \in W[c[s].to] : z.id = ask2[s] /\ z.from = s
                      \/ \E z \in R[c[s].to] : z.id = ask2[s] /\ z.from = s
                      \/ \E x \in H2[s] : x.reply_to = ask2[s]
    BY DEF AskedAreSomewhere
  <2>1. s # p /\ ask2[s] = ask[s] /\ c[s].to \in Procs
    BY DEF ServersAreAsked
  <2>2. H2[s] = H[s]
    BY <2>1
  <2>3. ASSUME NEW z \in H[c[s].to], IsRequest(z) PROVE z \in H2[c[s].to]
    BY <1>1, <2>1, <2>3 DEF IsRequest
  <2> QED BY <2>1, <2>2, <2>3 DEF AskedAreSomewhere
<1> QED BY <1>3, <1>4, <1>6, <1>7, <1>8, <1>9, <1>10

\* What is listed or owed after a server has taken r: what was listed, and r if it
\* is to be answered.
Deals(r, p, W, R, W2, R2) ==
  /\ W \in Places /\ R \in Places /\ W2 \in Places /\ R2 \in Places
  /\ \A s \in Procs : s # p => W2[s] = W[s] /\ R2[s] = R[s]
  /\ R[p] = {}
  /\ \A z \in W2[p] \cup R2[p] : z \in W[p] \/ (IsRequest(r) /\ z = r)
  /\ \A z \in W[p] : z \in W2[p] \cup R2[p]
  /\ IsRequest(r) => r \in W2[p] \cup R2[p]
  /\ \A w \in W2[p], z \in R2[p] : w.id # z.id

\* p takes r, to answer it at once, later or not at all.
LEMMA PlacedServe ==
  ASSUME NEW H, NEW W, NEW R, NEW n \in Nat,
         NEW ask \in [Procs -> Nat], NEW c, Placed(H, W, R, n, ask, c),
         NEW p \in Procs, NEW r, r \in H[p], r.reply_to = 0, \A z \in H[p] : z.id = r.id => z = r,
         NEW H2, NEW W2, NEW R2, Leaves(r, p, H, H2), Deals(r, p, W, R, W2, R2)
  PROVE  Placed(H2, W2, R2, n, ask, c)
<1> USE DEF Placed, Places, Leaves
<1>1. r \in Message
  OBVIOUS
<1>2. ServersAreAsked(ask, c)
  OBVIOUS
<1>3. IdsAreOld(H2, n, ask)
  BY DEF IdsAreOld
<1>4. RequestsPend(H2, ask, c)
  BY DEF RequestsPend
<1>5. \A z \in H2[p] : z.id # r.id
  OBVIOUS
<1>6. ASSUME NEW z \in W2[p] \cup R2[p]
      PROVE  Pends(p, z, ask, c) /\ \A x \in H2[p] : x.id # z.id
  <2>1. CASE z \in W[p]
    BY <2>1 DEF ListedPend
  <2>2. CASE IsRequest(r) /\ z = r
    BY <1>5, <2>2 DEF RequestsPend
  <2> QED BY <2>1, <2>2 DEF Deals
<1>7. ListedPend(H2, W2, ask, c)
  BY <1>6 DEF ListedPend, Deals
<1>8. OwedPend(H2, W2, R2, ask, c)
  BY <1>6 DEF OwedPend, Deals
<1>9. AnswersPend(H2, W2, R2, ask, c)
  <2> SUFFICES ASSUME NEW s \in Procs, NEW x \in H2[s], x.reply_to # 0
               PROVE  /\ ask[s] = x.reply_to
                      /\ Fits(x.data, c[s])
                      /\ \A z \in H2[s] : z.reply_to = x.reply_to => z = x
                      /\ \A z \in H2[c[s].to] \cup W2[c[s].to] \cup R2[c[s].to] : z.id # x.reply_to
    BY DEF AnswersPend
  <2>1. x \in H[s]
    OBVIOUS
  <2>2. /\ ask[s] = x.reply_to
        /\ Fits(x.data, c[s])
        /\ \A z \in H[s] : z.reply_to = x.reply_to => z = x
        /\ \A z \in H[c[s].to] \cup W[c[s].to] \cup R[c[s].to] : z.id # x.reply_to
    BY <2>1 DEF AnswersPend
  <2>3. c[s].to \in Procs
    BY <2>2 DEF ServersAreAsked
  <2>4. ASSUME NEW z \in W2[c[s].to] \cup R2[c[s].to] PROVE z.id # x.reply_to
    <3>1. CASE c[s].to = p
      <4>1. z \in W[p] \/ z = r
        BY <3>1 DEF Deals
      <4> QED BY <2>2, <3>1, <4>1
    <3>2. CASE c[s].to # p
      BY <2>2, <2>3, <3>2 DEF Deals
    <3> QED BY <3>1, <3>2
  <2>5. ASSUME NEW z \in H2[c[s].to] PROVE z.id # x.reply_to
    BY <2>2, <2>3
  <2> QED BY <2>2, <2>4, <2>5
<1>10. AskedAreSomewhere(H2, W2, R2, ask, c)
  <2> SUFFICES ASSUME NEW s \in Procs, ask[s] # 0
               PROVE  \/ \E z \in H2[c[s].to] : IsRequest(z) /\ z.id = ask[s] /\ z.from = s
                      \/ \E z \in W2[c[s].to] : z.id = ask[s] /\ z.from = s
                      \/ \E z \in R2[c[s].to] : z.id = ask[s] /\ z.from = s
                      \/ \E x \in H2[s] : x.reply_to = ask[s]
    BY DEF AskedAreSomewhere
  <2> DEFINE q == c[s].to
  <2>1. q \in Procs
    BY DEF ServersAreAsked
  <2>2. \/ \E z \in H[q] : IsRequest(z) /\ z.id = ask[s] /\ z.from = s
        \/ \E z \in W[q] : z.id = ask[s] /\ z.from = s
        \/ \E z \in R[q] : z.id = ask[s] /\ z.from = s
        \/ \E x \in H[s] : x.reply_to = ask[s]
    BY DEF AskedAreSomewhere
  <2> HIDE DEF q
  <2>3. ASSUME NEW x \in H[s], x.reply_to = ask[s] PROVE x \in H2[s]
    BY <2>3
  <2>4. ASSUME NEW z \in W[q] \cup R[q] PROVE z \in W2[q] \cup R2[q]
    BY <2>1 DEF Deals
  <2>5. ASSUME NEW z \in H[q], IsRequest(z) PROVE z \in H2[q] \/ z \in W2[q] \cup R2[q]
    <3>1. CASE q = p /\ z = r
      BY <2>5, <3>1 DEF Deals
    <3>2. CASE ~(q = p /\ z = r)
      BY <2>1, <3>2
    <3> QED BY <3>1, <3>2
  <2>6. \/ \E z \in H2[q] : IsRequest(z) /\ z.id = ask[s] /\ z.from = s
        \/ \E z \in W2[q] : z.id = ask[s] /\ z.from = s
        \/ \E z \in R2[q] : z.id = ask[s] /\ z.from = s
        \/ \E x \in H2[s] : x.reply_to = ask[s]
    <3>1. CASE \E z \in H[q] : IsRequest(z) /\ z.id = ask[s] /\ z.from = s
      BY <2>5, <3>1
    <3>2. CASE \E z \in W[q] \cup R[q] : z.id = ask[s] /\ z.from = s
      BY <2>4, <3>2
    <3>3. CASE \E x \in H[s] : x.reply_to = ask[s]
      BY <2>3, <3>3
    <3> QED BY <2>2, <3>1, <3>2, <3>3
  <2> QED BY <2>6 DEF q
<1> QED BY <1>2, <1>3, <1>4, <1>7, <1>8, <1>9, <1>10

-----------------------------------------------------------------------------
(* Queues.                                                                 *)

\* The first message that a probe accepts is one it accepts.
LEMMA ProbedIsThere ==
  ASSUME NEW q \in Seq(Message), NEW r \in Nat, Matching(q, r) # {}
  PROVE  Probed(q, r) \in In(q) /\ (r = 0 \/ Probed(q, r).reply_to = r)
<1> DEFINE M == Matching(q, r)
<1>1. M \subseteq DOMAIN q /\ DOMAIN q \subseteq Nat /\ M # {}
  BY DEF Matching
<1> HIDE DEF M
<1>2. PICK i \in M : \A j \in M : i <= j
  BY <1>1, LeastElement
<1> DEFINE k == CHOOSE m \in M : \A j \in M : m <= j
<1>3. k \in M
  BY <1>2
<1>4. Probed(q, r) = q[k]
  BY DEF Probed, M
<1> HIDE DEF k
<1> QED BY <1>1, <1>3, <1>4 DEF Matching, M, In

\* Removing a message by its id removes it and no other.
LEMMA RemovedLeaves ==
  ASSUME NEW q \in Seq(Message), IdsDiffer(q), NEW x \in In(q)
  PROVE  /\ Removed(q, x.id) \in Seq(Message) /\ IdsDiffer(Removed(q, x.id))
         /\ In(Removed(q, x.id)) = In(q) \ {x}
<1>1. PICK p \in DOMAIN q : q[p] = x
  BY DEF In
<1> DEFINE v == RemoveAt(q, p)
<1>2. DOMAIN q = 1 .. Len(q) /\ Len(q) \in Nat
  OBVIOUS
<1>3. \A j \in DOMAIN q : q[j].id = x.id <=> j = p
  BY <1>1 DEF IdsDiffer
<1>4. p \in DOMAIN q /\ q[p].id = x.id /\ \A j \in DOMAIN q : q[j].id = x.id => p <= j
  BY <1>1, <1>2, <1>3
<1>5. ItemById(q, x.id) = p
  BY <1>3, <1>4 DEF ItemById
<1>6. Removed(q, x.id) = v
  BY <1>5 DEF Removed
<1>7. v \in Seq(Message) /\ Omits(q, p, v)
  BY <1>1, <1>2, RemoveAtOmits
<1> HIDE DEF v
<1>8. PICK g \in [DOMAIN v -> DOMAIN q] :
        /\ \A i \in DOMAIN v : v[i] = q[g[i]] /\ g[i] # p
        /\ \A i, j \in DOMAIN v : i < j => g[i] < g[j]
        /\ \A k \in DOMAIN q : k # p => \E i \in DOMAIN v : g[i] = k
  BY <1>7 DEF Omits
<1>9. IdsDiffer(v)
  <2> SUFFICES ASSUME NEW i \in DOMAIN v, NEW j \in DOMAIN v, v[i].id = v[j].id PROVE i = j
    BY DEF IdsDiffer
  <2>1. g[i] = g[j] /\ g[i] \in Nat
    BY <1>2, <1>8 DEF IdsDiffer
  <2>2. i \in Nat /\ j \in Nat
    BY <1>7
  <2> QED BY <1>8, <2>1, <2>2
<1>10. ASSUME NEW y \in In(v) PROVE y \in In(q) /\ y # x
  <2>1. PICK i \in DOMAIN v : y = v[i]
    BY DEF In
  <2>2. y = q[g[i]] /\ g[i] # p /\ g[i] \in DOMAIN q
    BY <1>8, <2>1
  <2> QED BY <1>3, <2>2 DEF In
<1>11. ASSUME NEW y \in In(q), y # x PROVE y \in In(v)
  <2>1. PICK k \in DOMAIN q : y = q[k]
    BY DEF In
  <2>2. PICK i \in DOMAIN v : g[i] = k
    BY <1>1, <1>8, <1>11, <2>1
  <2>3. y = v[i]
    BY <1>8, <2>1, <2>2
  <2> QED BY <2>3 DEF In
<1>12. In(v) = In(q) \ {x}
  BY <1>10, <1>11
<1> QED BY <1>6, <1>7, <1>9, <1>12

LEMMA AppendedJoins ==
  ASSUME NEW q \in Seq(Message), IdsDiffer(q), NEW x \in Message, \A y \in In(q) : y.id # x.id
  PROVE  /\ Append(q, x) \in Seq(Message) /\ IdsDiffer(Append(q, x))
         /\ In(Append(q, x)) = In(q) \cup {x}
<1> DEFINE v == Append(q, x)
           n == Len(q)
<1>1. /\ v \in Seq(Message) /\ Len(v) = n + 1 /\ v[n + 1] = x /\ n \in Nat
      /\ \A i \in 1 .. n : v[i] = q[i]
      /\ DOMAIN q = 1 .. n
  BY AppendProperties
<1> HIDE DEF v, n
<1>2. DOMAIN v = 1 .. n + 1
  BY <1>1
<1>3. IdsDiffer(v)
  <2> SUFFICES ASSUME NEW i \in 1 .. n + 1, NEW j \in 1 .. n + 1, v[i].id = v[j].id PROVE i = j
    BY <1>2 DEF IdsDiffer
  <2>1. CASE i \in 1 .. n /\ j \in 1 .. n
    BY <1>1, <2>1 DEF IdsDiffer
  <2>2. CASE i = n + 1 /\ j \in 1 .. n
    <3>1. q[j] \in In(q)
      BY <1>1, <2>2 DEF In
    <3> QED BY <1>1, <2>2, <3>1
  <2>3. CASE j = n + 1 /\ i \in 1 .. n
    <3>1. q[i] \in In(q)
      BY <1>1, <2>3 DEF In
    <3> QED BY <1>1, <2>3, <3>1
  <2> QED BY <1>1, <2>1, <2>2, <2>3
<1>4. ASSUME NEW y \in In(v) PROVE y \in In(q) \cup {x}
  <2>1. PICK i \in 1 .. n + 1 : y = v[i]
    BY <1>2 DEF In
  <2> QED BY <1>1, <2>1 DEF In
<1>5. ASSUME NEW y \in In(q) PROVE y \in In(v)
  <2>1. PICK i \in 1 .. n : y = q[i]
    BY <1>1 DEF In
  <2>2. i \in 1 .. n + 1 /\ y = v[i]
    BY <1>1, <2>1
  <2> QED BY <1>2, <2>2 DEF In
<1>6. x \in In(v)
  <2>1. n + 1 \in DOMAIN v
    BY <1>1, <1>2
  <2> QED BY <1>1, <2>1 DEF In
<1>7. In(v) = In(q) \cup {x}
  BY <1>4, <1>5, <1>6
<1> QED BY <1>1, <1>3, <1>7 DEF v

-----------------------------------------------------------------------------
(* What scripts owe.                                                       *)

LEMMA OwedTail ==
  ASSUME NEW s \in Seq(Calls), s # <<>>
  PROVE  /\ ~IsAnswer(Head(s)) => OwedIn(Tail(s)) = OwedIn(s)
         /\ IsAnswer(Head(s)) /\ AnswersDiffer(s) =>
              /\ Head(s).request \in OwedIn(s)
              /\ \A z \in OwedIn(s) : z.id = Head(s).request.id => z = Head(s).request
              /\ OwedIn(Tail(s)) = OwedIn(s) \ {Head(s).request}
         /\ AnswersDiffer(s) => AnswersDiffer(Tail(s))
<1> DEFINE t == Tail(s)
           r == Head(s).request
<1>1. /\ Head(s) = s[1] /\ 1 \in DOMAIN s
      /\ \A i \in DOMAIN t : i \in Nat /\ i + 1 \in DOMAIN s /\ t[i] = s[i + 1]
      /\ \A i \in DOMAIN s : i \in Nat /\ (i > 1 => i - 1 \in DOMAIN t /\ t[i - 1] = s[i])
      /\ \A i \in DOMAIN s : i = 1 \/ i > 1
      /\ \A i \in DOMAIN t : i # 0
  <2>1. t \in Seq(Calls)
    BY TailAt
  <2>2. \A i \in DOMAIN t : i # 0
    BY <2>1
  <2> HIDE DEF t
  <2> QED BY <2>2, TailAt DEF t
<1> HIDE DEF t
<1>2. ASSUME NEW z \in OwedIn(t)
      PROVE  \E i \in DOMAIN s : i # 1 /\ IsAnswer(s[i]) /\ z = s[i].request
  <2>1. PICK i \in DOMAIN t : IsAnswer(t[i]) /\ z = t[i].request
    BY DEF OwedIn
  <2>2. i + 1 \in DOMAIN s /\ t[i] = s[i + 1] /\ i + 1 # 1
    BY <1>1
  <2> QED BY <2>1, <2>2
<1>3. ASSUME NEW i \in DOMAIN s, i # 1, IsAnswer(s[i]) PROVE s[i].request \in OwedIn(t)
  <2>1. i - 1 \in DOMAIN t /\ t[i - 1] = s[i]
    BY <1>1, <1>3
  <2> QED BY <1>3, <2>1 DEF OwedIn
<1>4. ASSUME NEW z
      PROVE  z \in OwedIn(s) <=> z \in OwedIn(t) \/ (IsAnswer(s[1]) /\ z = s[1].request)
  BY <1>1, <1>2, <1>3 DEF OwedIn
<1>5. ASSUME ~IsAnswer(Head(s)) PROVE OwedIn(t) = OwedIn(s)
  BY <1>1, <1>4, <1>5
<1>6. ASSUME IsAnswer(Head(s)), AnswersDiffer(s)
      PROVE  /\ r \in OwedIn(s)
             /\ \A z \in OwedIn(s) : z.id = r.id => z = r
             /\ OwedIn(t) = OwedIn(s) \ {r}
  <2>1. r = s[1].request /\ IsAnswer(s[1])
    BY <1>1, <1>6
  <2>2. ASSUME NEW z \in OwedIn(t) PROVE z.id # r.id
    <3>1. PICK i \in DOMAIN s : i # 1 /\ IsAnswer(s[i]) /\ z = s[i].request
      BY <1>2
    <3> QED BY <1>1, <1>6, <2>1, <3>1 DEF AnswersDiffer
  <2>3. r \in OwedIn(s)
    BY <1>4, <2>1
  <2>4. \A z \in OwedIn(s) : z.id = r.id => z = r
    BY <1>4, <2>1, <2>2
  <2>5. r \notin OwedIn(t)
    BY <2>2
  <2>6. \A z : z \in OwedIn(t) <=> z \in OwedIn(s) /\ z # r
    BY <1>4, <2>1, <2>5
  <2>7. OwedIn(t) = OwedIn(s) \ {r}
    BY <2>6
  <2> QED BY <2>3, <2>4, <2>7
<1>7. ASSUME AnswersDiffer(s) PROVE AnswersDiffer(t)
  <2> SUFFICES ASSUME NEW i \in DOMAIN t, NEW j \in DOMAIN t, IsAnswer(t[i]), IsAnswer(t[j]),
                      t[i].request.id = t[j].request.id
               PROVE  i = j
    BY DEF AnswersDiffer
  <2>1. i + 1 = j + 1
    BY <1>1, <1>7 DEF AnswersDiffer
  <2> QED BY <1>1, <2>1
<1> QED BY <1>5, <1>6, <1>7 DEF t

LEMMA PassesTail ==
  ASSUME NEW s \in Seq(Calls), s # <<>>, NEW a, PassesFit(s, a), NEW b,
         Head(s).do = "ask" /\ Head(s).op \in ArgOps => b = Head(s).arg
  PROVE  PassesFit(Tail(s), b)
<1> DEFINE t == Tail(s)
<1>1. /\ Head(s) = s[1] /\ 1 \in DOMAIN s
      /\ \A i \in DOMAIN t : i \in Nat /\ i + 1 \in DOMAIN s /\ t[i] = s[i + 1]
      /\ \A i \in DOMAIN s : i \in Nat /\ (i > 1 => i - 1 \in DOMAIN t /\ t[i - 1] = s[i])
      /\ \A i \in DOMAIN t : i # 0
  <2>1. t \in Seq(Calls)
    BY TailAt
  <2>2. \A i \in DOMAIN t : i # 0
    BY <2>1
  <2> HIDE DEF t
  <2> QED BY <2>2, TailAt DEF t
<1> HIDE DEF t
<1>2. ASSUME NEW i \in DOMAIN t, t[i].do = "pass"
      PROVE  i = 1 /\ b = t[i].request.data.arg
  <2>1. i \in Nat /\ i # 0 /\ i + 1 \in DOMAIN s /\ t[i] = s[i + 1]
    BY <1>1
  <2>2. i + 1 = 2 /\ s[1].do = "ask" /\ s[1].op \in ArgOps /\ s[1].arg = s[i + 1].request.data.arg
    BY <1>2, <2>1 DEF PassesFit
  <2> QED BY <1>1, <2>1, <2>2
<1> QED BY <1>2 DEF PassesFit, t

LEMMA RegistrationTail ==
  ASSUME NEW s \in Seq(Calls), s # <<>>, Registration(s)
  PROVE  Registration(Tail(s))
<1> DEFINE t == Tail(s)
<1>1. /\ t \in Seq(Calls) /\ Len(t) = Len(s) - 1 /\ Len(s) \in Nat
      /\ \A i \in DOMAIN t : i \in Nat /\ i + 1 \in DOMAIN s /\ t[i] = s[i + 1]
      /\ \A i \in DOMAIN s : i \in Nat /\ (i > 1 => i - 1 \in DOMAIN t /\ t[i - 1] = s[i])
  BY TailAt
<1> HIDE DEF t
<1>2. DOMAIN t = 1 .. Len(t) /\ DOMAIN s = 1 .. Len(s)
  BY <1>1
<1>3. ASSUME NEW i \in DOMAIN t, IsAsk(t[i], "REGISTER_DRIVER")
      PROVE  i + 1 = Len(t) /\ IsAsk(t[i + 1], "MOUNT_ROOT")
  <2>1. i + 1 \in DOMAIN s /\ t[i] = s[i + 1] /\ i \in Nat
    BY <1>1
  <2>2. i + 1 + 1 = Len(s) /\ IsAsk(s[i + 1 + 1], "MOUNT_ROOT")
    BY <1>3, <2>1 DEF Registration
  <2>3. i + 1 = Len(t) /\ i + 1 \in DOMAIN t
    BY <1>1, <1>2, <2>1, <2>2
  <2> QED BY <1>1, <2>2, <2>3
<1>4. ASSUME NEW i \in DOMAIN t, IsAsk(t[i], "MOUNT_ROOT")
      PROVE  i = Len(t) /\ (i > 1 => IsAsk(t[i - 1], "REGISTER_DRIVER"))
  <2>1. i + 1 \in DOMAIN s /\ t[i] = s[i + 1] /\ i \in Nat /\ i # 0
    BY <1>1, <1>2
  <2>2. i + 1 = Len(s) /\ (i + 1 > 1 => IsAsk(s[i + 1 - 1], "REGISTER_DRIVER"))
    BY <1>4, <2>1 DEF Registration
  <2>3. i = Len(t) /\ IsAsk(s[i], "REGISTER_DRIVER")
    BY <1>1, <2>1, <2>2
  <2>4. i > 1 => t[i - 1] = s[i]
    BY <1>1, <1>2, <2>1
  <2> QED BY <2>3, <2>4
<1> QED BY <1>3, <1>4 DEF Registration, t

\* What s gives and its first call does not, the rest of s gives.
LEMMA GivesTail ==
  ASSUME NEW s \in Seq(Calls), s # <<>>, NEW x, GivesBefore(s, Len(s) + 1, x)
  PROVE  x \in Gives(Head(s)) \/ GivesBefore(Tail(s), Len(Tail(s)) + 1, x)
<1> DEFINE t == Tail(s)
<1>1. /\ t \in Seq(Calls) /\ Head(s) = s[1]
      /\ \A i \in DOMAIN s : i \in Nat /\ (i > 1 => i - 1 \in DOMAIN t /\ t[i - 1] = s[i])
      /\ \A i \in DOMAIN s : i = 1 \/ i > 1
  BY TailAt
<1> HIDE DEF t
<1>2. PICK j \in DOMAIN s : x \in Gives(s[j])
  BY DEF GivesBefore
<1>3. CASE j = 1
  BY <1>1, <1>2, <1>3
<1>4. CASE j > 1
  <2>1. j - 1 \in DOMAIN t /\ t[j - 1] = s[j]
    BY <1>1, <1>4
  <2>2. j - 1 < Len(t) + 1
    BY <1>1, <2>1
  <2> QED BY <1>2, <2>1, <2>2 DEF GivesBefore, t
<1> QED BY <1>1, <1>3, <1>4

LEMMA ClientOwesNothing ==
  ASSUME NEW p, NEW s, NEW K, Client(p, s, K)
  PROVE  OwedIn(s) = {} /\ AnswersDiffer(s) /\ NoPass(s) /\ \A a : PassesFit(s, a)
  BY DEF Client, OwedIn, AnswersDiffer, NoPass, PassesFit, IsAnswer

\* What the first call of a script needs is known.
LEMMA HeadIsSound ==
  ASSUME NEW p, NEW s, NEW K, Sound(p, s, K), s # <<>>
  PROVE  Head(s) \in Calls /\ MayDo(p, Head(s)) /\ Needs(Head(s)) \subseteq K
<1>1. s \in Seq(Calls) /\ 1 \in DOMAIN s /\ Head(s) = s[1] /\ Head(s) \in Calls
  BY TailAt DEF Sound
<1>2. \A j \in DOMAIN s : ~(j < 1)
  BY <1>1
<1>3. \A x : ~GivesBefore(s, 1, x)
  BY <1>2 DEF GivesBefore
<1> QED BY <1>1, <1>3 DEF Sound

-----------------------------------------------------------------------------
(* The invariant holds at first.                                           *)

LEMMA InitInv == Init => ServicesInv
<1> SUFFICES ASSUME Init PROVE ServicesInv
  OBVIOUS
<1>1. /\ script = [p \in Procs |-> ScriptOf(p)]
      /\ queue = [p \in Procs |-> <<>>]
      /\ lastMsgId = 0
      /\ alive = Booted
      /\ names = {"ata", "fat", "vfs"}
      /\ asked = [p \in Procs |-> 0]
      /\ answer = [p \in Procs |-> NoAnswer]
      /\ drivers = <<"vfs">>
      /\ root = NoRoot
      /\ nonHdsUp = FALSE
      /\ awaiting = [p \in {"vfs", "pci"} |-> <<>>]
  BY DEF Init
<1>2. "ata" \in Known /\ "vfs" \in Known
  BY <1>1 DEF Known, Booted, Residents
<1>3. {"ata", "fat", "vfs", "init", "pci", "sh"} \subseteq Procs
  BY ServiceNames
<1>4. \A p \in Procs : Client(p, script[p], Known)
  BY <1>1, <1>2, ScriptsBegin
<1>5. \A p \in Procs : /\ script[p] \in Seq(Calls) /\ Sound(p, script[p], Known)
                       /\ OwedIn(script[p]) = {} /\ AnswersDiffer(script[p])
                       /\ \A a : PassesFit(script[p], a)
  BY <1>4, ClientIsSeq, ClientOwesNothing, Zenon DEF Client
<1>6. /\ script["fat"] = FatScript /\ script["pci"] = PciScript /\ script["sh"] = FsInit
  <2>1. /\ ScriptOf("fat") = FatScript /\ ScriptOf("pci") = PciScript
        /\ ScriptOf("sh") = FsInit
    BY <1>3, NamesAssumption DEF ScriptOf, Services, Booted, Harddisk
  <2> QED BY <1>1, <1>3, <2>1
<1>7. Typed
  <2>1. queue \in [Procs -> Seq(Message)] /\ awaiting \in [{"vfs", "pci"} -> Seq(Message)]
    BY <1>1
  <2>2. Booted \subseteq Procs
    BY <1>3 DEF Booted
  <2> QED BY <1>1, <2>1, <2>2 DEF Typed, Booted
<1>8. ScriptsAreSound
  <2>1. script \in [Procs -> Seq(Calls)]
    BY <1>1, <1>5
  <2> QED BY <1>5, <2>1 DEF ScriptsAreSound
<1>9. AskersAsk
  BY <1>1 DEF AskersAsk
<1>10. \A p \in Procs : IdsDiffer(queue[p])
  BY <1>1 DEF IdsDiffer
<1>11. \A p \in Procs : Held[p] = {} /\ Listed[p] = {} /\ Owed[p] = {} /\ asked[p] = 0
  BY <1>1, <1>5 DEF Held, Listed, Owed, In
<1>12. Placed(Held, Listed, Owed, lastMsgId, asked, Asking)
  BY <1>1, <1>11 DEF Placed, ServersAreAsked, IdsAreOld, RequestsPend, ListedPend, OwedPend,
                     AnswersPend, AskedAreSomewhere
<1>13. MessagesAreSound
  BY <1>11 DEF MessagesAreSound
<1>14. ListsAreSound
  BY <1>1, <1>3, <1>11 DEF ListsAreSound, IdsDiffer
<1>15. ServersKnow
  <2>1. FileUser("sh")
    BY DEF FileUser
  <2>2. GivesBefore(script["sh"], Len(script["sh"]) + 1, Mounted)
    BY <1>2, <1>6, <2>1, FsInitIsClient
  <2>3. Mounted \in Known \/ GivesBefore(script["pci"], Len(script["pci"]) + 1, Mounted)
    BY <1>2, <1>6, PciScriptIsClient DEF Leads
  <2> QED BY <2>2, <2>3 DEF ServersKnow
<1>16. Mounting
  <2>1. Registration(script["fat"])
    BY <1>2, <1>6, FatScriptIsClient
  <2>2. ~IsAsk(script["fat"][1], "MOUNT_ROOT")
    <3> DEFINE c1 == Lookup("ata")
               c2 == Ask("ata", "MBR_READ", "boot record")
               c3 == Ask("ata", "MBR_READ", "fat")
               c4 == Lookup("vfs")
               c5 == Ask("vfs", "REGISTER_DRIVER", "")
               c6 == Ask("vfs", "MOUNT_ROOT", "its driver")
    <3>1. c1.do = "lookup"
      BY DEF Lookup
    <3>2. script["fat"] = <<c1, c2, c3, c4, c5, c6>>
      BY <1>6, Zenon DEF FatScript
    <3> HIDE DEF c1, c2, c3, c4, c5, c6
    <3> QED BY <3>1, <3>2 DEF IsAsk
  <2> QED BY <1>1, <1>3, <1>11, <2>1, <2>2 DEF Mounting
<1> QED BY <1>7, <1>8, <1>9, <1>10, <1>12, <1>13, <1>14, <1>15, <1>16 DEF ServicesInv

-----------------------------------------------------------------------------
(* Steps.                                                                  *)

LEMMA KnownStays ==
  ASSUME alive \cap Residents \subseteq alive', root # NoRoot => root' # NoRoot,
         drivers # <<"vfs">> => drivers' # <<"vfs">>
  PROVE  Known \subseteq Known'
  BY DEF Known

\* p has done the call at the head of its script.
LEMMA ScriptsDone ==
  ASSUME ScriptsAreSound, ServersKnow, Registration(script["fat"]),
         NEW p \in Procs, script[p] # <<>>, Done(p),
         Known \subseteq Known', Gives(Head(script[p])) \subseteq Known',
         \A q \in Procs : q # p => answer'[q] = answer[q],
         Head(script[p]).do = "ask" /\ Head(script[p]).op \in ArgOps =>
           answer'[p].arg = Head(script[p]).arg
  PROVE  ScriptsAreSound' /\ ServersKnow' /\ Registration(script'["fat"])
<1> DEFINE s == script[p]
<1>1. /\ s \in Seq(Calls) /\ s # <<>> /\ script \in [Procs -> Seq(Calls)]
      /\ \A q \in Procs : /\ Sound(q, script[q], Known)
                          /\ AnswersDiffer(script[q])
                          /\ PassesFit(script[q], answer[q].arg)
  BY DEF ScriptsAreSound
<1>2. /\ script'[p] = Tail(s)
      /\ \A q \in Procs : q # p => script'[q] = script[q]
      /\ script' \in [Procs -> Seq(Calls)]
  <2>1. Tail(s) \in Seq(Calls)
    BY <1>1, TailAt
  <2> QED BY <1>1, <2>1 DEF Done
<1>3. Sound(p, Tail(s), Known')
  BY <1>1, SoundTail
<1>4. AnswersDiffer(Tail(s))
  BY <1>1, OwedTail
<1>5. PassesFit(Tail(s), answer'[p].arg)
  BY <1>1, PassesTail
<1>6. \A q \in Procs : q # p => Sound(q, script[q], Known')
  BY <1>1, SoundMore
<1>7. ScriptsAreSound'
  <2>1. \A q \in Procs : /\ Sound(q, script'[q], Known')
                         /\ AnswersDiffer(script'[q])
                         /\ PassesFit(script'[q], answer'[q].arg)
    BY <1>1, <1>2, <1>3, <1>4, <1>5, <1>6
  <2> QED BY <1>2, <2>1 DEF ScriptsAreSound
<1>8. {"pci", "sh", "fat"} \subseteq Procs
  BY ServiceNames
<1>9. ServersKnow'
  <2> SUFFICES ASSUME NEW q \in {"pci", "sh"}, Mounted \notin Known'
               PROVE  GivesBefore(script'[q], Len(script'[q]) + 1, Mounted)
    BY DEF ServersKnow
  <2>1. GivesBefore(script[q], Len(script[q]) + 1, Mounted)
    BY DEF ServersKnow
  <2>2. CASE q = p
    BY <1>1, <1>2, <2>1, <2>2, GivesTail
  <2>3. CASE q # p
    BY <1>2, <1>8, <2>1, <2>3
  <2> QED BY <2>2, <2>3
<1>10. Registration(script'["fat"])
  <2>1. CASE p = "fat"
    BY <1>1, <1>2, <2>1, RegistrationTail
  <2>2. CASE p # "fat"
    BY <1>2, <1>8, <2>2
  <2> QED BY <2>1, <2>2
<1> QED BY <1>7, <1>9, <1>10

\* Places hold messages.
LEMMA InIsPlace ==
  ASSUME NEW q \in Seq(Message)
  PROVE  In(q) \subseteq Message
  BY DEF In

LEMMA OwedIsPlace ==
  ASSUME NEW s \in Seq(Calls)
  PROVE  OwedIn(s) \subseteq Message
<1>1. \A i \in DOMAIN s : s[i] \in Calls
  OBVIOUS
<1> QED BY <1>1, CallKinds DEF OwedIn

LEMMA PlacesNow ==
  ASSUME Typed, ScriptsAreSound
  PROVE  /\ Held \in Places /\ Listed \in Places /\ Owed \in Places
         /\ \A p \in Procs : /\ Held[p] = In(queue[p])
                             /\ Listed[p] = IF p \in {"vfs", "pci"} THEN In(awaiting[p]) ELSE {}
                             /\ Owed[p] = OwedIn(script[p])
<1>1. \A p \in Procs : queue[p] \in Seq(Message) /\ script[p] \in Seq(Calls)
  BY DEF Typed, ScriptsAreSound
<1>2. \A p \in {"vfs", "pci"} : awaiting[p] \in Seq(Message)
  BY DEF Typed
<1>3. /\ \A p \in Procs : In(queue[p]) \subseteq Message /\ OwedIn(script[p]) \subseteq Message
      /\ \A p \in {"vfs", "pci"} : In(awaiting[p]) \subseteq Message
  BY <1>1, <1>2, InIsPlace, OwedIsPlace
<1> QED BY <1>3 DEF Places, Held, Listed, Owed

LEMMA PlacesLater ==
  ASSUME Typed', ScriptsAreSound'
  PROVE  /\ Held' \in Places /\ Listed' \in Places /\ Owed' \in Places
         /\ \A p \in Procs : /\ Held'[p] = In(queue'[p])
                             /\ Listed'[p] = IF p \in {"vfs", "pci"} THEN In(awaiting'[p]) ELSE {}
                             /\ Owed'[p] = OwedIn(script'[p])
<1>1. \A p \in Procs : queue'[p] \in Seq(Message) /\ script'[p] \in Seq(Calls)
  BY DEF Typed, ScriptsAreSound
<1>2. \A p \in {"vfs", "pci"} : awaiting'[p] \in Seq(Message)
  BY DEF Typed
<1>3. /\ \A p \in Procs : In(queue'[p]) \subseteq Message /\ OwedIn(script'[p]) \subseteq Message
      /\ \A p \in {"vfs", "pci"} : In(awaiting'[p]) \subseteq Message
  BY <1>1, <1>2, InIsPlace, OwedIsPlace
<1> QED BY <1>3 DEF Places, Held, Listed, Owed

LEMMA OwedDone ==
  ASSUME Typed, ScriptsAreSound, ScriptsAreSound', Typed', NEW p \in Procs, script[p] # <<>>, Done(p)
  PROVE  /\ ~IsAnswer(Head(script[p])) => Owed' = Owed
         /\ IsAnswer(Head(script[p])) =>
              /\ Head(script[p]).request \in Owed[p]
              /\ \A z \in Owed[p] : z.id = Head(script[p]).request.id => z = Head(script[p]).request
              /\ Leaves(Head(script[p]).request, p, Owed, Owed')
         /\ \A q \in Procs : q # p => Asking'[q] = Asking[q]
<1> DEFINE s == script[p]
<1>1. /\ script \in [Procs -> Seq(Calls)] /\ s \in Seq(Calls) /\ AnswersDiffer(s)
  BY DEF ScriptsAreSound
<1>2. script'[p] = Tail(s) /\ \A q \in Procs : q # p => script'[q] = script[q]
  BY <1>1 DEF Done
<1>3. /\ Owed \in Places /\ Owed' \in Places
      /\ \A q \in Procs : Owed[q] = OwedIn(script[q]) /\ Owed'[q] = OwedIn(script'[q])
  BY PlacesNow, PlacesLater
<1>4. \A q \in Procs : q # p => Asking'[q] = Asking[q]
  BY <1>2 DEF Asking
<1> DEFINE r == Head(s).request
           t == Tail(s)
           a == OwedIn(s)
           b == OwedIn(t)
<1> HIDE DEF s
<1>9. /\ ~IsAnswer(Head(s)) => b = a
      /\ IsAnswer(Head(s)) =>
           /\ r \in a
           /\ \A z \in a : z.id = r.id => z = r
           /\ b = a \ {r}
  BY <1>1, OwedTail, Zenon DEF s
<1>10. Owed[p] = a /\ Owed'[p] = b
  BY <1>2, <1>3 DEF s
<1> HIDE DEF a, b, r, t
<1>5. ASSUME ~IsAnswer(Head(s)) PROVE Owed' = Owed
  <2>1. \A q \in Procs : Owed'[q] = Owed[q]
    BY <1>2, <1>3, <1>5, <1>9, <1>10
  <2> QED BY <1>3, <2>1 DEF Places
<1>6. ASSUME IsAnswer(Head(s))
      PROVE  /\ Head(s).request \in Owed[p]
             /\ \A z \in Owed[p] : z.id = Head(s).request.id => z = Head(s).request
             /\ Owed'[p] = Owed[p] \ {Head(s).request}
  BY <1>6, <1>9, <1>10 DEF r
<1>7. \A q \in Procs : q # p => Owed'[q] = Owed[q]
  BY <1>2, <1>3
<1>8. ASSUME IsAnswer(Head(s)) PROVE Leaves(Head(s).request, p, Owed, Owed')
  BY <1>3, <1>6, <1>7, <1>8 DEF Leaves
<1> QED BY <1>4, <1>5, <1>6, <1>8 DEF s

\* What is to be asked later is to be asked now.
LEMMA HasToAskLater ==
  ASSUME script \in [Procs -> Seq(Calls)], NEW p \in Procs, script[p] # <<>>, Done(p),
         \A q \in Procs : q # p => asked'[q] = asked[q], NEW op, HasToAsk(op)'
  PROVE  HasToAsk(op)
<1>1. "fat" \in Procs
  BY ServiceNames
<1>2. PICK i \in DOMAIN script'["fat"] :
        IsAsk(script'["fat"][i], op) /\ ~(i = 1 /\ asked'["fat"] # 0)
  BY DEF HasToAsk
<1>3. CASE p = "fat"
  <2>1. script'["fat"] = Tail(script["fat"]) /\ script["fat"] \in Seq(Calls)
    BY <1>1, <1>3 DEF Done
  <2>2. i \in Nat /\ i + 1 \in DOMAIN script["fat"] /\ script'["fat"][i] = script["fat"][i + 1]
    BY <1>3, <2>1, TailAt
  <2>3. i # 0
    <3> DEFINE t == Tail(script["fat"])
    <3>1. t \in Seq(Calls)
      BY <1>3, <2>1, TailAt
    <3>2. \A j \in DOMAIN t : j # 0
      BY <3>1
    <3> QED BY <2>1, <3>2
  <2> QED BY <1>2, <2>2, <2>3 DEF HasToAsk
<1>4. CASE p # "fat"
  <2>1. script'["fat"] = script["fat"] /\ asked'["fat"] = asked["fat"]
    BY <1>1, <1>4 DEF Done
  <2> QED BY <1>2, <2>1 DEF HasToAsk
<1> QED BY <1>3, <1>4

LEMMA MountingDone ==
  ASSUME Mounting, ScriptsAreSound, Registration(script'["fat"]),
         NEW p \in Procs, script[p] # <<>>, Done(p),
         \A q \in Procs : q # p => asked'[q] = asked[q] /\ answer'[q] = answer[q],
         drivers' = drivers, root' = root,
         p = "fat" /\ IsAsk(Head(script[p]), "REGISTER_DRIVER") => answer'[p].arg = 1,
         \A x \in Held'["vfs"] : IsRequest(x) => x \in Held["vfs"]
  PROVE  Mounting'
<1>1. "fat" \in Procs /\ script \in [Procs -> Seq(Calls)]
  BY ServiceNames DEF ScriptsAreSound
<1>2. \A op : HasToAsk(op)' => HasToAsk(op)
  BY <1>1, HasToAskLater
<1>3. ASSUME script'["fat"] # <<>>, IsAsk(script'["fat"][1], "MOUNT_ROOT"), asked'["fat"] = 0
      PROVE  answer'["fat"].arg = 1
  <2>1. CASE p = "fat"
    <3> DEFINE s == script["fat"]
    <3>1. s \in Seq(Calls) /\ s # <<>> /\ script'["fat"] = Tail(s) /\ Tail(s) \in Seq(Calls)
      BY <1>1, <2>1, TailAt DEF Done
    <3>2. 1 \in DOMAIN Tail(s)
      BY <1>3, <3>1
    <3>3. 1 + 1 \in DOMAIN s /\ Tail(s)[1] = s[1 + 1] /\ Head(s) = s[1]
      BY <3>1, <3>2, TailAt
    <3>4. IsAsk(s[2], "MOUNT_ROOT") /\ 2 \in DOMAIN s
      BY <1>3, <3>1, <3>3
    <3>5. IsAsk(s[2 - 1], "REGISTER_DRIVER")
      BY <3>4 DEF Mounting, Registration
    <3> QED BY <2>1, <3>3, <3>5
  <2>2. CASE p # "fat"
    <3>1. script'["fat"] = script["fat"] /\ asked'["fat"] = asked["fat"] /\ answer'["fat"] = answer["fat"]
      BY <1>1, <2>2 DEF Done
    <3> QED BY <1>3, <3>1 DEF Mounting
  <2> QED BY <2>1, <2>2
<1>4. /\ root' # NoRoot => drivers' # <<"vfs">>
      /\ \A x \in Held'["vfs"] : IsRequest(x) =>
           /\ x.data.op = "REGISTER_DRIVER" => drivers' = <<"vfs">>
           /\ x.data.op = "MOUNT_ROOT" => x.data.arg = 1 /\ drivers' # <<"vfs">> /\ root' = NoRoot
  BY DEF Mounting
<1>5. /\ HasToAsk("REGISTER_DRIVER")' => drivers' = <<"vfs">>
      /\ HasToAsk("MOUNT_ROOT")' => root' = NoRoot
  BY <1>2 DEF Mounting
<1> QED BY <1>3, <1>4, <1>5 DEF Mounting

-----------------------------------------------------------------------------
(* The invariant after each step.                                          *)

\* What a call that sends and takes nothing changes.
Quiet(p) ==
  /\ p \in Procs /\ asked[p] = 0 /\ script[p] # <<>> /\ Done(p)
  /\ Head(script[p]).do \notin {"ask", "tell", "reply", "pass"}
  /\ UNCHANGED <<queue, lastMsgId, asked, answer, drivers, root, nonHdsUp, awaiting>>
  /\ alive \subseteq alive' /\ alive' \subseteq Procs /\ names' \subseteq alive'
  /\ Gives(Head(script[p])) \subseteq Known'

LEMMA MessagesStaySound ==
  ASSUME MessagesAreSound, Known \subseteq Known', NEW p \in Procs, NEW x \in Held[p]
  PROVE  SoundMessage(p, x, Known')
  BY DEF MessagesAreSound, SoundMessage

LEMMA QuietKeepsInv ==
  ASSUME ServicesInv, NEW p, Quiet(p)
  PROVE  ServicesInv'
<1> DEFINE c == Head(script[p])
<1>1. /\ Typed /\ ScriptsAreSound /\ AskersAsk /\ MessagesAreSound /\ ListsAreSound
      /\ ServersKnow /\ Mounting
      /\ Placed(Held, Listed, Owed, lastMsgId, asked, Asking)
      /\ \A q \in Procs : IdsDiffer(queue[q])
  BY DEF ServicesInv
<1>2. /\ p \in Procs /\ asked[p] = 0 /\ script[p] # <<>> /\ Done(p)
      /\ c.do # "ask" /\ ~IsAnswer(c)
      /\ alive \subseteq alive' /\ Gives(c) \subseteq Known'
      /\ queue' = queue /\ lastMsgId' = lastMsgId /\ asked' = asked /\ answer' = answer
      /\ drivers' = drivers /\ root' = root /\ nonHdsUp' = nonHdsUp /\ awaiting' = awaiting
  BY DEF Quiet, IsAnswer
<1>3. Known \subseteq Known'
  BY <1>2, KnownStays
<1>4. Registration(script["fat"])
  BY <1>1 DEF Mounting
<1>5. ScriptsAreSound' /\ ServersKnow' /\ Registration(script'["fat"])
  BY <1>1, <1>2, <1>3, <1>4, ScriptsDone
<1>6. Typed'
  <2>1. alive' \subseteq Procs /\ names' \subseteq alive'
    BY DEF Quiet
  <2> QED BY <1>1, <1>2, <2>1 DEF Typed
<1>7. AskersAsk'
  <2>1. \A q \in Procs : q # p => script'[q] = script[q]
    BY <1>1, <1>2 DEF Done, ScriptsAreSound
  <2> QED BY <1>1, <1>2, <2>1 DEF AskersAsk
<1>8. Held' = Held /\ Listed' = Listed
  BY <1>2 DEF Held, Listed
<1>9. Owed' = Owed /\ \A q \in Procs : q # p => Asking'[q] = Asking[q]
  BY <1>1, <1>2, <1>5, <1>6, OwedDone
<1>10. Placed(Held', Listed', Owed', lastMsgId', asked', Asking')
  <2>1. /\ Held \in Places /\ Listed \in Places /\ Owed \in Places /\ lastMsgId \in Nat
        /\ asked \in [Procs -> Nat]
    BY <1>1, PlacesNow DEF Typed
  <2>2. Placed(Held, Listed, Owed, lastMsgId, asked, Asking')
    BY <1>1, <1>2, <1>9, <2>1, PlacedFrame
  <2> QED BY <1>2, <1>8, <1>9, <2>2
<1>11. MessagesAreSound'
  BY <1>1, <1>3, <1>8, MessagesStaySound DEF MessagesAreSound
<1>12. ListsAreSound'
  BY <1>1, <1>2, <1>8 DEF ListsAreSound
<1>13. Mounting'
  <2>1. c.do = "ask" \/ ~IsAsk(c, "REGISTER_DRIVER")
    BY DEF IsAsk
  <2> QED BY <1>1, <1>2, <1>5, <1>8, <2>1, MountingDone
<1>14. \A q \in Procs : IdsDiffer(queue'[q])
  BY <1>1, <1>2
<1> QED BY <1>5, <1>6, <1>7, <1>10, <1>11, <1>12, <1>13, <1>14 DEF ServicesInv

LEMMA QuietSteps ==
  ASSUME ServicesInv, NEW p \in Procs,
         LookupName(p) \/ RegisterName(p) \/ BeginExecution(p) \/ WaitEnds(p)
  PROVE  ServicesInv'
<1> DEFINE c == Head(script[p])
<1>1. alive \subseteq Procs /\ names \subseteq alive /\ script \in [Procs -> Seq(Calls)]
  BY DEF ServicesInv, Typed, ScriptsAreSound
<1>2. script[p] # <<>> => c \in Calls
  BY <1>1, TailAt
<1>3. CASE LookupName(p)
  <2>1. /\ CanRun(p) /\ asked[p] = 0 /\ script[p] # <<>> /\ c.do = "lookup"
        /\ c.name \in names /\ Done(p)
        /\ UNCHANGED <<kernelVars, asked, answer, serverVars, commands, off>>
    BY <1>3 DEF LookupName, Does
  <2>2. Gives(c) \subseteq Known'
    BY <1>1, <2>1 DEF Gives, Known, kernelVars
  <2>3. Quiet(p)
    BY <1>1, <2>1, <2>2 DEF Quiet, kernelVars, serverVars
  <2> QED BY <2>3, QuietKeepsInv
<1>4. CASE RegisterName(p)
  <2>1. /\ CanRun(p) /\ asked[p] = 0 /\ script[p] # <<>> /\ c.do = "register" /\ Done(p)
        /\ names' = names \cup ({c.name} \cap alive)
        /\ UNCHANGED <<queue, lastMsgId, alive, born, asked, answer, serverVars, commands, off>>
    BY <1>4 DEF RegisterName, Does
  <2>2. Gives(c) \subseteq Known'
    BY <2>1 DEF Gives
  <2>3. Quiet(p)
    BY <1>1, <2>1, <2>2 DEF Quiet, serverVars
  <2> QED BY <2>3, QuietKeepsInv
<1>5. CASE BeginExecution(p)
  <2>1. /\ CanRun(p) /\ asked[p] = 0 /\ script[p] # <<>> /\ c.do = "begin" /\ Done(p)
        /\ alive' = alive \cup {c.pid}
        /\ UNCHANGED <<queue, lastMsgId, names, asked, answer, serverVars, commands, off>>
    BY <1>5 DEF BeginExecution, Does
  <2>2. c.pid \in Procs
    BY <1>2, <2>1, CallKinds
  <2>3. Gives(c) \subseteq Known'
    BY <2>1 DEF Gives, Known
  <2>4. Quiet(p)
    BY <1>1, <2>1, <2>2, <2>3 DEF Quiet, serverVars
  <2> QED BY <2>4, QuietKeepsInv
<1>6. CASE WaitEnds(p)
  <2>1. /\ CanRun(p) /\ asked[p] = 0 /\ script[p] # <<>> /\ c.do = "wait" /\ Done(p)
        /\ UNCHANGED <<kernelVars, asked, answer, serverVars, commands, off>>
    BY <1>6 DEF WaitEnds, Does
  <2>2. Gives(c) \subseteq Known'
    BY <2>1 DEF Gives
  <2>3. Quiet(p)
    BY <1>1, <2>1, <2>2 DEF Quiet, kernelVars, serverVars
  <2> QED BY <2>3, QuietKeepsInv
<1> QED BY <1>3, <1>4, <1>5, <1>6

LEMMA ExitKeepsInv ==
  ASSUME ServicesInv, NEW p \in Procs, Exit(p)
  PROVE  ServicesInv'
<1>1. /\ script[p] = <<>> /\ p \notin Residents /\ alive' = alive \ {p} /\ names' = names \ {p}
      /\ script' = script /\ queue' = queue /\ lastMsgId' = lastMsgId /\ asked' = asked
      /\ answer' = answer /\ drivers' = drivers /\ root' = root /\ nonHdsUp' = nonHdsUp
      /\ awaiting' = awaiting
  BY DEF Exit, serverVars
<1>2. /\ Typed /\ ScriptsAreSound /\ AskersAsk /\ MessagesAreSound /\ ListsAreSound
      /\ ServersKnow /\ Mounting
      /\ Placed(Held, Listed, Owed, lastMsgId, asked, Asking)
      /\ \A q \in Procs : IdsDiffer(queue[q])
  BY DEF ServicesInv
<1>3. Known' = Known
  BY <1>1 DEF Known
<1>4. Held' = Held /\ Listed' = Listed /\ Owed' = Owed /\ Asking' = Asking
  BY <1>1 DEF Held, Listed, Owed, Asking
<1>5. Typed'
  <2>1. Booted \ {"init"} \subseteq Residents
    BY DEF Booted, Residents
  <2> QED BY <1>1, <1>2, <2>1 DEF Typed
<1>6. ScriptsAreSound' /\ ServersKnow'
  BY <1>1, <1>2, <1>3 DEF ScriptsAreSound, ServersKnow
<1>7. AskersAsk'
  BY <1>1, <1>2 DEF AskersAsk
<1>8. MessagesAreSound' /\ ListsAreSound'
  BY <1>1, <1>2, <1>3, <1>4 DEF MessagesAreSound, ListsAreSound
<1>9. Mounting'
  BY <1>1, <1>2, <1>4 DEF Mounting, HasToAsk
<1>10. Placed(Held', Listed', Owed', lastMsgId', asked', Asking')
  BY <1>1, <1>2, <1>4
<1> QED BY <1>1, <1>2, <1>5, <1>6, <1>7, <1>8, <1>9, <1>10 DEF ServicesInv

LEMMA KnownIs ==
  /\ Mounted \in Known <=> root # NoRoot
  /\ Registered \in Known <=> drivers # <<"vfs">>
  /\ \A q \in Residents : q \in Known <=> q \in alive
  BY DEF Known, Mounted, Registered, Residents

LEMMA NumbersAreArgs ==
  \A i \in Int : i \in Args
  BY Zenon DEF Args

\* The message that sendQueue puts into a queue.
Sent(p, k, op, arg) == Item(lastMsgId + 1, p, k, [op |-> op, arg |-> arg])

LEMMA SentJoins ==
  ASSUME Typed, \A s \in Procs : IdsDiffer(queue[s]), IdsAreOld(Held, lastMsgId, asked),
         NEW p \in Procs, NEW q \in Procs, NEW k \in Nat, NEW op \in AskOps \cup ToldOps,
         NEW arg \in Args, SendQueue(p, q, k, op, arg)
  PROVE  /\ Sent(p, k, op, arg) \in Message
         /\ Sent(p, k, op, arg).id = lastMsgId + 1 /\ Sent(p, k, op, arg).from = p
         /\ Sent(p, k, op, arg).reply_to = k
         /\ Sent(p, k, op, arg).data.op = op /\ Sent(p, k, op, arg).data.arg = arg
         /\ queue' \in [Procs -> Seq(Message)] /\ \A s \in Procs : IdsDiffer(queue'[s])
         /\ Joins(Sent(p, k, op, arg), q, Held, Held')
         /\ lastMsgId' = lastMsgId + 1 /\ lastMsgId' \in Nat
         /\ alive' = alive /\ names' = names
<1> DEFINE x == Sent(p, k, op, arg)
<1>1. queue \in [Procs -> Seq(Message)] /\ lastMsgId \in Nat
  BY DEF Typed
<1>2. /\ x.id = lastMsgId + 1 /\ x.from = p /\ x.reply_to = k
      /\ x.data.op = op /\ x.data.arg = arg
  BY DEF Sent, Item
<1>3. x \in Message
  BY <1>1 DEF Sent, Item, Message, Data
<1>4. /\ lastMsgId' = lastMsgId + 1 /\ alive' = alive /\ names' = names
      /\ queue' = [queue EXCEPT ![q] = Append(queue[q], x)]
  BY DEF SendQueue, PushBack, Sent
<1> HIDE DEF x
<1>5. \A y \in In(queue[q]) : y.id # x.id
  <2>1. \A y \in In(queue[q]) : y.id <= lastMsgId
    BY DEF IdsAreOld, Held
  <2>2. In(queue[q]) \subseteq Message
    BY <1>1, InIsPlace
  <2>3. \A y \in In(queue[q]) : y.id \in Nat
    BY <2>2 DEF Message
  <2> QED BY <1>1, <1>2, <2>1, <2>3
<1>6. /\ Append(queue[q], x) \in Seq(Message) /\ IdsDiffer(Append(queue[q], x))
      /\ In(Append(queue[q], x)) = In(queue[q]) \cup {x}
  BY <1>1, <1>3, <1>5, AppendedJoins
<1>7. /\ queue' \in [Procs -> Seq(Message)]
      /\ queue'[q] = Append(queue[q], x) /\ \A s \in Procs : s # q => queue'[s] = queue[s]
  BY <1>1, <1>4, <1>6
<1>8. \A s \in Procs : IdsDiffer(queue'[s])
  BY <1>6, <1>7
<1>9. Joins(x, q, Held, Held')
  <2>1. \A s \in Procs : In(queue[s]) \subseteq Message /\ In(queue'[s]) \subseteq Message
    BY <1>1, <1>7, InIsPlace
  <2>2. Held \in Places /\ Held' \in Places
    BY <2>1 DEF Held, Places
  <2>3. \A s \in Procs : Held'[s] = IF s = q THEN Held[q] \cup {x} ELSE Held[s]
    BY <1>6, <1>7 DEF Held
  <2> QED BY <2>2, <2>3 DEF Joins
<1> QED BY <1>1, <1>2, <1>3, <1>4, <1>7, <1>8, <1>9 DEF x

LEMMA AskedOps ==
  ASSUME NEW op \in AskOps
  PROVE  op \notin ToldOps /\ (op = "MOUNT_ROOT" => op \notin ArgOps)
  BY DEF AskOps, ToldOps, ArgOps, FileOps

LEMMA SendAskKeepsInv ==
  ASSUME ServicesInv, NEW p \in Procs, SendAsk(p)
  PROVE  ServicesInv'
<1> DEFINE c == Head(script[p])
           arg == IF c.op = "MOUNT_ROOT" THEN answer[p].arg ELSE c.arg
           x == Sent(p, 0, c.op, arg)
<1>1. /\ Typed /\ ScriptsAreSound /\ AskersAsk /\ MessagesAreSound /\ ListsAreSound
      /\ ServersKnow /\ Mounting
      /\ Placed(Held, Listed, Owed, lastMsgId, asked, Asking)
      /\ \A q \in Procs : IdsDiffer(queue[q])
  BY DEF ServicesInv
<1>2. /\ p \in alive /\ asked[p] = 0 /\ script[p] # <<>> /\ c.do = "ask"
      /\ SendQueue(p, c.to, 0, c.op, arg)
      /\ asked' = [asked EXCEPT ![p] = lastMsgId + 1]
      /\ script' = script /\ answer' = answer
      /\ drivers' = drivers /\ root' = root /\ nonHdsUp' = nonHdsUp /\ awaiting' = awaiting
  BY DEF SendAsk, Does, CanRun, serverVars
<1>3. c \in Calls /\ MayDo(p, c) /\ Needs(c) \subseteq Known
  BY <1>1, <1>2, HeadIsSound DEF ScriptsAreSound
<1>4. c.to \in Procs /\ c.op \in AskOps /\ c.arg \in Args /\ MayAsk(p, c.to, c.op)
  BY <1>2, <1>3, CallKinds DEF MayDo
<1>5. TakenBy(c.op) \subseteq Known
  BY <1>2, <1>3 DEF Needs
<1>6. script[p] \in Seq(Calls) /\ c = script[p][1] /\ 1 \in DOMAIN script[p]
  BY <1>1, <1>2, TailAt DEF ScriptsAreSound
<1>7. c.op = "MOUNT_ROOT" => p = "fat" /\ arg = 1
  <2>1. c.op = "MOUNT_ROOT" => p = "fat"
    BY <1>4 DEF MayAsk, FileOps
  <2> QED BY <1>1, <1>2, <1>6, <2>1 DEF Mounting, IsAsk
<1>8. arg \in Args /\ c.op \in AskOps \cup ToldOps
  <2>1. 1 \in Args
    BY NumbersAreArgs
  <2> QED BY <1>4, <1>7, <2>1
<1> HIDE DEF arg
<1>9. /\ x \in Message /\ x.id = lastMsgId + 1 /\ x.from = p /\ x.reply_to = 0
      /\ x.data.op = c.op /\ x.data.arg = arg
      /\ queue' \in [Procs -> Seq(Message)] /\ \A s \in Procs : IdsDiffer(queue'[s])
      /\ Joins(x, c.to, Held, Held')
      /\ lastMsgId' = lastMsgId + 1 /\ lastMsgId' \in Nat
      /\ alive' = alive /\ names' = names
  BY <1>1, <1>2, <1>4, <1>8, SentJoins DEF Placed
<1> HIDE DEF x
<1>10. Known' = Known
  BY <1>2, <1>9 DEF Known
<1>11. asked' \in [Procs -> Nat] /\ asked'[p] = lastMsgId + 1 /\ lastMsgId + 1 # 0
       /\ \A s \in Procs : s # p => asked'[s] = asked[s]
  BY <1>1, <1>2, <1>9 DEF Typed
<1>12. Typed'
  BY <1>1, <1>2, <1>9, <1>11 DEF Typed
<1>13. ScriptsAreSound' /\ ServersKnow'
  BY <1>1, <1>2, <1>10 DEF ScriptsAreSound, ServersKnow
<1>14. AskersAsk'
  BY <1>1, <1>2, <1>9, <1>11 DEF AskersAsk
<1>15. Listed' = Listed /\ Owed' = Owed /\ Asking' = Asking
  BY <1>2 DEF Listed, Owed, Asking
<1>16. x.data.op \notin ToldOps /\ IsRequest(x) /\ Fits(x.data, c)
  BY <1>4, <1>9, AskedOps DEF IsRequest, Fits, arg
<1>17. Placed(Held', Listed', Owed', lastMsgId', asked', Asking')
  <2>1. /\ Held \in Places /\ Listed \in Places /\ Owed \in Places /\ lastMsgId \in Nat
        /\ asked \in [Procs -> Nat]
    BY <1>1, PlacesNow DEF Typed
  <2>2. Asking[p] = c
    BY <1>2 DEF Asking
  <2>3. Sets(lastMsgId + 1, p, asked, asked')
    BY <1>11, <2>1 DEF Sets
  <2>4. Placed(Held', Listed, Owed, lastMsgId + 1, asked', Asking)
    BY <1>1, <1>2, <1>4, <1>9, <1>16, <2>1, <2>2, <2>3, PlacedAsk, ZenonT(40)
  <2> QED BY <1>9, <1>15, <2>4
<1>18. \A s \in Procs : \A y \in Held'[s] : y \in Held[s] \/ (y = x /\ s = c.to)
  BY <1>9 DEF Joins
<1>19. MessagesAreSound'
  <2>1. x.data.op \in FileOps => Mounted \in Known
    BY <1>5, <1>9 DEF TakenBy
  <2>2. SoundMessage(c.to, x, Known')
    BY <1>9, <1>10, <1>16, <2>1 DEF SoundMessage, ToldOps
  <2> QED BY <1>1, <1>10, <1>18, <2>2, MessagesStaySound DEF MessagesAreSound
<1>20. ListsAreSound'
  BY <1>1, <1>2, <1>15 DEF ListsAreSound
<1>21. Mounting'
  <2>1. "fat" \in Procs /\ "vfs" \in Procs
    BY ServiceNames
  <2>2. \A op : HasToAsk(op)' => HasToAsk(op)
    BY <1>2, <1>11, <2>1 DEF HasToAsk
  <2>3. x.data.op = "REGISTER_DRIVER" => drivers = <<"vfs">>
    <3>1. c.op = "REGISTER_DRIVER" => p = "fat"
      BY <1>4 DEF MayAsk, FileOps
    <3>2. c.op = "REGISTER_DRIVER" => HasToAsk("REGISTER_DRIVER")
      BY <1>2, <1>6, <3>1 DEF HasToAsk, IsAsk
    <3> QED BY <1>1, <1>9, <3>2 DEF Mounting
  <2>4. x.data.op = "MOUNT_ROOT" => x.data.arg = 1 /\ drivers # <<"vfs">> /\ root = NoRoot
    <3>1. c.op = "MOUNT_ROOT" => HasToAsk("MOUNT_ROOT")
      BY <1>2, <1>6, <1>7 DEF HasToAsk, IsAsk
    <3>2. c.op = "MOUNT_ROOT" => Registered \in Known
      BY <1>5 DEF TakenBy, FileOps
    <3> QED BY <1>1, <1>7, <1>9, <3>1, <3>2, KnownIs DEF Mounting
  <2>5. \A y \in Held'["vfs"] : IsRequest(y) =>
          /\ y.data.op = "REGISTER_DRIVER" => drivers = <<"vfs">>
          /\ y.data.op = "MOUNT_ROOT" => y.data.arg = 1 /\ drivers # <<"vfs">> /\ root = NoRoot
    BY <1>1, <1>18, <2>1, <2>3, <2>4 DEF Mounting
  <2>6. script["fat"] # <<>> /\ IsAsk(script["fat"][1], "MOUNT_ROOT") /\ asked'["fat"] = 0 =>
          answer["fat"].arg = 1
    BY <1>1, <1>11, <2>1 DEF Mounting
  <2>7. /\ HasToAsk("REGISTER_DRIVER")' => drivers = <<"vfs">>
        /\ HasToAsk("MOUNT_ROOT")' => root = NoRoot
        /\ Registration(script["fat"]) /\ (root # NoRoot => drivers # <<"vfs">>)
    BY <1>1, <2>2 DEF Mounting
  <2> QED BY <1>2, <2>5, <2>6, <2>7 DEF Mounting
<1> QED BY <1>9, <1>12, <1>13, <1>14, <1>17, <1>19, <1>20, <1>21 DEF ServicesInv

\* What a step that ends with a call of p leaves sound, given where the requests are.
LEMMA DoneKeepsInv ==
  ASSUME ServicesInv, NEW p \in Procs, script[p] # <<>>, Done(p), Typed', asked'[p] = 0,
         \A q \in Procs : q # p => asked'[q] = asked[q] /\ answer'[q] = answer[q],
         Head(script[p]).do = "ask" /\ Head(script[p]).op \in ArgOps =>
           answer'[p].arg = Head(script[p]).arg,
         IsAsk(Head(script[p]), "REGISTER_DRIVER") => answer'[p].arg = 1,
         Gives(Head(script[p])) \subseteq Known,
         alive' = alive, drivers' = drivers, root' = root, nonHdsUp' = nonHdsUp,
         awaiting' = awaiting,
         \A q \in Procs : IdsDiffer(queue'[q]),
         \A q \in Procs : \A y \in Held'[q] :
           y \in Held[q] \/ (~IsRequest(y) /\ SoundMessage(q, y, Known)),
         Placed(Held', Listed', Owed', lastMsgId', asked', Asking')
  PROVE  ServicesInv'
<1>1. /\ Typed /\ ScriptsAreSound /\ AskersAsk /\ MessagesAreSound /\ ListsAreSound
      /\ ServersKnow /\ Mounting
  BY DEF ServicesInv
<1>2. Known' = Known
  BY DEF Known
<1>3. Registration(script["fat"])
  BY <1>1 DEF Mounting
<1>4. ScriptsAreSound' /\ ServersKnow' /\ Registration(script'["fat"])
  <2>1. \A q \in Procs : q # p => answer'[q] = answer[q]
    OBVIOUS
  <2>2. Known \subseteq Known' /\ Gives(Head(script[p])) \subseteq Known'
    BY <1>2
  <2> QED BY <1>1, <1>3, <2>1, <2>2, ScriptsDone
<1>5. AskersAsk'
  <2>1. \A q \in Procs : q # p => script'[q] = script[q]
    BY <1>1 DEF Done, ScriptsAreSound
  <2> QED BY <1>1, <2>1 DEF AskersAsk
<1>6. MessagesAreSound'
  <2>1. \A q \in Procs : \A y \in Held'[q] : SoundMessage(q, y, Known)
    BY <1>1 DEF MessagesAreSound
  <2> QED BY <1>2, <2>1 DEF MessagesAreSound
<1>7. ListsAreSound'
  BY <1>1 DEF ListsAreSound, Listed
<1>8. Mounting'
  <2>1. \A y \in Held'["vfs"] : IsRequest(y) => y \in Held["vfs"]
    BY ServiceNames
  <2> QED BY <1>1, <1>4, <2>1, MountingDone
<1> QED BY <1>4, <1>5, <1>6, <1>7, <1>8 DEF ServicesInv

LEMMA SendTellKeepsInv ==
  ASSUME ServicesInv, NEW p \in Procs, SendTell(p)
  PROVE  ServicesInv'
<1> DEFINE c == Head(script[p])
           blank == ""
           x == Sent(p, 0, c.op, blank)
<1>1. /\ Typed /\ ScriptsAreSound
      /\ Placed(Held, Listed, Owed, lastMsgId, asked, Asking)
      /\ \A q \in Procs : IdsDiffer(queue[q])
  BY DEF ServicesInv
<1>2. SendQueue(p, c.to, 0, c.op, blank)
  BY Zenon DEF SendTell
<1>3. blank \in Args
  BY Zenon DEF Args
<1> HIDE DEF blank
<1>4. Does(p, "tell") /\ Done(p) /\ UNCHANGED <<asked, answer, serverVars, commands, off>>
  BY Zenon DEF SendTell
<1>5. /\ p \in alive /\ asked[p] = 0 /\ script[p] # <<>> /\ c.do = "tell"
      /\ asked' = asked /\ answer' = answer
      /\ drivers' = drivers /\ root' = root /\ nonHdsUp' = nonHdsUp /\ awaiting' = awaiting
  BY <1>4 DEF Does, CanRun, serverVars
<1>6. c \in Calls /\ MayDo(p, c)
  BY <1>1, <1>5, HeadIsSound DEF ScriptsAreSound
<1>7. c.to \in Procs /\ c.op \in ToldOps /\ MayTell(c.to, c.op)
  BY <1>5, <1>6, CallKinds DEF MayDo
<1>8. /\ x \in Message /\ x.id = lastMsgId + 1 /\ x.from = p /\ x.reply_to = 0
      /\ x.data.op = c.op
      /\ queue' \in [Procs -> Seq(Message)] /\ \A s \in Procs : IdsDiffer(queue'[s])
      /\ Joins(x, c.to, Held, Held')
      /\ lastMsgId' = lastMsgId + 1 /\ lastMsgId' \in Nat
      /\ alive' = alive /\ names' = names
  BY <1>1, <1>2, <1>3, <1>7, SentJoins DEF Placed
<1> HIDE DEF x
<1>9. Typed'
  BY <1>1, <1>5, <1>8 DEF Typed
<1>10. Known \subseteq Known'
  BY <1>5, <1>8 DEF Known
<1>11. Gives(c) = {} /\ ~IsAnswer(c) /\ ~IsAsk(c, "REGISTER_DRIVER") /\ ~IsRequest(x)
  BY <1>5, <1>7, <1>8 DEF Gives, IsAnswer, IsAsk, IsRequest
<1>12. ScriptsAreSound'
  <2>1. ServersKnow /\ Registration(script["fat"])
    BY DEF ServicesInv, Mounting
  <2> QED BY <1>1, <1>4, <1>5, <1>10, <1>11, <2>1, ScriptsDone
<1>13. Owed' = Owed /\ \A q \in Procs : q # p => Asking'[q] = Asking[q]
  BY <1>1, <1>4, <1>5, <1>9, <1>11, <1>12, OwedDone
<1>14. Listed' = Listed
  BY <1>5 DEF Listed
<1>15. Placed(Held', Listed', Owed', lastMsgId', asked', Asking')
  <2>1. /\ Held \in Places /\ Listed \in Places /\ Owed \in Places /\ lastMsgId \in Nat
        /\ asked \in [Procs -> Nat] /\ Held' \in Places
    BY <1>1, <1>9, <1>12, PlacesNow, PlacesLater DEF Typed
  <2>2. Placed(Held', Listed, Owed, lastMsgId + 1, asked, Asking)
    BY <1>1, <1>7, <1>8, <1>11, <2>1, PlacedTell
  <2>3. \A s \in Procs : asked[s] # 0 => Asking'[s] = Asking[s]
    BY <1>5, <1>13
  <2>4. lastMsgId + 1 \in Nat
    BY <2>1
  <2>5. Placed(Held', Listed, Owed, lastMsgId + 1, asked, Asking')
    BY <2>1, <2>2, <2>3, <2>4, PlacedFrame
  <2> QED BY <1>5, <1>8, <1>13, <1>14, <2>5
<1>16. \A q \in Procs : \A y \in Held'[q] : y \in Held[q] \/ (y = x /\ q = c.to)
  BY <1>8 DEF Joins
<1>17. SoundMessage(c.to, x, Known)
  BY <1>7, <1>8 DEF MayTell, FileOps, ToldOps, SoundMessage
<1>18. \A q \in Procs : \A y \in Held'[q] :
         y \in Held[q] \/ (~IsRequest(y) /\ SoundMessage(q, y, Known))
  BY <1>11, <1>16, <1>17
<1>19. \A q \in Procs : q # p => asked'[q] = asked[q] /\ answer'[q] = answer[q]
  BY <1>5
<1>20. Gives(c) \subseteq Known /\ c.do # "ask"
  BY <1>5, <1>11
<1> QED BY <1>4, <1>5, <1>8, <1>9, <1>11, <1>15, <1>18, <1>19, <1>20, DoneKeepsInv

LEMMA SendReplyKeepsInv ==
  ASSUME ServicesInv, NEW p \in Procs, SendReply(p)
  PROVE  ServicesInv'
<1> DEFINE c == Head(script[p])
           r == c.request
           arg == IF c.do = "reply" THEN c.arg ELSE answer[p].arg
           x == Sent(p, r.id, r.data.op, arg)
<1>1. /\ Typed /\ ScriptsAreSound
      /\ Placed(Held, Listed, Owed, lastMsgId, asked, Asking)
      /\ \A q \in Procs : IdsDiffer(queue[q])
  BY DEF ServicesInv
<1>2. SendQueue(p, r.from, r.id, r.data.op, arg)
  BY DEF SendReply
<1>3. /\ p \in alive /\ asked[p] = 0 /\ script[p] # <<>> /\ IsAnswer(c) /\ Done(p)
      /\ asked' = asked /\ answer' = answer
      /\ drivers' = drivers /\ root' = root /\ nonHdsUp' = nonHdsUp /\ awaiting' = awaiting
  BY DEF SendReply, Does, CanRun, serverVars, IsAnswer
<1>4. c \in Calls /\ MayDo(p, c) /\ Needs(c) \subseteq Known
  BY <1>1, <1>3, HeadIsSound DEF ScriptsAreSound
<1>5. r \in Message
  BY <1>3, <1>4, CallKinds
<1>6. /\ r.from \in Procs /\ r.id \in Nat /\ r.data \in Data
      /\ r.data.op \in AskOps \cup ToldOps /\ r.data.arg \in Args
  BY <1>5 DEF Message, Data
<1>8. c.do = "pass" => answer[p].arg = r.data.arg /\ r.data.op \in FileOps
  <2>1. script[p] \in Seq(Calls) /\ 1 \in DOMAIN script[p] /\ c = script[p][1]
    BY <1>1, <1>3, TailAt DEF ScriptsAreSound
  <2>2. PassesFit(script[p], answer[p].arg)
    BY <1>1 DEF ScriptsAreSound
  <2>3. c.do = "pass" => answer[p].arg = r.data.arg
    BY <2>1, <2>2 DEF PassesFit
  <2> QED BY <1>4, <2>3 DEF MayDo
<1>9. /\ arg \in Args
      /\ r.data.op \in ArgOps => arg = r.data.arg
      /\ r.data.op = "REGISTER_DRIVER" => arg = 1
  <2>1. CASE c.do = "reply"
    <3>1. c.arg \in Args /\ MayAnswer(p, r, c.arg)
      BY <1>4, <2>1, CallKinds DEF MayDo
    <3> QED BY <2>1, <3>1 DEF MayAnswer
  <2>2. CASE c.do = "pass"
    <3>1. arg = r.data.arg /\ r.data.op # "REGISTER_DRIVER"
      BY <1>8, <2>2, SMTT(30) DEF FileOps
    <3> QED BY <1>6, <3>1
  <2> QED BY <1>3, <2>1, <2>2 DEF IsAnswer
<1> HIDE DEF arg
<1>10. /\ x \in Message /\ x.id = lastMsgId + 1 /\ x.from = p /\ x.reply_to = r.id
       /\ x.data.op = r.data.op /\ x.data.arg = arg
       /\ queue' \in [Procs -> Seq(Message)] /\ \A s \in Procs : IdsDiffer(queue'[s])
       /\ Joins(x, r.from, Held, Held')
       /\ lastMsgId' = lastMsgId + 1 /\ lastMsgId' \in Nat
       /\ alive' = alive /\ names' = names
  BY <1>1, <1>2, <1>6, <1>9, SentJoins DEF Placed
<1> HIDE DEF x
<1>11. Typed'
  BY <1>1, <1>3, <1>10 DEF Typed
<1>12. Known \subseteq Known'
  BY <1>3, <1>10 DEF Known
<1>13. Gives(c) = {} /\ c.do # "ask" /\ ~IsAsk(c, "REGISTER_DRIVER")
  BY <1>3 DEF Gives, IsAnswer, IsAsk
<1>14. ScriptsAreSound'
  <2>1. ServersKnow /\ Registration(script["fat"])
    BY DEF ServicesInv, Mounting
  <2> QED BY <1>1, <1>3, <1>12, <1>13, <2>1, ScriptsDone
<1>15. /\ r \in Owed[p] /\ \A z \in Owed[p] : z.id = r.id => z = r
       /\ Leaves(r, p, Owed, Owed')
       /\ \A q \in Procs : q # p => Asking'[q] = Asking[q]
  BY <1>1, <1>3, <1>11, <1>14, OwedDone
<1>16. Listed' = Listed
  BY <1>3 DEF Listed
<1>17. Held \in Places /\ Listed \in Places /\ Owed \in Places /\ Held' \in Places /\ Owed' \in Places
  BY <1>1, <1>11, <1>14, PlacesNow, PlacesLater
<1>18. lastMsgId \in Nat /\ asked \in [Procs -> Nat] /\ lastMsgId + 1 \in Nat
  BY <1>1 DEF Typed
<1> HIDE DEF r
<1>19. Placed(Held', Listed, Owed', lastMsgId + 1, asked, Asking)
  BY <1>1, <1>5, <1>9, <1>10, <1>15, <1>17, <1>18, PlacedReply
<1>20. Placed(Held', Listed', Owed', lastMsgId', asked', Asking')
  <2>1. \A s \in Procs : asked[s] # 0 => Asking'[s] = Asking[s]
    BY <1>3, <1>15
  <2>2. Placed(Held', Listed, Owed', lastMsgId + 1, asked, Asking')
    BY <1>17, <1>18, <1>19, <2>1, PlacedFrame
  <2> QED BY <1>3, <1>10, <1>16, <2>2
<1>21. r.id # 0
  BY <1>1, <1>15 DEF Placed, OwedPend, Pends
<1>22. SoundMessage(r.from, x, Known)
  <2>1. GivenBy(r.data.op) \subseteq Known /\ TakenBy(r.data.op) \cap {Mounted} \subseteq Known
    BY <1>3, <1>4 DEF Needs, IsAnswer, r
  <2>2. r.data.op \in FileOps => Mounted \in Known
    BY <2>1 DEF TakenBy
  <2> QED BY <1>9, <1>10, <1>21, <2>1, <2>2 DEF SoundMessage
<1>23. \A q \in Procs : \A y \in Held'[q] : y \in Held[q] \/ (y = x /\ q = r.from)
  BY <1>10 DEF Joins
<1>24. \A q \in Procs : \A y \in Held'[q] :
         y \in Held[q] \/ (~IsRequest(y) /\ SoundMessage(q, y, Known))
  BY <1>10, <1>21, <1>22, <1>23 DEF IsRequest
<1>25. \A q \in Procs : q # p => asked'[q] = asked[q] /\ answer'[q] = answer[q]
  BY <1>3
<1>26. Gives(c) \subseteq Known
  BY <1>13
<1> QED BY <1>3, <1>10, <1>11, <1>13, <1>20, <1>24, <1>25, <1>26, DoneKeepsInv

LEMMA TakeAnswerKeepsInv ==
  ASSUME ServicesInv, NEW p \in Procs, TakeAnswer(p)
  PROVE  ServicesInv'
<1> DEFINE c == Head(script[p])
           k == asked[p]
           y == Probed(queue[p], k)
<1>1. /\ Typed /\ ScriptsAreSound /\ AskersAsk /\ MessagesAreSound
      /\ Placed(Held, Listed, Owed, lastMsgId, asked, Asking)
      /\ \A q \in Procs : IdsDiffer(queue[q])
  BY DEF ServicesInv
<1>2. /\ k # 0 /\ ~Blocks(ProbeQueueCall(k), queue[p])
      /\ answer' = [answer EXCEPT ![p] = y.data]
      /\ queue' = [queue EXCEPT ![p] = Removed(queue[p], y.id)]
      /\ asked' = [asked EXCEPT ![p] = 0] /\ Done(p)
      /\ lastMsgId' = lastMsgId /\ alive' = alive /\ names' = names
      /\ drivers' = drivers /\ root' = root /\ nonHdsUp' = nonHdsUp /\ awaiting' = awaiting
  BY DEF TakeAnswer, serverVars
<1>3. script[p] # <<>> /\ c.do = "ask" /\ p \in alive
  BY <1>1, <1>2 DEF AskersAsk
<1>4. /\ queue \in [Procs -> Seq(Message)] /\ asked \in [Procs -> Nat] /\ lastMsgId \in Nat
      /\ answer \in [Procs -> Data \cup {NoAnswer}]
  BY <1>1 DEF Typed
<1>5. Matching(queue[p], k) # {}
  BY <1>2 DEF Blocks, ProbeQueueCall
<1>6. y \in In(queue[p]) /\ y.reply_to = k
  <2>1. queue[p] \in Seq(Message) /\ k \in Nat
    BY <1>4
  <2> QED BY <1>2, <1>5, <2>1, ProbedIsThere
<1> HIDE DEF y
<1>7. /\ Removed(queue[p], y.id) \in Seq(Message) /\ IdsDiffer(Removed(queue[p], y.id))
      /\ In(Removed(queue[p], y.id)) = In(queue[p]) \ {y}
  BY <1>1, <1>4, <1>6, RemovedLeaves
<1>8. /\ queue' \in [Procs -> Seq(Message)]
      /\ queue'[p] = Removed(queue[p], y.id)
      /\ \A q \in Procs : q # p => queue'[q] = queue[q]
  BY <1>2, <1>4, <1>7
<1>9. y \in Message /\ y \in Held[p]
  BY <1>4, <1>6, InIsPlace DEF Held
<1>10. Asking[p] = c
  BY <1>3 DEF Asking
<1>11. Fits(y.data, c) /\ y.data \in Data
  BY <1>1, <1>2, <1>6, <1>9, <1>10 DEF Placed, AnswersPend, Message
<1>12. SoundMessage(p, y, Known)
  BY <1>1, <1>9 DEF MessagesAreSound
<1>13. /\ c.op \in ArgOps => y.data.arg = c.arg
       /\ c.op = "REGISTER_DRIVER" => y.data.arg = 1
       /\ GivenBy(c.op) \subseteq Known
  BY <1>2, <1>6, <1>11, <1>12 DEF Fits, SoundMessage
<1>14. Gives(c) \subseteq Known /\ ~IsAnswer(c)
  BY <1>3, <1>13 DEF Gives, IsAnswer
<1>15. /\ asked' \in [Procs -> Nat] /\ asked'[p] = 0 /\ answer'[p] = y.data
       /\ \A q \in Procs : q # p => asked'[q] = asked[q] /\ answer'[q] = answer[q]
       /\ answer' \in [Procs -> Data \cup {NoAnswer}]
  BY <1>2, <1>4, <1>11
<1>16. Typed'
  BY <1>1, <1>2, <1>8, <1>15 DEF Typed
<1>17. Known \subseteq Known'
  BY <1>2 DEF Known
<1>18. /\ c.do = "ask" /\ c.op \in ArgOps => answer'[p].arg = c.arg
       /\ IsAsk(c, "REGISTER_DRIVER") => answer'[p].arg = 1
       /\ Gives(c) \subseteq Known'
       /\ \A q \in Procs : q # p => answer'[q] = answer[q]
  BY <1>13, <1>14, <1>15, <1>17 DEF IsAsk
<1>19. ScriptsAreSound'
  <2>1. ServersKnow /\ Registration(script["fat"])
    BY DEF ServicesInv, Mounting
  <2> QED BY <1>1, <1>2, <1>3, <1>17, <1>18, <2>1, ScriptsDone
<1>20. Owed' = Owed /\ \A q \in Procs : q # p => Asking'[q] = Asking[q]
  BY <1>1, <1>2, <1>3, <1>14, <1>16, <1>19, OwedDone
<1>21. Listed' = Listed
  BY <1>2 DEF Listed
<1>22. Leaves(y, p, Held, Held')
  <2>1. Held \in Places /\ Held' \in Places
    BY <1>1, <1>16, <1>19, PlacesNow, PlacesLater
  <2>2. \A s \in Procs : Held'[s] = IF s = p THEN Held[p] \ {y} ELSE Held[s]
    BY <1>7, <1>8 DEF Held
  <2> QED BY <2>1, <2>2 DEF Leaves
<1>23. Placed(Held', Listed', Owed', lastMsgId', asked', Asking')
  <2>1. Held \in Places /\ Listed \in Places /\ Owed \in Places /\ Held' \in Places
    BY <1>1, <1>16, <1>19, PlacesNow, PlacesLater
  <2>2. Sets(0, p, asked, asked')
    BY <1>4, <1>15 DEF Sets
  <2>3. Placed(Held', Listed, Owed, lastMsgId, asked', Asking)
    BY <1>1, <1>2, <1>4, <1>6, <1>9, <1>22, <2>1, <2>2, PlacedTake
  <2>4. \A s \in Procs : asked'[s] # 0 => Asking'[s] = Asking[s]
    BY <1>15, <1>20
  <2>5. Placed(Held', Listed, Owed, lastMsgId, asked', Asking')
    BY <1>4, <1>15, <2>1, <2>3, <2>4, PlacedFrame
  <2> QED BY <1>2, <1>20, <1>21, <2>5
<1>24. \A q \in Procs : IdsDiffer(queue'[q])
  BY <1>1, <1>7, <1>8
<1>25. \A q \in Procs : \A z \in Held'[q] :
         z \in Held[q] \/ (~IsRequest(z) /\ SoundMessage(q, z, Known))
  BY <1>22 DEF Leaves
<1> QED BY <1>2, <1>3, <1>14, <1>15, <1>16, <1>18, <1>23, <1>24, <1>25, DoneKeepsInv

-----------------------------------------------------------------------------
(* What servers answer.                                                    *)

LEMMA ConcatOwes ==
  ASSUME NEW a \in Seq(Calls), NEW b \in Seq(Calls), AnswersDiffer(a), AnswersDiffer(b),
         \A x \in OwedIn(a), y \in OwedIn(b) : x.id # y.id
  PROVE  AnswersDiffer(a \o b) /\ OwedIn(a \o b) = OwedIn(a) \cup OwedIn(b)
<1> DEFINE u == a \o b
           m == Len(a)
           n == Len(b)
<1>1. /\ u \in Seq(Calls) /\ Len(u) = m + n /\ m \in Nat /\ n \in Nat
      /\ \A i \in 1 .. m : u[i] = a[i]
      /\ \A i \in 1 .. n : u[m + i] = b[i]
      /\ DOMAIN a = 1 .. m /\ DOMAIN b = 1 .. n
  BY ConcatAt
<1> HIDE DEF u, m, n
<1>2. DOMAIN u = 1 .. m + n
  BY <1>1
<1>3. ASSUME NEW i \in DOMAIN u, IsAnswer(u[i])
      PROVE  \/ i \in 1 .. m /\ u[i] = a[i] /\ IsAnswer(a[i]) /\ u[i].request \in OwedIn(a)
             \/ /\ i - m \in 1 .. n /\ u[i] = b[i - m] /\ IsAnswer(b[i - m])
                /\ u[i].request \in OwedIn(b)
  <2>1. CASE i \in 1 .. m
    BY <1>1, <1>3, <2>1 DEF OwedIn
  <2>2. CASE i \notin 1 .. m
    <3>1. i - m \in 1 .. n /\ m + (i - m) = i
      BY <1>1, <1>2, <2>2
    <3>2. u[m + (i - m)] = b[i - m]
      BY <1>1, <3>1
    <3>3. u[i] = b[i - m] /\ i - m \in DOMAIN b
      BY <1>1, <3>1, <3>2
    <3> QED BY <1>3, <3>1, <3>3 DEF OwedIn
  <2> QED BY <2>1, <2>2
<1>4. AnswersDiffer(u)
  <2> SUFFICES ASSUME NEW i \in DOMAIN u, NEW j \in DOMAIN u, IsAnswer(u[i]), IsAnswer(u[j]),
                      u[i].request.id = u[j].request.id
               PROVE  i = j
    BY DEF AnswersDiffer
  <2>1. CASE i \in 1 .. m /\ j \in 1 .. m
    BY <1>1, <2>1 DEF AnswersDiffer
  <2>2. CASE i \notin 1 .. m /\ j \notin 1 .. m
    <3>1. /\ i - m \in DOMAIN b /\ j - m \in DOMAIN b
          /\ u[i] = b[i - m] /\ u[j] = b[j - m]
      BY <1>1, <1>3, <2>2
    <3>2. i - m = j - m
      BY <3>1 DEF AnswersDiffer
    <3> QED BY <1>1, <1>2, <3>2
  <2>3. CASE i \in 1 .. m /\ j \notin 1 .. m
    <3>1. u[j].request \in OwedIn(b)
      BY <1>3, <2>3
    <3>2. u[i].request \in OwedIn(a)
      BY <1>1, <2>3 DEF OwedIn
    <3> QED BY <3>1, <3>2
  <2>4. CASE i \notin 1 .. m /\ j \in 1 .. m
    <3>1. u[i].request \in OwedIn(b)
      BY <1>3, <2>4
    <3>2. u[j].request \in OwedIn(a)
      BY <1>1, <2>4 DEF OwedIn
    <3> QED BY <3>1, <3>2
  <2> QED BY <2>1, <2>2, <2>3, <2>4
<1>5. ASSUME NEW x \in OwedIn(u) PROVE x \in OwedIn(a) \cup OwedIn(b)
  <2>1. PICK i \in DOMAIN u : IsAnswer(u[i]) /\ x = u[i].request
    BY DEF OwedIn
  <2> QED BY <1>3, <2>1
<1>6. ASSUME NEW x \in OwedIn(a) PROVE x \in OwedIn(u)
  <2>1. PICK i \in DOMAIN a : IsAnswer(a[i]) /\ x = a[i].request
    BY DEF OwedIn
  <2>2. i \in DOMAIN u /\ u[i] = a[i]
    BY <1>1, <1>2
  <2> QED BY <2>1, <2>2 DEF OwedIn
<1>7. ASSUME NEW x \in OwedIn(b) PROVE x \in OwedIn(u)
  <2>1. PICK i \in DOMAIN b : IsAnswer(b[i]) /\ x = b[i].request
    BY DEF OwedIn
  <2>2. m + i \in DOMAIN u /\ u[m + i] = b[i]
    BY <1>1, <1>2
  <2> QED BY <2>1, <2>2 DEF OwedIn
<1>8. OwedIn(u) = OwedIn(a) \cup OwedIn(b)
  BY <1>5, <1>6, <1>7
<1> QED BY <1>4, <1>8 DEF u

LEMMA ConcatPasses ==
  ASSUME NEW a \in Seq(Calls), NEW b \in Seq(Calls), NoPass(a), NoPass(b)
  PROVE  NoPass(a \o b) /\ \A x : PassesFit(a \o b, x)
<1> DEFINE u == a \o b
           m == Len(a)
<1>1. /\ u \in Seq(Calls) /\ Len(u) = m + Len(b) /\ m \in Nat
      /\ \A i \in 1 .. m : u[i] = a[i]
      /\ \A i \in 1 .. Len(b) : u[m + i] = b[i]
  BY ConcatAt
<1> HIDE DEF u, m
<1>2. ASSUME NEW i \in DOMAIN u PROVE u[i].do # "pass"
  <2>1. CASE i \in 1 .. m
    <3>1. i \in DOMAIN a
      BY <2>1 DEF m
    <3> QED BY <1>1, <2>1, <3>1 DEF NoPass
  <2>2. CASE i \notin 1 .. m
    <3>1. i - m \in DOMAIN b /\ m + (i - m) = i
      BY <1>1, <2>2
    <3>2. u[m + (i - m)] = b[i - m]
      BY <1>1, <3>1
    <3>3. u[i] = b[i - m]
      BY <3>1, <3>2
    <3> QED BY <3>1, <3>3 DEF NoPass
  <2> QED BY <2>1, <2>2
<1> QED BY <1>2 DEF NoPass, PassesFit, u

\* p may answer r with arg when K is known.
Answers(p, r, arg, K) ==
  /\ r \in Message /\ arg \in Args /\ MayAnswer(p, r, arg)
  /\ GivenBy(r.data.op) \subseteq K
  /\ TakenBy(r.data.op) \cap {Mounted} \subseteq K

LEMMA ReplyIs ==
  ASSUME NEW p, NEW r, NEW arg, NEW K, Answers(p, r, arg, K)
  PROVE  /\ Reply(r, arg) \in Calls /\ Reply(r, arg).do = "reply" /\ Reply(r, arg).request = r
         /\ MayDo(p, Reply(r, arg)) /\ Needs(Reply(r, arg)) \subseteq K
         /\ IsAnswer(Reply(r, arg))
<1> DEFINE c == Reply(r, arg)
<1>1. c \in Calls
  BY ReplyIsCall DEF Answers
<1>2. c.do = "reply" /\ c.request = r /\ c.arg = arg
  BY DEF Reply
<1> HIDE DEF c
<1>3. MayDo(p, c) /\ IsAnswer(c)
  BY <1>2 DEF MayDo, IsAnswer, Answers
<1>4. Needs(c) \subseteq K
  BY <1>2 DEF Needs, IsAnswer, Answers
<1> QED BY <1>1, <1>2, <1>3, <1>4 DEF c

\* One answer.
LEMMA OneReply ==
  ASSUME NEW p, NEW r, NEW arg, NEW K, Answers(p, r, arg, K), NEW a
  PROVE  /\ Sound(p, <<Reply(r, arg)>>, K) /\ AnswersDiffer(<<Reply(r, arg)>>)
         /\ PassesFit(<<Reply(r, arg)>>, a) /\ OwedIn(<<Reply(r, arg)>>) = {r}
         /\ NoPass(<<Reply(r, arg)>>)
<1> DEFINE c == Reply(r, arg)
           s == <<c>>
<1>1. /\ c \in Calls /\ c.do = "reply" /\ c.request = r /\ MayDo(p, c) /\ Needs(c) \subseteq K
      /\ IsAnswer(c)
  BY ReplyIs
<1> HIDE DEF c
<1>2. Sound(p, s, K)
  BY <1>1, SoundOne
<1>3. DOMAIN s = {1} /\ s[1] = c
  OBVIOUS
<1> HIDE DEF s
<1>4. AnswersDiffer(s) /\ PassesFit(s, a) /\ NoPass(s)
  BY <1>1, <1>3 DEF AnswersDiffer, PassesFit, NoPass
<1>5. \A x : x \in OwedIn(s) <=> x = r
  BY <1>1, <1>3 DEF OwedIn
<1>6. OwedIn(s) = {r}
  BY <1>5
<1> QED BY <1>2, <1>4, <1>6 DEF c, s

\* An answer to each of those who await.
LEMMA RepliesOwe ==
  ASSUME NEW p, NEW rs \in Seq(Message), IdsDiffer(rs), NEW K,
         \A r \in In(rs) : \A arg \in Args : Answers(p, r, arg, K), NEW a
  PROVE  /\ Sound(p, Replies(rs), K) /\ AnswersDiffer(Replies(rs))
         /\ PassesFit(Replies(rs), a) /\ OwedIn(Replies(rs)) = In(rs)
         /\ NoPass(Replies(rs))
<1> DEFINE blank == ""
           n == Len(rs)
           s == Replies(rs)
<1>1. blank \in Args
  BY Zenon DEF Args
<1>2. n \in Nat /\ DOMAIN rs = 1 .. n /\ \A i \in 1 .. n : rs[i] \in Message /\ rs[i] \in In(rs)
  BY DEF In
<1>3. s = [i \in DOMAIN rs |-> Reply(rs[i], blank)]
  BY Zenon DEF Replies
<1> HIDE DEF blank, n
<1>4. DOMAIN s = 1 .. n /\ \A i \in 1 .. n : s[i] = Reply(rs[i], blank)
  BY <1>2, <1>3
<1>5. s = [i \in 1 .. n |-> s[i]]
  BY <1>2, <1>3
<1> HIDE DEF s
<1>6. ASSUME NEW i \in 1 .. n
      PROVE  /\ s[i] \in Calls /\ s[i].do = "reply" /\ s[i].request = rs[i]
             /\ MayDo(p, s[i]) /\ Needs(s[i]) \subseteq K /\ IsAnswer(s[i])
  <2> DEFINE r == rs[i]
  <2>1. r \in Message /\ r \in In(rs) /\ s[i] = Reply(r, blank)
    BY <1>2, <1>4
  <2>2. Answers(p, r, blank, K)
    BY <1>1, <2>1
  <2> HIDE DEF r
  <2>3. /\ Reply(r, blank) \in Calls /\ Reply(r, blank).do = "reply"
        /\ Reply(r, blank).request = r
        /\ MayDo(p, Reply(r, blank)) /\ Needs(Reply(r, blank)) \subseteq K
        /\ IsAnswer(Reply(r, blank))
    BY <1>1, <2>1, <2>2, ReplyIs, ZenonT(40)
  <2> QED BY <2>1, <2>3 DEF r
<1>7. s \in Seq(Calls)
  <2>1. [i \in 1 .. n |-> s[i]] \in Seq(Calls)
    BY <1>2, <1>6
  <2> QED BY <1>5, <2>1
<1>8. Sound(p, s, K)
  BY <1>4, <1>6, <1>7 DEF Sound
<1>9. AnswersDiffer(s)
  BY <1>2, <1>4, <1>6 DEF AnswersDiffer, IdsDiffer
<1>10. PassesFit(s, a) /\ NoPass(s)
  BY <1>4, <1>6 DEF PassesFit, NoPass
<1>11. \A x : x \in OwedIn(s) <=> x \in In(rs)
  BY <1>2, <1>4, <1>6 DEF OwedIn, In
<1>12. OwedIn(s) = In(rs)
  BY <1>11
<1> QED BY <1>8, <1>9, <1>10, <1>12 DEF s

\* A request passed on, and its answer passed back.
LEMMA AskAndPass ==
  ASSUME NEW p \in {"fat", "vfs"}, NEW q \in Procs, NEW r \in Message, NEW op \in ArgOps, NEW K,
         r.data.op \in FileOps, MayAsk(p, q, op), q \in K, Mounted \in K, NEW a
  PROVE  LET s == <<Ask(q, op, r.data.arg), Pass(r)>>
         IN  /\ Sound(p, s, K) /\ AnswersDiffer(s) /\ PassesFit(s, a) /\ OwedIn(s) = {r}
             /\ \A i \in DOMAIN s : ~IsAsk(s[i], "REGISTER_DRIVER") /\ ~IsAsk(s[i], "MOUNT_ROOT")
<1> DEFINE c == Ask(q, op, r.data.arg)
           d == Pass(r)
           s == <<c, d>>
<1>1. r.data.arg \in Args /\ op \in AskOps
  BY DEF Message, Data, ArgOps, AskOps
<1>2. c \in Calls /\ d \in Calls
  <2>1. 0 \in Args
    BY NumbersAreArgs
  <2> QED BY <1>1, <2>1, AskIsCall, ReplyIsCall
<1>3. /\ c.do = "ask" /\ c.to = q /\ c.op = op /\ c.arg = r.data.arg
      /\ d.do = "pass" /\ d.request = r
  BY DEF Ask, Pass
<1> HIDE DEF c, d
<1>4. /\ s \in Seq(Calls) /\ DOMAIN s = {1, 2} /\ s[1] = c /\ s[2] = d
  BY <1>2
<1> HIDE DEF s
<1>5. MayDo(p, c) /\ MayDo(p, d) /\ IsAnswer(d) /\ ~IsAnswer(c)
  BY <1>3 DEF MayDo, IsAnswer
<1>6. Needs(c) \subseteq K
  <2>1. TakenBy(op) \subseteq {Mounted}
    BY DEF TakenBy, ArgOps, FileOps
  <2> QED BY <1>3, <2>1 DEF Needs
<1>7. Needs(d) \subseteq K
  BY <1>3, <1>5 DEF Needs, GivenBy, TakenBy, FileOps
<1>8. Sound(p, s, K)
  BY <1>4, <1>5, <1>6, <1>7 DEF Sound
<1>9. AnswersDiffer(s) /\ PassesFit(s, a)
  BY <1>3, <1>4, <1>5 DEF AnswersDiffer, PassesFit
<1>10. \A x : x \in OwedIn(s) <=> x = r
  BY <1>3, <1>4, <1>5 DEF OwedIn
<1>11. OwedIn(s) = {r}
  BY <1>10
<1>12. \A i \in DOMAIN s : ~IsAsk(s[i], "REGISTER_DRIVER") /\ ~IsAsk(s[i], "MOUNT_ROOT")
  BY <1>3, <1>4 DEF IsAsk, ArgOps, FileOps
<1> QED BY <1>8, <1>9, <1>11, <1>12 DEF c, d, s

-----------------------------------------------------------------------------
(* Servers.                                                                *)

\* Whoever sent a request that is in a queue waits for its answer.
LEMMA RequestIs ==
  ASSUME ServicesInv, NEW p \in Procs, NEW r \in Held[p], IsRequest(r)
  PROVE  /\ r \in Message /\ r.from \in Procs /\ r.from \in alive
         /\ asked[r.from] = r.id /\ r.id # 0
         /\ script[r.from] # <<>> /\ IsAsk(Head(script[r.from]), r.data.op)
         /\ MayAsk(r.from, p, r.data.op)
         /\ \A z \in Held[p] : IsRequest(z) /\ z.from = r.from => z = r
<1>1. /\ Typed /\ ScriptsAreSound /\ AskersAsk
      /\ Placed(Held, Listed, Owed, lastMsgId, asked, Asking)
      /\ \A q \in Procs : IdsDiffer(queue[q])
  BY DEF ServicesInv
<1>2. Held \in Places
  BY <1>1, PlacesNow
<1>3. \A z \in Held[p] : z \in Message /\ z.from \in Procs
  BY <1>2 DEF Places, Message
<1>4. \A z \in Held[p] : IsRequest(z) => Pends(p, z, asked, Asking)
  BY <1>1 DEF Placed, RequestsPend
<1>5. /\ asked[r.from] = r.id /\ r.id # 0 /\ Asking[r.from].to = p
      /\ Fits(r.data, Asking[r.from])
  BY <1>4 DEF Pends
<1> DEFINE q == r.from
<1>6. q \in Procs /\ q \in alive /\ script[q] # <<>> /\ Head(script[q]).do = "ask"
  BY <1>1, <1>3, <1>5 DEF AskersAsk
<1>7. Asking[q] = Head(script[q])
  BY <1>6 DEF Asking
<1>8. MayAsk(q, Head(script[q]).to, Head(script[q]).op)
  BY <1>1, <1>6, HeadIsSound DEF ScriptsAreSound, MayDo
<1>9. IsAsk(Head(script[q]), r.data.op) /\ MayAsk(q, p, r.data.op)
  BY <1>5, <1>6, <1>7, <1>8 DEF IsAsk, Fits
<1>10. ASSUME NEW z \in Held[p], IsRequest(z), z.from = q PROVE z = r
  <2>1. z.id = r.id
    BY <1>4, <1>5, <1>10 DEF Pends
  <2> QED BY <1>1, <2>1 DEF Held, In, IdsDiffer
<1> QED BY <1>3, <1>5, <1>6, <1>9, <1>10

\* vfs takes a request of fat, and fat asks that no more.
LEMMA FatAsksOnce ==
  ASSUME ServicesInv, NEW r \in Held["vfs"], IsRequest(r)
  PROVE  /\ r.data.op = "REGISTER_DRIVER" =>
              /\ r.from = "fat" /\ ~HasToAsk("REGISTER_DRIVER")
              /\ \A z \in Held["vfs"] :
                   IsRequest(z) /\ z.data.op \in {"REGISTER_DRIVER", "MOUNT_ROOT"} => z = r
         /\ r.data.op = "MOUNT_ROOT" =>
              /\ r.from = "fat" /\ ~HasToAsk("MOUNT_ROOT") /\ ~HasToAsk("REGISTER_DRIVER")
              /\ \A z \in Held["vfs"] :
                   IsRequest(z) /\ z.data.op \in {"REGISTER_DRIVER", "MOUNT_ROOT"} => z = r
<1> DEFINE s == script["fat"]
<1>1. "vfs" \in Procs /\ "fat" \in Procs
  BY ServiceNames
<1>2. ASSUME NEW z \in Held["vfs"], IsRequest(z), z.data.op \in {"REGISTER_DRIVER", "MOUNT_ROOT"}
      PROVE  z.from = "fat"
  <2>1. MayAsk(z.from, "vfs", z.data.op)
    BY <1>1, <1>2, RequestIs
  <2> QED BY <1>2, <2>1 DEF MayAsk, FileOps
<1>3. s \in Seq(Calls) /\ Registration(s)
  BY <1>1 DEF ServicesInv, ScriptsAreSound, Mounting
<1>4. ASSUME r.data.op \in {"REGISTER_DRIVER", "MOUNT_ROOT"}
      PROVE  /\ r.from = "fat" /\ s # <<>> /\ IsAsk(s[1], r.data.op) /\ asked["fat"] # 0
             /\ \A z \in Held["vfs"] :
                  IsRequest(z) /\ z.data.op \in {"REGISTER_DRIVER", "MOUNT_ROOT"} => z = r
  <2>1. r.from = "fat"
    BY <1>2, <1>4
  <2>2. /\ s # <<>> /\ IsAsk(Head(s), r.data.op) /\ asked["fat"] = r.id /\ r.id # 0
        /\ \A z \in Held["vfs"] : IsRequest(z) /\ z.from = "fat" => z = r
    BY <1>1, <2>1, RequestIs
  <2>3. Head(s) = s[1]
    BY <1>3, <2>2, TailAt
  <2> QED BY <1>2, <2>1, <2>2, <2>3
<1>5. s # <<>> => 1 \in DOMAIN s /\ DOMAIN s \subseteq Int
  BY <1>3
<1>6. ASSUME r.data.op = "REGISTER_DRIVER"
      PROVE  ~HasToAsk("REGISTER_DRIVER")
  <2>1. 1 + 1 = Len(s)
    BY <1>3, <1>4, <1>5, <1>6 DEF Registration
  <2>2. \A i \in DOMAIN s : IsAsk(s[i], "REGISTER_DRIVER") => i = 1
    BY <1>3, <1>4, <1>5, <1>6, <2>1 DEF Registration
  <2> QED BY <1>4, <1>6, <2>2 DEF HasToAsk
<1>7. ASSUME r.data.op = "MOUNT_ROOT"
      PROVE  ~HasToAsk("MOUNT_ROOT") /\ ~HasToAsk("REGISTER_DRIVER")
  <2>1. 1 = Len(s)
    BY <1>3, <1>4, <1>5, <1>7 DEF Registration
  <2>2. \A i \in DOMAIN s : i = 1
    BY <1>3, <2>1
  <2> QED BY <1>4, <1>7, <2>2 DEF HasToAsk
<1> QED BY <1>4, <1>6, <1>7

\* What there is left of the mount when p has taken r.
LEMMA MountingServed ==
  ASSUME ServicesInv, NEW p \in Procs, script[p] = <<>>, NEW r \in Held[p],
         NEW t \in Seq(Calls), script' = [script EXCEPT ![p] = t],
         p = "fat" => \A i \in DOMAIN t :
           ~IsAsk(t[i], "REGISTER_DRIVER") /\ ~IsAsk(t[i], "MOUNT_ROOT"),
         Leaves(r, p, Held, Held'), asked' = asked, answer' = answer,
         \/ drivers' = drivers /\ root' = root
         \/ /\ p = "vfs" /\ IsRequest(r) /\ r.data.op = "REGISTER_DRIVER"
            /\ drivers' # <<"vfs">> /\ root' = root
         \/ /\ p = "vfs" /\ IsRequest(r) /\ r.data.op = "MOUNT_ROOT"
            /\ drivers' = drivers /\ root' # NoRoot
  PROVE  Mounting'
<1>1. "vfs" \in Procs /\ "fat" \in Procs /\ Mounting /\ script \in [Procs -> Seq(Calls)]
  BY ServiceNames DEF ServicesInv, ScriptsAreSound
<1>2. /\ p = "fat" => script'["fat"] = t
      /\ p # "fat" => script'["fat"] = script["fat"]
  BY <1>1
<1>3. Registration(script'["fat"])
  <2>1. CASE p = "fat"
    BY <1>2, <2>1 DEF Registration
  <2>2. CASE p # "fat"
    BY <1>1, <1>2, <2>2 DEF Mounting
  <2> QED BY <2>1, <2>2
<1>4. /\ HasToAsk("REGISTER_DRIVER")' => HasToAsk("REGISTER_DRIVER")
      /\ HasToAsk("MOUNT_ROOT")' => HasToAsk("MOUNT_ROOT")
  <2>1. CASE p = "fat"
    BY <1>2, <2>1 DEF HasToAsk
  <2>2. CASE p # "fat"
    BY <1>2, <2>2 DEF HasToAsk
  <2> QED BY <2>1, <2>2
<1>5. script'["fat"] # <<>> /\ IsAsk(script'["fat"][1], "MOUNT_ROOT") /\ asked'["fat"] = 0 =>
        answer'["fat"].arg = 1
  <2>1. CASE p = "fat"
    <3>1. t # <<>> => 1 \in DOMAIN t
      OBVIOUS
    <3> QED BY <1>2, <2>1, <3>1
  <2>2. CASE p # "fat"
    BY <1>1, <1>2, <2>2 DEF Mounting
  <2> QED BY <2>1, <2>2
<1>6. \A x \in Held'["vfs"] : x \in Held["vfs"] /\ (p = "vfs" => x # r)
  BY <1>1 DEF Leaves
<1>7. CASE drivers' = drivers /\ root' = root
  BY <1>1, <1>3, <1>4, <1>5, <1>6, <1>7 DEF Mounting
<1>8. CASE /\ p = "vfs" /\ IsRequest(r) /\ r.data.op = "REGISTER_DRIVER"
           /\ drivers' # <<"vfs">> /\ root' = root
  <2>1. /\ ~HasToAsk("REGISTER_DRIVER")
        /\ \A z \in Held["vfs"] :
             IsRequest(z) /\ z.data.op \in {"REGISTER_DRIVER", "MOUNT_ROOT"} => z = r
    BY <1>8, FatAsksOnce
  <2>2. \A x \in Held'["vfs"] : IsRequest(x) =>
          x.data.op # "REGISTER_DRIVER" /\ x.data.op # "MOUNT_ROOT"
    BY <1>6, <1>8, <2>1
  <2> QED BY <1>1, <1>3, <1>4, <1>5, <1>8, <2>1, <2>2 DEF Mounting
<1>9. CASE /\ p = "vfs" /\ IsRequest(r) /\ r.data.op = "MOUNT_ROOT"
           /\ drivers' = drivers /\ root' # NoRoot
  <2>1. /\ ~HasToAsk("REGISTER_DRIVER") /\ ~HasToAsk("MOUNT_ROOT")
        /\ \A z \in Held["vfs"] :
             IsRequest(z) /\ z.data.op \in {"REGISTER_DRIVER", "MOUNT_ROOT"} => z = r
    BY <1>9, FatAsksOnce
  <2>2. \A x \in Held'["vfs"] : IsRequest(x) =>
          x.data.op # "REGISTER_DRIVER" /\ x.data.op # "MOUNT_ROOT"
    BY <1>6, <1>9, <2>1
  <2>3. drivers # <<"vfs">>
    BY <1>1, <1>9 DEF Mounting
  <2> QED BY <1>1, <1>3, <1>4, <1>5, <1>9, <2>1, <2>2, <2>3 DEF Mounting
<1> QED BY <1>7, <1>8, <1>9

LEMMA HeldDiffer ==
  ASSUME ServicesInv, NEW p \in Procs, NEW r \in Held[p], NEW z \in Held[p], z.id = r.id
  PROVE  z = r
<1>1. IdsDiffer(queue[p]) /\ Held[p] = In(queue[p])
  BY DEF ServicesInv, Held
<1>2. PICK i \in DOMAIN queue[p] : queue[p][i] = r
  BY <1>1 DEF In
<1>3. PICK j \in DOMAIN queue[p] : queue[p][j] = z
  BY <1>1 DEF In
<1>4. i = j
  BY <1>1, <1>2, <1>3 DEF IdsDiffer
<1> QED BY <1>2, <1>3, <1>4

\* The server p has taken r, and is to do t.
Takes(p, r, t) ==
  /\ p \in Procs /\ p \in alive /\ script[p] = <<>> /\ asked[p] = 0
  /\ r \in Held[p] /\ r.reply_to = 0
  /\ queue' = [queue EXCEPT ![p] = Removed(queue[p], r.id)]
  /\ script' = [script EXCEPT ![p] = t]
  /\ lastMsgId' = lastMsgId /\ alive' = alive /\ names' = names
  /\ asked' = asked /\ answer' = answer

\* t is sound for p.
Handling(p, t, K, a) ==
  /\ Sound(p, t, K) /\ AnswersDiffer(t) /\ PassesFit(t, a)
  /\ p = "fat" => \A i \in DOMAIN t :
       ~IsAsk(t[i], "REGISTER_DRIVER") /\ ~IsAsk(t[i], "MOUNT_ROOT")

\* r and those in W are to be answered: those in A later, those in S at once.
Settles(r, W, A, S) ==
  /\ \A z \in A \cup S : z \in W \/ (IsRequest(r) /\ z = r)
  /\ \A z \in W : z \in A \cup S
  /\ IsRequest(r) => r \in A \cup S
  /\ \A w \in A, z \in S : w.id # z.id

LEMMA TakesKeepsInv ==
  ASSUME ServicesInv, NEW p, NEW r, NEW t, Takes(p, r, t), Handling(p, t, Known', answer[p].arg),
         awaiting' \in [{"vfs", "pci"} -> Seq(Message)],
         drivers' \in {<<"vfs">>, <<"vfs", "fat">>}, root' \in {NoRoot, 1}, nonHdsUp' \in BOOLEAN,
         Known \subseteq Known', ListsAreSound',
         \/ drivers' = drivers /\ root' = root
         \/ /\ p = "vfs" /\ IsRequest(r) /\ r.data.op = "REGISTER_DRIVER"
            /\ drivers' # <<"vfs">> /\ root' = root
         \/ /\ p = "vfs" /\ IsRequest(r) /\ r.data.op = "MOUNT_ROOT"
            /\ drivers' = drivers /\ root' # NoRoot,
         \A q \in Procs : q # p => Listed'[q] = Listed[q],
         Settles(r, Listed[p], Listed'[p], OwedIn(t))
  PROVE  ServicesInv'
<1>1. /\ Typed /\ ScriptsAreSound /\ AskersAsk /\ MessagesAreSound /\ ServersKnow
      /\ Placed(Held, Listed, Owed, lastMsgId, asked, Asking)
      /\ \A q \in Procs : IdsDiffer(queue[q])
  BY DEF ServicesInv
<1>2. /\ p \in Procs /\ p \in alive /\ script[p] = <<>> /\ asked[p] = 0
      /\ r \in Held[p] /\ r.reply_to = 0
      /\ queue' = [queue EXCEPT ![p] = Removed(queue[p], r.id)]
      /\ script' = [script EXCEPT ![p] = t]
      /\ lastMsgId' = lastMsgId /\ alive' = alive /\ names' = names
      /\ asked' = asked /\ answer' = answer
  BY DEF Takes
<1>3. /\ queue \in [Procs -> Seq(Message)] /\ script \in [Procs -> Seq(Calls)]
      /\ lastMsgId \in Nat /\ asked \in [Procs -> Nat]
  BY <1>1 DEF Typed, ScriptsAreSound
<1>4. /\ Removed(queue[p], r.id) \in Seq(Message) /\ IdsDiffer(Removed(queue[p], r.id))
      /\ In(Removed(queue[p], r.id)) = In(queue[p]) \ {r}
  <2>1. r \in In(queue[p])
    BY <1>2 DEF Held
  <2> QED BY <1>1, <1>2, <1>3, <2>1, RemovedLeaves
<1>5. /\ queue' \in [Procs -> Seq(Message)]
      /\ queue'[p] = Removed(queue[p], r.id)
      /\ \A q \in Procs : q # p => queue'[q] = queue[q]
  BY <1>2, <1>3, <1>4
<1>6. t \in Seq(Calls)
  BY DEF Handling, Sound
<1>7. /\ script' \in [Procs -> Seq(Calls)] /\ script'[p] = t
      /\ \A q \in Procs : q # p => script'[q] = script[q]
  BY <1>2, <1>3, <1>6
<1>8. Typed'
  BY <1>1, <1>2, <1>5 DEF Typed
<1>9. ScriptsAreSound'
  <2>1. \A q \in Procs : Sound(q, script[q], Known')
    BY <1>1, SoundMore DEF ScriptsAreSound
  <2>2. \A q \in Procs : /\ Sound(q, script'[q], Known')
                         /\ AnswersDiffer(script'[q])
                         /\ PassesFit(script'[q], answer[q].arg)
    BY <1>1, <1>7, <2>1 DEF ScriptsAreSound, Handling
  <2> QED BY <1>2, <1>7, <2>2 DEF ScriptsAreSound
<1>10. AskersAsk'
  BY <1>1, <1>2, <1>7 DEF AskersAsk
<1>11. Leaves(r, p, Held, Held')
  <2>1. Held \in Places /\ Held' \in Places
    BY <1>1, <1>8, <1>9, PlacesNow, PlacesLater
  <2>2. \A s \in Procs : Held'[s] = IF s = p THEN Held[p] \ {r} ELSE Held[s]
    BY <1>4, <1>5 DEF Held
  <2> QED BY <2>1, <2>2 DEF Leaves
<1>12. Placed(Held', Listed', Owed', lastMsgId', asked', Asking')
  <2>1. /\ Listed \in Places /\ Owed \in Places /\ Listed' \in Places /\ Owed' \in Places
        /\ Held \in Places /\ Held' \in Places
        /\ \A q \in Procs : Owed[q] = OwedIn(script[q]) /\ Owed'[q] = OwedIn(script'[q])
    BY <1>1, <1>8, <1>9, PlacesNow, PlacesLater
  <2>2. Owed[p] = {}
    BY <1>2, <2>1 DEF OwedIn
  <2>3. Owed'[p] = OwedIn(t) /\ \A s \in Procs : s # p => Owed'[s] = Owed[s]
    BY <1>2, <1>7, <2>1
  <2>4. Deals(r, p, Listed, Owed, Listed', Owed')
    BY <2>1, <2>2, <2>3 DEF Deals, Settles
  <2>5. \A z \in Held[p] : z.id = r.id => z = r
    BY <1>2, HeldDiffer
  <2>6. Placed(Held', Listed', Owed', lastMsgId, asked, Asking)
    BY <1>1, <1>2, <1>3, <1>11, <2>4, <2>5, PlacedServe
  <2>7. \A s \in Procs : asked[s] # 0 => Asking'[s] = Asking[s]
    BY <1>2, <1>7 DEF Asking
  <2>8. Placed(Held', Listed', Owed', lastMsgId, asked, Asking')
    BY <1>3, <2>1, <2>6, <2>7, PlacedFrame
  <2> QED BY <1>2, <2>8
<1>13. MessagesAreSound'
  <2>1. \A q \in Procs : \A x \in Held'[q] : x \in Held[q]
    BY <1>11 DEF Leaves
  <2> QED BY <1>1, <2>1, MessagesStaySound DEF MessagesAreSound
<1>14. ServersKnow'
  <2> SUFFICES ASSUME NEW q \in {"pci", "sh"}, Mounted \notin Known'
               PROVE  GivesBefore(script'[q], Len(script'[q]) + 1, Mounted)
    BY DEF ServersKnow
  <2>1. GivesBefore(script[q], Len(script[q]) + 1, Mounted)
    BY <1>1 DEF ServersKnow
  <2>2. script[q] # <<>>
    BY <2>1 DEF GivesBefore
  <2>3. q \in Procs
    BY ServiceNames
  <2> QED BY <1>2, <1>7, <2>1, <2>2, <2>3
<1>15. Mounting'
  BY <1>2, <1>6, <1>11, MountingServed DEF Handling
<1>16. \A q \in Procs : IdsDiffer(queue'[q])
  BY <1>1, <1>4, <1>5
<1> QED BY <1>8, <1>9, <1>10, <1>12, <1>13, <1>14, <1>15, <1>16 DEF ServicesInv

\* A request in a queue of a server has another id than those the server lists.
LEMMA TakenIsNotListed ==
  ASSUME ServicesInv, NEW p \in Procs, NEW r \in Held[p]
  PROVE  \A x \in Listed[p] : x.id # r.id
  BY DEF ServicesInv, Placed, ListedPend

LEMMA AnsweredAtOnce ==
  ASSUME ServicesInv, NEW p, NEW r, NEW t, Takes(p, r, t), IsRequest(r),
         Handling(p, t, Known, answer[p].arg), OwedIn(t) = {r},
         drivers' = drivers, root' = root, nonHdsUp' = nonHdsUp, awaiting' = awaiting
  PROVE  ServicesInv'
<1>1. Typed /\ ListsAreSound
  BY DEF ServicesInv
<1>2. p \in Procs /\ r \in Held[p] /\ alive' = alive
  BY DEF Takes
<1>3. Known' = Known
  BY <1>2 DEF Known
<1>4. Listed' = Listed
  BY DEF Listed
<1>5. ListsAreSound'
  BY <1>1, <1>4 DEF ListsAreSound
<1>6. \A x \in Listed[p] : x.id # r.id
  BY <1>2, TakenIsNotListed
<1>7. Settles(r, Listed[p], Listed'[p], OwedIn(t))
  BY <1>4, <1>6 DEF Settles
<1>8. /\ awaiting' \in [{"vfs", "pci"} -> Seq(Message)]
      /\ drivers' \in {<<"vfs">>, <<"vfs", "fat">>} /\ root' \in {NoRoot, 1} /\ nonHdsUp' \in BOOLEAN
  BY <1>1 DEF Typed
<1>9. Handling(p, t, Known', answer[p].arg) /\ \A q \in Procs : q # p => Listed'[q] = Listed[q]
  BY <1>3, <1>4
<1> QED BY <1>3, <1>5, <1>7, <1>8, <1>9, TakesKeepsInv

\* What comes to which server.
LEMMA ServedOps ==
  ASSUME ServicesInv, NEW p \in Procs, NEW r \in Held[p], r.reply_to = 0
  PROVE  /\ \/ ~IsRequest(r) /\ p = "pci" /\ r.data.op = "DMA_UP"
            \/ ~IsRequest(r) /\ p = "acpi" /\ r.data.op = "SHUTDOWN"
            \/ IsRequest(r) /\ p = "ata" /\ r.data.op \in {"MBR_READ", "SET_BAR4"}
            \/ IsRequest(r) /\ p = "fat" /\ r.data.op \in FileOps
            \/ /\ IsRequest(r) /\ p = "vfs"
               /\ r.data.op \in FileOps \cup {"ROOT", "AWAIT_ROOT", "REGISTER_DRIVER", "MOUNT_ROOT"}
            \/ IsRequest(r) /\ p = "pci" /\ r.data.op \in {"DEVICE_CONFIG", "AWAIT_DRIVERS_UP"}
         /\ r.data.op \in FileOps => Mounted \in Known
         /\ r \in Message
<1>1. r \in Message
  BY PlacesNow DEF ServicesInv, Places
<1>2. SoundMessage(p, r, Known)
  BY DEF ServicesInv, MessagesAreSound
<1>3. CASE IsRequest(r)
  <2>1. MayAsk(r.from, p, r.data.op)
    BY <1>3, RequestIs
  <2> QED BY <1>1, <1>2, <1>3, <2>1 DEF MayAsk, SoundMessage
<1>4. CASE ~IsRequest(r)
  <2>1. r.data.op \in ToldOps
    BY <1>4 DEF IsRequest
  <2> QED BY <1>1, <1>2, <1>4, <2>1 DEF SoundMessage, ToldOps
<1> QED BY <1>3, <1>4

\* The server p has taken r, and its own state follows from that.
Serves(p, r) ==
  /\ Takes(p, r, Handles(p, r))
  /\ drivers' = IF r.data.op = "REGISTER_DRIVER" THEN Append(drivers, r.from) ELSE drivers
  /\ root' = IF r.data.op = "MOUNT_ROOT" THEN r.data.arg ELSE root
  /\ nonHdsUp' = (nonHdsUp \/ r.data.op = "DMA_UP")
  /\ awaiting' = [q \in {"vfs", "pci"} |-> IF q = p THEN KeepsAwaiting(p, r) ELSE awaiting[q]]

LEMMA ServeTakes ==
  ASSUME ServicesInv, NEW p \in Procs, Serve(p)
  PROVE  \E r \in Held[p] : Serves(p, r)
<1> DEFINE r == Probed(queue[p], 0)
<1>1. Typed /\ Placed(Held, Listed, Owed, lastMsgId, asked, Asking)
  BY DEF ServicesInv
<1>2. /\ p \in alive /\ script[p] = <<>> /\ asked[p] = 0
      /\ ~Blocks(ProbeQueueCall(0), queue[p])
      /\ queue' = [queue EXCEPT ![p] = Removed(queue[p], r.id)]
      /\ script' = [script EXCEPT ![p] = Handles(p, r)]
      /\ drivers' = IF r.data.op = "REGISTER_DRIVER" THEN Append(drivers, r.from) ELSE drivers
      /\ root' = IF r.data.op = "MOUNT_ROOT" THEN r.data.arg ELSE root
      /\ nonHdsUp' = (nonHdsUp \/ r.data.op = "DMA_UP")
      /\ awaiting' = [q \in DOMAIN awaiting |->
                        IF q = p THEN KeepsAwaiting(p, r) ELSE awaiting[q]]
      /\ lastMsgId' = lastMsgId /\ alive' = alive /\ names' = names
      /\ asked' = asked /\ answer' = answer
  BY DEF Serve, CanRun
<1>3. Matching(queue[p], 0) # {}
  BY <1>2 DEF Blocks, ProbeQueueCall
<1>4. queue[p] \in Seq(Message) /\ DOMAIN awaiting = {"vfs", "pci"}
  BY <1>1 DEF Typed
<1>5. r \in Held[p]
  BY <1>3, <1>4, ProbedIsThere DEF Held
<1> HIDE DEF r
<1>6. r.reply_to = 0
  BY <1>1, <1>2, <1>5 DEF Placed, AnswersPend
<1>7. Takes(p, r, Handles(p, r))
  BY <1>2, <1>5, <1>6 DEF Takes
<1> QED BY <1>2, <1>4, <1>5, <1>7 DEF Serves

\* A client is put on the list of those who await.
LEMMA AnsweredLater ==
  ASSUME ServicesInv, NEW p \in {"vfs", "pci"}, NEW r, Takes(p, r, <<>>), IsRequest(r),
         drivers' = drivers, root' = root, nonHdsUp' = nonHdsUp,
         awaiting' = [q \in {"vfs", "pci"} |->
                        IF q = p THEN Append(awaiting[p], r) ELSE awaiting[q]],
         p = "vfs" => r.data.op = "AWAIT_ROOT" /\ root = NoRoot,
         p = "pci" => r.data.op = "AWAIT_DRIVERS_UP" /\ ~nonHdsUp
  PROVE  ServicesInv'
<1>1. Typed /\ ListsAreSound /\ ScriptsAreSound
  BY DEF ServicesInv
<1>2. p \in Procs /\ r \in Held[p] /\ alive' = alive
  BY DEF Takes
<1>3. Known' = Known
  BY <1>2 DEF Known
<1>4. /\ awaiting \in [{"vfs", "pci"} -> Seq(Message)] /\ r \in Message
  BY <1>1, <1>2, PlacesNow DEF Typed, Places
<1>5. \A q \in {"vfs", "pci"} : Listed[q] = In(awaiting[q])
  BY ServiceNames DEF Listed
<1>6. /\ Append(awaiting[p], r) \in Seq(Message) /\ IdsDiffer(Append(awaiting[p], r))
      /\ In(Append(awaiting[p], r)) = In(awaiting[p]) \cup {r}
  <2>1. IdsDiffer(awaiting[p]) /\ awaiting[p] \in Seq(Message)
    BY <1>1, <1>4 DEF ListsAreSound
  <2>2. \A y \in In(awaiting[p]) : y.id # r.id
    BY <1>2, <1>5, TakenIsNotListed
  <2> QED BY <1>4, <2>1, <2>2, AppendedJoins
<1>7. /\ awaiting' \in [{"vfs", "pci"} -> Seq(Message)]
      /\ awaiting'[p] = Append(awaiting[p], r)
      /\ \A q \in {"vfs", "pci"} : q # p => awaiting'[q] = awaiting[q]
  BY <1>4, <1>6
<1>8. /\ Listed'[p] = Listed[p] \cup {r}
      /\ \A q \in Procs : q # p => Listed'[q] = Listed[q]
  BY <1>2, <1>6, <1>7 DEF Listed
<1>9. ListsAreSound'
  <2>1. IdsDiffer(awaiting'["vfs"]) /\ IdsDiffer(awaiting'["pci"])
    BY <1>1, <1>6, <1>7 DEF ListsAreSound
  <2>2. "vfs" \in Procs /\ "pci" \in Procs
    BY ServiceNames
  <2>3. \A x \in Listed'["vfs"] : x \in Listed["vfs"] \/ (p = "vfs" /\ x = r)
    BY <1>8, <2>2
  <2>4. \A x \in Listed'["pci"] : x \in Listed["pci"] \/ (p = "pci" /\ x = r)
    BY <1>8, <2>2
  <2>5. \A x \in Listed'["vfs"] : x.data.op = "AWAIT_ROOT" /\ root = NoRoot
    BY <1>1, <2>3 DEF ListsAreSound
  <2>6. \A x \in Listed'["pci"] : x.data.op = "AWAIT_DRIVERS_UP" /\ ~nonHdsUp
    BY <1>1, <2>4 DEF ListsAreSound
  <2> QED BY <2>1, <2>5, <2>6 DEF ListsAreSound
<1> DEFINE t == <<>>
<1>10. OwedIn(t) = {}
  BY DEF OwedIn
<1>11. Settles(r, Listed[p], Listed'[p], OwedIn(t))
  BY <1>8, <1>10 DEF Settles
<1>12. Handling(p, t, Known', answer[p].arg)
  BY SoundEmpty DEF Handling, AnswersDiffer, PassesFit
<1>13. drivers' \in {<<"vfs">>, <<"vfs", "fat">>} /\ root' \in {NoRoot, 1} /\ nonHdsUp' \in BOOLEAN
  BY <1>1 DEF Typed
<1>14. Takes(p, r, t)
  OBVIOUS
<1>15. Known \subseteq Known' /\ awaiting' \in [{"vfs", "pci"} -> Seq(Message)]
       /\ \A q \in Procs : q # p => Listed'[q] = Listed[q]
  BY <1>3, <1>7, <1>8
<1> HIDE DEF t
<1> QED BY ONLY ServicesInv, drivers' = drivers, root' = root, <1>9, <1>11, <1>12, <1>13, <1>14,
                <1>15, TakesKeepsInv

\* What an answer that says nothing carries.
Blank == ""

LEMMA BlankIsArg == Blank \in Args
  BY Zenon DEF Args, Blank

\* What each server does with what comes to it.
LEMMA VfsHandling ==
  ASSUME NEW r, NEW op, op = r.data.op
  PROVE  /\ op \in FileOps => VfsHandles(r) = AskDriver(PidForDriver(root), op, r.data.arg) \o <<Pass(r)>>
         /\ op = "ROOT" => VfsHandles(r) = <<Reply(r, root)>>
         /\ op = "REGISTER_DRIVER" => VfsHandles(r) = <<Reply(r, DriverNo)>>
         /\ op = "MOUNT_ROOT" => VfsHandles(r) = MountRoot(r)
         /\ op = "AWAIT_ROOT" /\ root = NoRoot => VfsHandles(r) = <<>>
         /\ op = "AWAIT_ROOT" /\ root # NoRoot => VfsHandles(r) = <<Reply(r, Blank)>>
<1>1. op \in FileOps => VfsHandles(r) = AskDriver(PidForDriver(root), op, r.data.arg) \o <<Pass(r)>>
  BY Zenon DEF VfsHandles, FileOps
<1>2. op = "ROOT" => VfsHandles(r) = <<Reply(r, root)>>
  BY Zenon DEF VfsHandles, FileOps
<1>3. op = "REGISTER_DRIVER" => VfsHandles(r) = <<Reply(r, DriverNo)>>
  BY Zenon DEF VfsHandles, FileOps
<1>4. op = "MOUNT_ROOT" => VfsHandles(r) = MountRoot(r)
  BY Zenon DEF VfsHandles, FileOps
<1>5. op = "AWAIT_ROOT" /\ root = NoRoot => VfsHandles(r) = <<>>
  BY Zenon DEF VfsHandles, FileOps
<1>6. op = "AWAIT_ROOT" /\ root # NoRoot => VfsHandles(r) = <<Reply(r, Blank)>>
  BY Zenon DEF VfsHandles, FileOps, Blank
<1> QED BY <1>1, <1>2, <1>3, <1>4, <1>5, <1>6, Zenon

LEMMA PciHandling ==
  ASSUME NEW r, NEW op, op = r.data.op
  PROVE  /\ op = "DEVICE_CONFIG" => PciHandles(r) = <<Reply(r, r.data.arg)>>
         /\ op = "DMA_UP" => PciHandles(r) = DmaUp(r)
         /\ op = "AWAIT_DRIVERS_UP" /\ ~nonHdsUp => PciHandles(r) = <<>>
         /\ op = "AWAIT_DRIVERS_UP" /\ nonHdsUp => PciHandles(r) = <<Reply(r, Blank)>>
<1>1. op = "DEVICE_CONFIG" => PciHandles(r) = <<Reply(r, r.data.arg)>>
  BY Zenon DEF PciHandles
<1>2. op = "DMA_UP" => PciHandles(r) = DmaUp(r)
  BY Zenon DEF PciHandles
<1>3. op = "AWAIT_DRIVERS_UP" /\ ~nonHdsUp => PciHandles(r) = <<>>
  BY Zenon DEF PciHandles
<1>4. op = "AWAIT_DRIVERS_UP" /\ nonHdsUp => PciHandles(r) = <<Reply(r, Blank)>>
  BY Zenon DEF PciHandles, Blank
<1> QED BY <1>1, <1>2, <1>3, <1>4, Zenon

LEMMA HandlesIs ==
  ASSUME NEW r
  PROVE  /\ Handles("vfs", r) = VfsHandles(r) /\ Handles("fat", r) = FatHandles(r)
         /\ Handles("ata", r) = AtaHandles(r) /\ Handles("pci", r) = PciHandles(r)
         /\ Handles("acpi", r) = <<>>
  BY DEF Handles

LEMMA Keeping ==
  ASSUME NEW p, NEW r, NEW op, op = r.data.op
  PROVE  /\ op = "AWAIT_ROOT" /\ root = NoRoot => KeepsAwaiting(p, r) = Append(awaiting[p], r)
         /\ op = "AWAIT_DRIVERS_UP" /\ ~nonHdsUp => KeepsAwaiting(p, r) = Append(awaiting[p], r)
         /\ op \in {"MOUNT_ROOT", "DMA_UP"} => KeepsAwaiting(p, r) = <<>>
         /\ op \notin {"AWAIT_ROOT", "AWAIT_DRIVERS_UP", "MOUNT_ROOT", "DMA_UP"} =>
              KeepsAwaiting(p, r) = awaiting[p]
         /\ op = "AWAIT_ROOT" /\ root # NoRoot => KeepsAwaiting(p, r) = awaiting[p]
         /\ op = "AWAIT_DRIVERS_UP" /\ nonHdsUp => KeepsAwaiting(p, r) = awaiting[p]
<1>1. op = "AWAIT_ROOT" /\ root = NoRoot => KeepsAwaiting(p, r) = Append(awaiting[p], r)
  BY DEF KeepsAwaiting
<1>2. op = "AWAIT_DRIVERS_UP" /\ ~nonHdsUp => KeepsAwaiting(p, r) = Append(awaiting[p], r)
  BY DEF KeepsAwaiting
<1>3. op \in {"MOUNT_ROOT", "DMA_UP"} => KeepsAwaiting(p, r) = <<>>
  BY DEF KeepsAwaiting
<1>4. op \notin {"AWAIT_ROOT", "AWAIT_DRIVERS_UP", "MOUNT_ROOT", "DMA_UP"} =>
        KeepsAwaiting(p, r) = awaiting[p]
  BY DEF KeepsAwaiting
<1>5. op = "AWAIT_ROOT" /\ root # NoRoot => KeepsAwaiting(p, r) = awaiting[p]
  BY DEF KeepsAwaiting
<1>6. op = "AWAIT_DRIVERS_UP" /\ nonHdsUp => KeepsAwaiting(p, r) = awaiting[p]
  BY DEF KeepsAwaiting
<1> QED BY <1>1, <1>2, <1>3, <1>4, <1>5, <1>6, Zenon

\* A server answers at once.
LEMMA RepliesAtOnce ==
  ASSUME ServicesInv, NEW p, p # "fat", NEW r, NEW arg, Takes(p, r, <<Reply(r, arg)>>), IsRequest(r),
         Answers(p, r, arg, Known),
         drivers' = drivers, root' = root, nonHdsUp' = nonHdsUp, awaiting' = awaiting
  PROVE  ServicesInv'
<1> DEFINE t == <<Reply(r, arg)>>
<1>1. /\ Sound(p, t, Known) /\ AnswersDiffer(t) /\ PassesFit(t, answer[p].arg) /\ OwedIn(t) = {r}
  BY OneReply
<1>2. Takes(p, r, t)
  OBVIOUS
<1> HIDE DEF t
<1>3. Handling(p, t, Known, answer[p].arg)
  BY <1>1 DEF Handling
<1> QED BY <1>1, <1>2, <1>3, AnsweredAtOnce

\* A server asks another, whose answer is its own.
LEMMA PassesAtOnce ==
  ASSUME ServicesInv, NEW p \in {"fat", "vfs"}, NEW q \in Procs, NEW r, NEW op \in ArgOps,
         Takes(p, r, <<Ask(q, op, r.data.arg), Pass(r)>>), IsRequest(r),
         r.data.op \in FileOps, MayAsk(p, q, op), q \in Known,
         drivers' = drivers, root' = root, nonHdsUp' = nonHdsUp, awaiting' = awaiting
  PROVE  ServicesInv'
<1> DEFINE t == <<Ask(q, op, r.data.arg), Pass(r)>>
<1>1. p \in Procs /\ r \in Held[p] /\ r.reply_to = 0
  BY DEF Takes
<1>2. r \in Message /\ Mounted \in Known
  BY <1>1, ServedOps
<1>3. /\ Sound(p, t, Known) /\ AnswersDiffer(t) /\ PassesFit(t, answer[p].arg) /\ OwedIn(t) = {r}
      /\ \A i \in DOMAIN t : ~IsAsk(t[i], "REGISTER_DRIVER") /\ ~IsAsk(t[i], "MOUNT_ROOT")
  BY <1>2, AskAndPass
<1>4. Takes(p, r, t)
  OBVIOUS
<1> HIDE DEF t
<1>5. Handling(p, t, Known, answer[p].arg)
  BY <1>3 DEF Handling
<1> QED BY <1>3, <1>4, <1>5, AnsweredAtOnce

LEMMA AwaitingStays ==
  ASSUME Typed, NEW p,
         NEW w, p \in {"vfs", "pci"} => w = awaiting[p],
         awaiting' = [q \in {"vfs", "pci"} |-> IF q = p THEN w ELSE awaiting[q]]
  PROVE  awaiting' = awaiting
<1>1. awaiting \in [{"vfs", "pci"} -> Seq(Message)]
  BY DEF Typed
<1>2. awaiting = [q \in {"vfs", "pci"} |-> awaiting[q]]
  BY <1>1
<1> QED BY <1>2

\* What a server keeps when it takes a request that does not change its state.
LEMMA StateStays ==
  ASSUME ServicesInv, NEW p, NEW r, Serves(p, r),
         r.data.op \notin {"REGISTER_DRIVER", "MOUNT_ROOT", "DMA_UP"},
         r.data.op = "AWAIT_ROOT" => root # NoRoot,
         r.data.op = "AWAIT_DRIVERS_UP" => nonHdsUp
  PROVE  drivers' = drivers /\ root' = root /\ nonHdsUp' = nonHdsUp /\ awaiting' = awaiting
<1> DEFINE op == r.data.op
           w == KeepsAwaiting(p, r)
<1>1. Typed
  BY DEF ServicesInv
<1>2. w = awaiting[p]
  <2>1. CASE op \notin {"AWAIT_ROOT", "AWAIT_DRIVERS_UP", "MOUNT_ROOT", "DMA_UP"}
    BY <2>1, Keeping
  <2>2. CASE op = "AWAIT_ROOT"
    BY <2>2, Keeping
  <2>3. CASE op = "AWAIT_DRIVERS_UP"
    BY <2>3, Keeping
  <2> QED BY <2>1, <2>2, <2>3
<1>3. awaiting' = [q \in {"vfs", "pci"} |-> IF q = p THEN w ELSE awaiting[q]]
  BY DEF Serves
<1> HIDE DEF w
<1>4. awaiting' = awaiting
  BY <1>1, <1>2, <1>3, AwaitingStays
<1>5. nonHdsUp \in BOOLEAN
  BY <1>1 DEF Typed
<1>6. drivers' = drivers /\ root' = root /\ nonHdsUp' = nonHdsUp
  BY <1>5 DEF Serves
<1> QED BY <1>4, <1>6

\* acpi is told to switch the machine off.
LEMMA AcpiServes ==
  ASSUME ServicesInv, NEW p, p = "acpi", NEW r \in Held[p], r.data.op = "SHUTDOWN", ~IsRequest(r),
         Serves(p, r)
  PROVE  ServicesInv'
<1> DEFINE t == <<>>
<1>1. Typed /\ ListsAreSound
  BY DEF ServicesInv
<1>2. Takes(p, r, t)
  BY HandlesIs DEF Serves
<1>3. drivers' = drivers /\ root' = root /\ nonHdsUp' = nonHdsUp /\ awaiting' = awaiting
  BY StateStays
<1>4. p \in Procs /\ Listed' = Listed /\ Listed[p] = {}
  BY <1>3, ServiceNames DEF Listed
<1>5. Known' = Known
  BY <1>2, <1>3 DEF Known, Takes
<1>6. ListsAreSound'
  BY <1>1, <1>3, <1>4 DEF ListsAreSound
<1>7. OwedIn(t) = {}
  BY DEF OwedIn
<1>8. Settles(r, Listed[p], Listed'[p], OwedIn(t))
  BY <1>4, <1>7 DEF Settles
<1>9. Handling(p, t, Known', answer[p].arg)
  BY SoundEmpty DEF Handling, AnswersDiffer, PassesFit
<1>10. /\ awaiting' \in [{"vfs", "pci"} -> Seq(Message)]
       /\ drivers' \in {<<"vfs">>, <<"vfs", "fat">>} /\ root' \in {NoRoot, 1} /\ nonHdsUp' \in BOOLEAN
  BY <1>1, <1>3 DEF Typed
<1>11. \A q \in Procs : q # p => Listed'[q] = Listed[q]
  BY <1>4
<1>12. Known \subseteq Known'
  BY <1>5
<1> HIDE DEF t
<1> QED BY ONLY ServicesInv, <1>2, <1>3, <1>6, <1>8, <1>9, <1>10, <1>11, <1>12, TakesKeepsInv

\* ata does what it is asked, and says so.
LEMMA AtaServes ==
  ASSUME ServicesInv, NEW p, p = "ata", NEW r \in Held[p], r.data.op \in {"MBR_READ", "SET_BAR4"},
         IsRequest(r), r \in Message, Serves(p, r)
  PROVE  ServicesInv'
<1> DEFINE arg == r.data.arg
<1>1. Takes(p, r, <<Reply(r, arg)>>)
  BY HandlesIs DEF Serves, AtaHandles
<1>2. drivers' = drivers /\ root' = root /\ nonHdsUp' = nonHdsUp /\ awaiting' = awaiting
  BY StateStays
<1>3. Answers(p, r, arg, Known)
  BY DEF Answers, Message, Data, MayAnswer, GivenBy, TakenBy, FileOps
<1> HIDE DEF arg
<1> QED BY <1>1, <1>2, <1>3, RepliesAtOnce

\* fat reads sectors of ata.
LEMMA FatServes ==
  ASSUME ServicesInv, NEW p, p = "fat", NEW r \in Held[p], r.data.op \in FileOps,
         IsRequest(r), Serves(p, r)
  PROVE  ServicesInv'
<1> DEFINE q == "ata"
           op == "MBR_READ"
<1>1. Takes(p, r, <<Ask(q, op, r.data.arg), Pass(r)>>)
  BY HandlesIs DEF Serves, FatHandles
<1>2. drivers' = drivers /\ root' = root /\ nonHdsUp' = nonHdsUp /\ awaiting' = awaiting
  BY StateStays DEF FileOps
<1>3. q \in Procs /\ op \in ArgOps /\ MayAsk(p, q, op)
  BY ServiceNames DEF ArgOps, MayAsk
<1>4. q \in Known
  BY DEF ServicesInv, Typed, Booted, Known, Residents
<1> HIDE DEF q, op
<1> QED BY <1>1, <1>2, <1>3, <1>4, PassesAtOnce

\* The driver of the root is fat.
LEMMA RootIsFat ==
  ASSUME ServicesInv, Mounted \in Known
  PROVE  root = 1 /\ drivers = <<"vfs", "fat">> /\ PidForDriver(root) = "fat"
<1>1. root = 1
  BY KnownIs DEF ServicesInv, Typed
<1>2. drivers = <<"vfs", "fat">>
  BY <1>1 DEF ServicesInv, Typed, Mounting, NoRoot
<1> QED BY <1>1, <1>2 DEF PidForDriver

\* vfs asks the driver of the root.
LEMMA VfsServesFiles ==
  ASSUME ServicesInv, NEW p, p = "vfs", NEW r \in Held[p], r.data.op \in FileOps,
         IsRequest(r), Mounted \in Known, Serves(p, r)
  PROVE  ServicesInv'
<1> DEFINE q == "fat"
           op == r.data.op
           t == <<Ask(q, op, r.data.arg), Pass(r)>>
<1>1. q \in Procs /\ op \in ArgOps /\ MayAsk(p, q, op)
  BY ServiceNames DEF ArgOps, MayAsk
<1>2. q \in Known
  BY DEF ServicesInv, Typed, Booted, Known, Residents
<1>3. drivers' = drivers /\ root' = root /\ nonHdsUp' = nonHdsUp /\ awaiting' = awaiting
  BY StateStays DEF FileOps
<1>4. VfsHandles(r) = AskDriver(PidForDriver(root), op, r.data.arg) \o <<Pass(r)>>
  BY VfsHandling
<1>5. AskDriver(PidForDriver(root), op, r.data.arg) = <<Ask(q, op, r.data.arg)>>
  BY RootIsFat DEF AskDriver
<1>6. VfsHandles(r) = t
  <2>1. <<Ask(q, op, r.data.arg)>> \o <<Pass(r)>> = t
    BY TuplesConcat
  <2> QED BY <1>4, <1>5, <2>1
<1>7. Takes(p, r, t)
  BY <1>6, HandlesIs DEF Serves
<1> HIDE DEF q, op
<1> QED BY <1>1, <1>2, <1>3, <1>7, PassesAtOnce DEF t, op

LEMMA VfsServesRoot ==
  ASSUME ServicesInv, NEW p, p = "vfs", NEW r \in Held[p], r.data.op = "ROOT",
         IsRequest(r), r \in Message, Serves(p, r)
  PROVE  ServicesInv'
<1> DEFINE arg == root
<1>1. Takes(p, r, <<Reply(r, arg)>>)
  BY HandlesIs, VfsHandling DEF Serves
<1>2. drivers' = drivers /\ root' = root /\ nonHdsUp' = nonHdsUp /\ awaiting' = awaiting
  BY StateStays
<1>3. arg \in Args
  BY NumbersAreArgs DEF ServicesInv, Typed, NoRoot
<1>4. Answers(p, r, arg, Known)
  BY <1>3 DEF Answers, MayAnswer, GivenBy, TakenBy, ArgOps, FileOps
<1> HIDE DEF arg
<1> QED BY <1>1, <1>2, <1>4, RepliesAtOnce

\* vfs keeps the request of one who awaits a root, or answers it when there is one.
LEMMA VfsServesAwaiting ==
  ASSUME ServicesInv, NEW p, p = "vfs", NEW r \in Held[p], r.data.op = "AWAIT_ROOT",
         IsRequest(r), r \in Message, Serves(p, r)
  PROVE  ServicesInv'
<1>1. CASE root = NoRoot
  <2>1. Takes(p, r, <<>>)
    BY <1>1, HandlesIs, VfsHandling DEF Serves
  <2>2. awaiting' = [q \in {"vfs", "pci"} |->
                       IF q = p THEN Append(awaiting[p], r) ELSE awaiting[q]]
    BY <1>1, Keeping DEF Serves
  <2>3. drivers' = drivers /\ root' = root /\ nonHdsUp' = nonHdsUp
    BY DEF Serves, ServicesInv, Typed
  <2> QED BY <1>1, <2>1, <2>2, <2>3, AnsweredLater
<1>2. CASE root # NoRoot
  <2> DEFINE arg == Blank
  <2>1. Takes(p, r, <<Reply(r, arg)>>)
    BY <1>2, HandlesIs, VfsHandling DEF Serves
  <2>2. drivers' = drivers /\ root' = root /\ nonHdsUp' = nonHdsUp /\ awaiting' = awaiting
    BY <1>2, StateStays
  <2>3. Mounted \in Known
    BY <1>2, KnownIs
  <2>4. Answers(p, r, arg, Known)
    BY <2>3, BlankIsArg DEF Answers, MayAnswer, GivenBy, TakenBy, ArgOps, FileOps
  <2> HIDE DEF arg
  <2> QED BY <2>1, <2>2, <2>4, RepliesAtOnce
<1> QED BY <1>1, <1>2

\* fat becomes a driver.
LEMMA VfsServesDriver ==
  ASSUME ServicesInv, NEW p, p = "vfs", NEW r \in Held[p], r.data.op = "REGISTER_DRIVER",
         IsRequest(r), r \in Message, Serves(p, r)
  PROVE  ServicesInv'
<1> DEFINE arg == 1
           t == <<Reply(r, arg)>>
<1>1. Typed /\ ListsAreSound
  BY DEF ServicesInv
<1>2. drivers = <<"vfs">>
  BY DEF ServicesInv, Mounting
<1>3. r.from = "fat"
  BY FatAsksOnce
<1>4. drivers' = <<"vfs", "fat">> /\ root' = root /\ nonHdsUp' = nonHdsUp
  <2>1. Append(<<"vfs">>, "fat") = <<"vfs", "fat">>
    BY TuplesConcat
  <2> QED BY <1>1, <1>2, <1>3, <2>1 DEF Serves, Typed
<1>5. awaiting' = awaiting
  <2> DEFINE w == KeepsAwaiting(p, r)
  <2>1. w = awaiting[p]
    BY Keeping
  <2>2. awaiting' = [q \in {"vfs", "pci"} |-> IF q = p THEN w ELSE awaiting[q]]
    BY DEF Serves
  <2> HIDE DEF w
  <2> QED BY <1>1, <2>1, <2>2, AwaitingStays
<1>6. Takes(p, r, t)
  BY <1>2, HandlesIs, VfsHandling DEF Serves, DriverNo
<1>7. Known \subseteq Known' /\ Registered \in Known'
  BY <1>2, <1>4, <1>6 DEF Known, Takes
<1>8. Listed' = Listed
  BY <1>5 DEF Listed
<1>9. ListsAreSound'
  BY <1>1, <1>4, <1>5, <1>8 DEF ListsAreSound
<1>10. Answers(p, r, arg, Known')
  BY <1>7, NumbersAreArgs DEF Answers, MayAnswer, GivenBy, TakenBy, ArgOps, FileOps
<1> HIDE DEF arg
<1>11. /\ Sound(p, t, Known') /\ AnswersDiffer(t) /\ PassesFit(t, answer[p].arg) /\ OwedIn(t) = {r}
  BY <1>10, OneReply
<1> HIDE DEF t
<1>12. Handling(p, t, Known', answer[p].arg)
  BY <1>11 DEF Handling
<1>13. \A x \in Listed[p] : x.id # r.id
  BY <1>6, TakenIsNotListed DEF Takes
<1>14. Settles(r, Listed[p], Listed'[p], OwedIn(t))
  BY <1>8, <1>11, <1>13 DEF Settles
<1>15. /\ awaiting' \in [{"vfs", "pci"} -> Seq(Message)]
       /\ drivers' \in {<<"vfs">>, <<"vfs", "fat">>} /\ root' \in {NoRoot, 1} /\ nonHdsUp' \in BOOLEAN
  BY <1>1, <1>4, <1>5 DEF Typed
<1>16. /\ p = "vfs" /\ IsRequest(r) /\ r.data.op = "REGISTER_DRIVER"
       /\ drivers' # <<"vfs">> /\ root' = root
  BY <1>4
<1>17. \A q \in Procs : q # p => Listed'[q] = Listed[q]
  BY <1>8
<1> QED BY ONLY ServicesInv, <1>6, <1>7, <1>9, <1>12, <1>14, <1>15, <1>16, <1>17, TakesKeepsInv

\* What the driver number of fat leaves to be asked.
LEMMA RequestArg ==
  ASSUME ServicesInv, NEW r \in Held["vfs"], IsRequest(r), r.data.op = "MOUNT_ROOT"
  PROVE  r.data.arg = 1 /\ root = NoRoot /\ drivers # <<"vfs">>
  BY DEF ServicesInv, Mounting

\* Those who await a root, or the drivers, are answered.
LEMMA AwaitersAnswered ==
  ASSUME ServicesInv, NEW p \in {"vfs", "pci"}, NEW K,
         p = "vfs" => Mounted \in K, NEW a
  PROVE  LET s == Replies(awaiting[p])
         IN  /\ Sound(p, s, K) /\ AnswersDiffer(s) /\ NoPass(s) /\ OwedIn(s) = Listed[p]
<1> DEFINE rs == awaiting[p]
           s == Replies(rs)
<1>1. rs \in Seq(Message) /\ IdsDiffer(rs)
  BY DEF ServicesInv, Typed, ListsAreSound
<1>2. Listed[p] = In(rs)
  BY ServiceNames DEF Listed
<1>3. \A r \in In(rs) : r \in Message /\ (p = "vfs" => r.data.op = "AWAIT_ROOT")
                                      /\ (p = "pci" => r.data.op = "AWAIT_DRIVERS_UP")
  BY <1>1, <1>2, InIsPlace DEF ServicesInv, ListsAreSound
<1> HIDE DEF rs
<1>4. ASSUME NEW r \in In(rs), NEW arg \in Args PROVE Answers(p, r, arg, K)
  BY <1>3 DEF Answers, MayAnswer, GivenBy, TakenBy, ArgOps, FileOps
<1>5. \A r \in In(rs) : \A arg \in Args : Answers(p, r, arg, K)
  BY <1>4
<1>6. Sound(p, s, K) /\ AnswersDiffer(s) /\ NoPass(s) /\ OwedIn(s) = In(rs)
  BY <1>1, <1>5, RepliesOwe
<1> QED BY <1>2, <1>6 DEF rs

\* fat is mounted, and those who await a root are told.
LEMMA VfsServesMount ==
  ASSUME ServicesInv, NEW p, p = "vfs", NEW r \in Held[p], r.data.op = "MOUNT_ROOT",
         IsRequest(r), r \in Message, Serves(p, r)
  PROVE  ServicesInv'
<1> DEFINE c == <<Reply(r, Blank)>>
           s == Replies(awaiting["vfs"])
           t == c \o s
<1>1. Typed /\ ListsAreSound
  BY DEF ServicesInv
<1>2. r.data.arg = 1 /\ root = NoRoot /\ drivers # <<"vfs">>
  BY RequestArg
<1>3. drivers' = drivers /\ root' = 1 /\ root' # NoRoot /\ nonHdsUp' = nonHdsUp
  BY <1>1, <1>2 DEF Serves, Typed, NoRoot
<1>4. awaiting' = [q \in {"vfs", "pci"} |-> IF q = p THEN <<>> ELSE awaiting[q]]
  <2> DEFINE w == KeepsAwaiting(p, r)
  <2>1. w = <<>>
    BY Keeping
  <2> QED BY <2>1 DEF Serves
<1>5. Takes(p, r, t)
  <2>1. VfsHandles(r) = MountRoot(r)
    BY VfsHandling
  <2>2. MountRoot(r) = t
    BY Zenon DEF MountRoot, Blank
  <2> QED BY <2>1, <2>2, HandlesIs, Zenon DEF Serves
<1>6. Known \subseteq Known' /\ Mounted \in Known'
  BY <1>3, <1>5 DEF Known, Takes
<1>7. /\ awaiting'["vfs"] = <<>> /\ awaiting'["pci"] = awaiting["pci"]
      /\ awaiting' \in [{"vfs", "pci"} -> Seq(Message)]
  BY <1>1, <1>4 DEF Typed
<1>8. /\ Listed'[p] = {} /\ \A q \in Procs : q # p => Listed'[q] = Listed[q]
  <2>1. /\ p \in Procs
        /\ \A q \in Procs : /\ Listed[q] = IF q \in {"vfs", "pci"} THEN In(awaiting[q]) ELSE {}
                            /\ Listed'[q] = IF q \in {"vfs", "pci"} THEN In(awaiting'[q]) ELSE {}
    BY ServiceNames DEF Listed
  <2>2. In(awaiting'["vfs"]) = {}
    BY <1>7 DEF In
  <2> QED BY <1>7, <2>1, <2>2
<1>9. ListsAreSound'
  <2>1. "pci" \in Procs /\ Listed'["pci"] = Listed["pci"] /\ Listed'["vfs"] = {}
    BY <1>8, ServiceNames
  <2>2. IdsDiffer(awaiting'["vfs"]) /\ IdsDiffer(awaiting'["pci"])
    BY <1>1, <1>7 DEF ListsAreSound, IdsDiffer
  <2> QED BY <1>1, <1>3, <2>1, <2>2 DEF ListsAreSound
<1>10. Answers(p, r, Blank, Known')
  BY <1>6, BlankIsArg DEF Answers, MayAnswer, GivenBy, TakenBy, ArgOps, FileOps
<1>11. Sound(p, c, Known') /\ AnswersDiffer(c) /\ NoPass(c) /\ OwedIn(c) = {r}
  BY <1>10, OneReply
<1>12. /\ Sound(p, s, Known') /\ AnswersDiffer(s) /\ NoPass(s) /\ OwedIn(s) = Listed[p]
  BY <1>6, AwaitersAnswered
<1>13. c \in Seq(Calls) /\ s \in Seq(Calls)
  BY <1>11, <1>12 DEF Sound
<1>14. \A x \in Listed[p] : x.id # r.id
  BY TakenIsNotListed, ServiceNames
<1> HIDE DEF c, s
<1>15. AnswersDiffer(t) /\ OwedIn(t) = {r} \cup Listed[p]
  <2>1. \A x \in OwedIn(c), y \in OwedIn(s) : x.id # y.id
    BY <1>11, <1>12, <1>14
  <2> QED BY <1>11, <1>12, <1>13, <2>1, ConcatOwes
<1>16. PassesFit(t, answer[p].arg)
  BY <1>11, <1>12, <1>13, ConcatPasses
<1>17. Sound(p, t, Known')
  BY <1>11, <1>12, SoundConcat
<1> HIDE DEF t
<1>18. Handling(p, t, Known', answer[p].arg)
  BY <1>15, <1>16, <1>17 DEF Handling
<1>19. Settles(r, Listed[p], Listed'[p], OwedIn(t))
  BY <1>8, <1>15 DEF Settles
<1>20. /\ drivers' \in {<<"vfs">>, <<"vfs", "fat">>} /\ root' \in {NoRoot, 1} /\ nonHdsUp' \in BOOLEAN
  BY <1>1, <1>3 DEF Typed
<1>21. /\ p = "vfs" /\ IsRequest(r) /\ r.data.op = "MOUNT_ROOT"
       /\ drivers' = drivers /\ root' # NoRoot
  BY <1>3
<1>22. Known \subseteq Known' /\ awaiting' \in [{"vfs", "pci"} -> Seq(Message)]
       /\ \A q \in Procs : q # p => Listed'[q] = Listed[q]
  BY <1>6, <1>7, <1>8
<1> QED BY ONLY ServicesInv, <1>5, <1>9, <1>18, <1>19, <1>20, <1>21, <1>22, TakesKeepsInv

\* pci is told that the driver of the disk is up: it starts the others, and tells
\* those who await them.
LEMMA PciServesDma ==
  ASSUME ServicesInv, NEW p, p = "pci", NEW r \in Held[p], r.data.op = "DMA_UP",
         ~IsRequest(r), Serves(p, r)
  PROVE  ServicesInv'
<1> DEFINE t == DmaUp(r)
<1>1. Typed /\ ListsAreSound
  BY DEF ServicesInv
<1>2. drivers' = drivers /\ root' = root /\ nonHdsUp' = TRUE
  BY DEF Serves
<1>3. awaiting' = [q \in {"vfs", "pci"} |-> IF q = p THEN <<>> ELSE awaiting[q]]
  <2> DEFINE w == KeepsAwaiting(p, r)
  <2>1. w = <<>>
    BY Keeping
  <2> QED BY <2>1 DEF Serves
<1>4. Takes(p, r, t)
  BY HandlesIs, PciHandling DEF Serves
<1>5. Known' = Known
  BY <1>2, <1>4 DEF Known, Takes
<1>6. /\ awaiting'["pci"] = <<>> /\ awaiting'["vfs"] = awaiting["vfs"]
      /\ awaiting' \in [{"vfs", "pci"} -> Seq(Message)]
  BY <1>1, <1>3 DEF Typed
<1>7. /\ Listed'[p] = {} /\ \A q \in Procs : q # p => Listed'[q] = Listed[q]
  <2>1. /\ p \in Procs
        /\ \A q \in Procs : /\ Listed[q] = IF q \in {"vfs", "pci"} THEN In(awaiting[q]) ELSE {}
                            /\ Listed'[q] = IF q \in {"vfs", "pci"} THEN In(awaiting'[q]) ELSE {}
    BY ServiceNames DEF Listed
  <2>2. In(awaiting'["pci"]) = {}
    BY <1>6 DEF In
  <2> QED BY <1>6, <2>1, <2>2
<1>8. ListsAreSound'
  <2>1. "vfs" \in Procs /\ Listed'["vfs"] = Listed["vfs"] /\ Listed'["pci"] = {}
    BY <1>7, ServiceNames
  <2>2. IdsDiffer(awaiting'["vfs"]) /\ IdsDiffer(awaiting'["pci"])
    BY <1>1, <1>6 DEF ListsAreSound, IdsDiffer
  <2> QED BY <1>1, <1>2, <2>1, <2>2 DEF ListsAreSound
<1>9. "vfs" \in Known /\ Mounted \in Known
  <2>1. "vfs" \in Known
    BY DEF ServicesInv, Typed, Booted, Known, Residents
  <2>2. script["pci"] = <<>> /\ (Mounted \in Known \/ GivesBefore(script["pci"], Len(script["pci"]) + 1, Mounted))
    BY <1>4 DEF Takes, ServicesInv, ServersKnow
  <2> QED BY <2>1, <2>2 DEF GivesBefore
<1>10. Sound(p, t, Known) /\ AnswersDiffer(t) /\ OwedIn(t) = Listed[p] /\ PassesFit(t, answer[p].arg)
  <2>1. CASE nonHdsUp
    <3>1. Listed[p] = {}
      BY <1>1, <2>1 DEF ListsAreSound
    <3>2. t = <<>>
      BY <2>1 DEF DmaUp
    <3> HIDE DEF t
    <3>3. OwedIn(t) = {} /\ AnswersDiffer(t) /\ PassesFit(t, answer[p].arg)
      BY <3>2 DEF OwedIn, AnswersDiffer, PassesFit
    <3> QED BY <3>1, <3>2, <3>3, SoundEmpty
  <2>2. CASE ~nonHdsUp
    <3> DEFINE c == CheckNonHds
               s == Replies(awaiting["pci"])
    <3>1. t = c \o s
      BY <2>2, Zenon DEF DmaUp
    <3>2. Client(p, c, Known)
      BY <1>9, CheckNonHdsIsClient
    <3>3. Sound(p, s, Known) /\ AnswersDiffer(s) /\ NoPass(s) /\ OwedIn(s) = Listed[p]
      BY AwaitersAnswered
    <3> HIDE DEF c, s, t
    <3>4. OwedIn(c) = {} /\ AnswersDiffer(c) /\ NoPass(c) /\ Sound(p, c, Known)
      BY <3>2, ClientOwesNothing DEF Client
    <3>5. c \in Seq(Calls) /\ s \in Seq(Calls)
      BY <3>3, <3>4 DEF Sound
    <3>6. AnswersDiffer(c \o s) /\ OwedIn(c \o s) = OwedIn(c) \cup OwedIn(s)
      BY <3>3, <3>4, <3>5, ConcatOwes
    <3>7. PassesFit(c \o s, answer[p].arg)
      BY <3>3, <3>4, <3>5, ConcatPasses
    <3>8. Sound(p, c \o s, Known)
      BY <3>3, <3>4, SoundConcat
    <3> QED BY <3>1, <3>3, <3>4, <3>6, <3>7, <3>8
  <2> QED BY <2>1, <2>2
<1> HIDE DEF t
<1>11. Handling(p, t, Known', answer[p].arg)
  BY <1>5, <1>10 DEF Handling
<1>12. Settles(r, Listed[p], Listed'[p], OwedIn(t))
  BY <1>7, <1>10 DEF Settles
<1>13. /\ drivers' \in {<<"vfs">>, <<"vfs", "fat">>} /\ root' \in {NoRoot, 1} /\ nonHdsUp' \in BOOLEAN
  BY <1>1, <1>2 DEF Typed
<1>14. Known \subseteq Known' /\ awaiting' \in [{"vfs", "pci"} -> Seq(Message)]
       /\ \A q \in Procs : q # p => Listed'[q] = Listed[q]
  BY <1>5, <1>6, <1>7
<1>15. drivers' = drivers /\ root' = root
  BY <1>2
<1> QED BY ONLY ServicesInv, <1>4, <1>8, <1>11, <1>12, <1>13, <1>14, <1>15, TakesKeepsInv

\* pci says what there is on the bus.
LEMMA PciServesConfig ==
  ASSUME ServicesInv, NEW p, p = "pci", NEW r \in Held[p], r.data.op = "DEVICE_CONFIG",
         IsRequest(r), r \in Message, Serves(p, r)
  PROVE  ServicesInv'
<1> DEFINE arg == r.data.arg
<1>1. Takes(p, r, <<Reply(r, arg)>>)
  BY HandlesIs, PciHandling DEF Serves
<1>2. drivers' = drivers /\ root' = root /\ nonHdsUp' = nonHdsUp /\ awaiting' = awaiting
  BY StateStays
<1>3. Answers(p, r, arg, Known)
  BY DEF Answers, Message, Data, MayAnswer, GivenBy, TakenBy, FileOps
<1> HIDE DEF arg
<1> QED BY <1>1, <1>2, <1>3, RepliesAtOnce

\* pci keeps the request of one who awaits the drivers, or answers it when they are up.
LEMMA PciServesAwaiting ==
  ASSUME ServicesInv, NEW p, p = "pci", NEW r \in Held[p], r.data.op = "AWAIT_DRIVERS_UP",
         IsRequest(r), r \in Message, Serves(p, r)
  PROVE  ServicesInv'
<1>1. CASE ~nonHdsUp
  <2>1. Takes(p, r, <<>>)
    BY <1>1, HandlesIs, PciHandling DEF Serves
  <2>2. awaiting' = [q \in {"vfs", "pci"} |->
                       IF q = p THEN Append(awaiting[p], r) ELSE awaiting[q]]
    BY <1>1, Keeping DEF Serves
  <2>3. drivers' = drivers /\ root' = root /\ nonHdsUp' = nonHdsUp
    BY DEF Serves, ServicesInv, Typed
  <2> QED BY <1>1, <2>1, <2>2, <2>3, AnsweredLater
<1>2. CASE nonHdsUp
  <2> DEFINE arg == Blank
  <2>1. Takes(p, r, <<Reply(r, arg)>>)
    BY <1>2, HandlesIs, PciHandling DEF Serves
  <2>2. drivers' = drivers /\ root' = root /\ nonHdsUp' = nonHdsUp /\ awaiting' = awaiting
    BY <1>2, StateStays
  <2>3. Answers(p, r, arg, Known)
    BY BlankIsArg DEF Answers, MayAnswer, GivenBy, TakenBy, ArgOps, FileOps
  <2> HIDE DEF arg
  <2> QED BY <2>1, <2>2, <2>3, RepliesAtOnce
<1> QED BY <1>1, <1>2

LEMMA ServeKeepsInv ==
  ASSUME ServicesInv, NEW p \in Procs, Serve(p)
  PROVE  ServicesInv'
<1>1. PICK r \in Held[p] : Serves(p, r)
  BY ServeTakes
<1> DEFINE op == r.data.op
<1>2. r.reply_to = 0
  BY <1>1 DEF Serves, Takes
<1>3. /\ \/ ~IsRequest(r) /\ p = "pci" /\ op = "DMA_UP"
         \/ ~IsRequest(r) /\ p = "acpi" /\ op = "SHUTDOWN"
         \/ IsRequest(r) /\ p = "ata" /\ op \in {"MBR_READ", "SET_BAR4"}
         \/ IsRequest(r) /\ p = "fat" /\ op \in FileOps
         \/ /\ IsRequest(r) /\ p = "vfs"
            /\ op \in FileOps \cup {"ROOT", "AWAIT_ROOT", "REGISTER_DRIVER", "MOUNT_ROOT"}
         \/ IsRequest(r) /\ p = "pci" /\ op \in {"DEVICE_CONFIG", "AWAIT_DRIVERS_UP"}
      /\ op \in FileOps => Mounted \in Known
      /\ r \in Message
  BY <1>2, ServedOps
<1>4. CASE ~IsRequest(r) /\ p = "pci" /\ op = "DMA_UP"
  BY <1>1, <1>4, PciServesDma
<1>5. CASE ~IsRequest(r) /\ p = "acpi" /\ op = "SHUTDOWN"
  BY <1>1, <1>5, AcpiServes
<1>6. CASE IsRequest(r) /\ p = "ata" /\ op \in {"MBR_READ", "SET_BAR4"}
  BY <1>1, <1>3, <1>6, AtaServes
<1>7. CASE IsRequest(r) /\ p = "fat" /\ op \in FileOps
  BY <1>1, <1>7, FatServes
<1>8. CASE IsRequest(r) /\ p = "vfs" /\ op \in FileOps
  BY <1>1, <1>3, <1>8, VfsServesFiles
<1>9. CASE IsRequest(r) /\ p = "vfs" /\ op = "ROOT"
  BY <1>1, <1>3, <1>9, VfsServesRoot
<1>10. CASE IsRequest(r) /\ p = "vfs" /\ op = "AWAIT_ROOT"
  BY <1>1, <1>3, <1>10, VfsServesAwaiting
<1>11. CASE IsRequest(r) /\ p = "vfs" /\ op = "REGISTER_DRIVER"
  BY <1>1, <1>3, <1>11, VfsServesDriver
<1>12. CASE IsRequest(r) /\ p = "vfs" /\ op = "MOUNT_ROOT"
  BY <1>1, <1>3, <1>12, VfsServesMount
<1>13. CASE IsRequest(r) /\ p = "pci" /\ op = "DEVICE_CONFIG"
  BY <1>1, <1>3, <1>13, PciServesConfig
<1>14. CASE IsRequest(r) /\ p = "pci" /\ op = "AWAIT_DRIVERS_UP"
  BY <1>1, <1>3, <1>14, PciServesAwaiting
<1> QED BY ONLY <1>3, <1>4, <1>5, <1>6, <1>7, <1>8, <1>9, <1>10, <1>11, <1>12, <1>13, <1>14, Zenon

\* The shell gets a command.
LEMMA CommandKeepsInv ==
  ASSUME ServicesInv, Command
  PROVE  ServicesInv'
<1>1. /\ Typed /\ ScriptsAreSound /\ AskersAsk /\ MessagesAreSound /\ ListsAreSound
      /\ ServersKnow /\ Mounting
      /\ Placed(Held, Listed, Owed, lastMsgId, asked, Asking)
      /\ \A q \in Procs : IdsDiffer(queue[q])
  BY DEF ServicesInv
<1>2. /\ script["sh"] = <<>>
      /\ queue' = queue /\ lastMsgId' = lastMsgId /\ alive' = alive /\ names' = names
      /\ asked' = asked /\ answer' = answer
      /\ drivers' = drivers /\ root' = root /\ nonHdsUp' = nonHdsUp /\ awaiting' = awaiting
  BY DEF Command, AtPrompt, kernelVars, serverVars
<1>3. "vfs" \in Known /\ Mounted \in Known /\ Known' = Known
  <2>1. "vfs" \in Known
    BY DEF ServicesInv, Typed, Booted, Known, Residents
  <2>2. Mounted \in Known \/ GivesBefore(script["sh"], Len(script["sh"]) + 1, Mounted)
    BY <1>1 DEF ServersKnow
  <2> QED BY <1>2, <2>1, <2>2 DEF GivesBefore, Known
<1>4. PICK t : script' = [script EXCEPT !["sh"] = t] /\ Client("sh", t, Known)
  <2>1. CASE script' = [script EXCEPT !["sh"] = List]
    BY <1>3, <2>1, CommandsAreClients
  <2>2. ASSUME NEW q \in Programs, NEW background \in BOOLEAN,
               script' = [script EXCEPT !["sh"] = Run(q, background)]
        PROVE  \E t : script' = [script EXCEPT !["sh"] = t] /\ Client("sh", t, Known)
    BY <1>3, <2>2, CommandsAreClients
  <2>3. \/ script' = [script EXCEPT !["sh"] = List]
        \/ \E q \in Programs \ born, background \in BOOLEAN :
             script' = [script EXCEPT !["sh"] = Run(q, background)]
    BY DEF Command
  <2> QED BY <2>1, <2>2, <2>3
<1>5. /\ Sound("sh", t, Known) /\ OwedIn(t) = {} /\ AnswersDiffer(t) /\ \A a : PassesFit(t, a)
      /\ t \in Seq(Calls)
  BY <1>4, ClientOwesNothing DEF Client, Sound
<1>6. {"sh", "pci", "fat", "vfs"} \subseteq Procs
  BY ServiceNames
<1>7. /\ script' \in [Procs -> Seq(Calls)] /\ script'["sh"] = t
      /\ \A q \in Procs : q # "sh" => script'[q] = script[q]
  BY <1>1, <1>4, <1>5, <1>6 DEF ScriptsAreSound
<1>8. Typed'
  BY <1>1, <1>2 DEF Typed
<1>9. ScriptsAreSound'
  BY <1>1, <1>2, <1>3, <1>5, <1>7 DEF ScriptsAreSound
<1>10. asked["sh"] = 0
  BY <1>1, <1>2, <1>6 DEF AskersAsk
<1>11. AskersAsk'
  BY <1>1, <1>2, <1>7, <1>10 DEF AskersAsk
<1>12. Held' = Held /\ Listed' = Listed
  BY <1>2 DEF Held, Listed
<1>13. Placed(Held', Listed', Owed', lastMsgId', asked', Asking')
  <2>1. /\ Listed \in Places /\ Owed \in Places /\ Owed' \in Places /\ Held \in Places
        /\ \A q \in Procs : Owed[q] = OwedIn(script[q]) /\ Owed'[q] = OwedIn(script'[q])
    BY <1>1, <1>8, <1>9, PlacesNow, PlacesLater
  <2>2. Owed["sh"] = {}
    BY <1>2, <1>6, <2>1 DEF OwedIn
  <2>3. \A q \in Procs : Owed'[q] = Owed[q]
    BY <1>5, <1>6, <1>7, <2>1, <2>2
  <2>4. Owed' = Owed
    BY <2>1, <2>3 DEF Places
  <2>5. \A s \in Procs : asked[s] # 0 => Asking'[s] = Asking[s]
    BY <1>7, <1>10 DEF Asking
  <2>6. asked \in [Procs -> Nat] /\ lastMsgId \in Nat
    BY <1>1 DEF Typed
  <2>7. Placed(Held, Listed, Owed, lastMsgId, asked, Asking')
    BY <1>1, <2>1, <2>5, <2>6, PlacedFrame
  <2> QED BY <1>2, <1>12, <2>4, <2>7
<1>14. MessagesAreSound' /\ ListsAreSound'
  BY <1>1, <1>2, <1>3, <1>12 DEF MessagesAreSound, ListsAreSound
<1>15. ServersKnow'
  BY <1>3 DEF ServersKnow
<1>16. Mounting'
  <2>1. script'["fat"] = script["fat"]
    BY <1>6, <1>7
  <2> QED BY <1>1, <1>2, <1>12, <2>1 DEF Mounting, HasToAsk
<1> QED BY <1>1, <1>2, <1>8, <1>9, <1>11, <1>13, <1>14, <1>15, <1>16 DEF ServicesInv

-----------------------------------------------------------------------------
(* The invariant always holds.                                             *)

LEMMA NextKeepsInv ==
  ASSUME ServicesInv, [Next]_vars
  PROVE  ServicesInv'
<1>1. CASE Command
  BY <1>1, CommandKeepsInv
<1>2. ASSUME NEW p \in Procs, Step(p) PROVE ServicesInv'
  <2>1. CASE SendAsk(p)
    BY <2>1, SendAskKeepsInv
  <2>2. CASE TakeAnswer(p)
    BY <2>2, TakeAnswerKeepsInv
  <2>3. CASE SendTell(p)
    BY <2>3, SendTellKeepsInv
  <2>4. CASE SendReply(p)
    BY <2>4, SendReplyKeepsInv
  <2>5. CASE LookupName(p) \/ RegisterName(p) \/ BeginExecution(p) \/ WaitEnds(p)
    BY <2>5, QuietSteps
  <2>6. CASE Exit(p)
    BY <2>6, ExitKeepsInv
  <2>7. CASE Serve(p)
    BY <2>7, ServeKeepsInv
  <2> QED BY <1>2, <2>1, <2>2, <2>3, <2>4, <2>5, <2>6, <2>7 DEF Step
<1>3. CASE UNCHANGED vars
  <2>1. /\ script' = script /\ queue' = queue /\ lastMsgId' = lastMsgId /\ alive' = alive
        /\ names' = names /\ asked' = asked /\ answer' = answer
        /\ drivers' = drivers /\ root' = root /\ nonHdsUp' = nonHdsUp /\ awaiting' = awaiting
    BY <1>3 DEF vars, kernelVars, serverVars
  <2>2. /\ Typed' /\ ScriptsAreSound' /\ AskersAsk' /\ \A p \in Procs : IdsDiffer(queue'[p])
    BY <2>1 DEF ServicesInv, Typed, ScriptsAreSound, AskersAsk, Known
  <2>3. Placed(Held', Listed', Owed', lastMsgId', asked', Asking')
    BY <2>1 DEF ServicesInv, Held, Listed, Owed, Asking
  <2>4. MessagesAreSound' /\ ListsAreSound' /\ ServersKnow' /\ Mounting'
    BY <2>1 DEF ServicesInv, MessagesAreSound, ListsAreSound, ServersKnow, Mounting, HasToAsk,
                Held, Listed, Known
  <2> QED BY <2>2, <2>3, <2>4 DEF ServicesInv
<1> QED BY <1>1, <1>2, <1>3 DEF Next

\* What holds of the services in every state: each request of each program is in
\* a queue, on a list, in what a server has still to do, or answered.
THEOREM ServicesKeepInv == Spec => []ServicesInv
<1>1. Init => ServicesInv
  BY InitInv
<1>2. ServicesInv /\ [Next]_vars => ServicesInv'
  BY NextKeepsInv
<1> QED BY <1>1, <1>2, PTL DEF Spec

-----------------------------------------------------------------------------
(* What programs rely on.                                                  *)

\* Whoever asks is at its call, and the invariant says where its request is.
LEMMA AskerIs ==
  ASSUME ServicesInv, NEW p \in Procs, asked[p] # 0
  PROVE  /\ p \in alive /\ script[p] # <<>> /\ AskingOf(p).do = "ask" /\ Asking[p] = AskingOf(p)
         /\ MayAsk(p, AskingOf(p).to, AskingOf(p).op) /\ AskingOf(p).to \in Procs
         /\ Needs(AskingOf(p)) \subseteq Known
<1>1. p \in alive /\ script[p] # <<>> /\ AskingOf(p).do = "ask"
  BY DEF ServicesInv, AskersAsk, AskingOf
<1>2. Asking[p] = AskingOf(p)
  BY <1>1 DEF Asking, AskingOf
<1>3. Sound(p, script[p], Known)
  BY DEF ServicesInv, ScriptsAreSound
<1>4. AskingOf(p) \in Calls /\ MayDo(p, AskingOf(p)) /\ Needs(AskingOf(p)) \subseteq Known
  BY <1>1, <1>3, HeadIsSound DEF AskingOf
<1> QED BY <1>1, <1>2, <1>4, CallKinds DEF MayDo

LEMMA AnswerReleases ==
  ASSUME ServicesInv, NEW p \in Procs, NEW y \in Held[p], y.reply_to = asked[p]
  PROVE  ~Blocks(ProbeQueueCall(asked[p]), queue[p])
<1>1. PICK i \in DOMAIN queue[p] : queue[p][i] = y
  BY DEF Held, In
<1>2. i \in Matching(queue[p], asked[p])
  BY <1>1 DEF Matching
<1> QED BY <1>2 DEF Blocks, ProbeQueueCall

\* Nobody who awaits a root or the drivers is forgotten.
THEOREM ServicesKeepAwaiters == Spec => []AwaitersAreKept
<1>1. ServicesInv => AwaitersAreKept
  <2> SUFFICES ASSUME ServicesInv, NEW p \in alive, asked[p] # 0,
                      AskingOf(p).op \in {"AWAIT_ROOT", "AWAIT_DRIVERS_UP"},
                      Blocks(ProbeQueueCall(asked[p]), queue[p])
               PROVE  \/ \E i \in DOMAIN queue[AskingOf(p).to] :
                           queue[AskingOf(p).to][i].id = asked[p]
                      \/ \E i \in DOMAIN awaiting[AskingOf(p).to] :
                           awaiting[AskingOf(p).to][i].id = asked[p]
                      \/ \E i \in DOMAIN script[AskingOf(p).to] :
                           /\ script[AskingOf(p).to][i].do = "reply"
                           /\ script[AskingOf(p).to][i].request.id = asked[p]
    BY DEF AwaitersAreKept
  <2> DEFINE s == AskingOf(p).to
  <2>1. p \in Procs
    BY DEF ServicesInv, Typed
  <2>2. s \in Procs /\ Asking[p] = AskingOf(p)
    BY <2>1, AskerIs
  <2>3. \/ \E x \in Held[s] : x.id = asked[p]
        \/ \E x \in Listed[s] : x.id = asked[p]
        \/ \E x \in Owed[s] : x.id = asked[p] /\ x.from = p
        \/ \E y \in Held[p] : y.reply_to = asked[p]
    BY <2>1, <2>2 DEF ServicesInv, Placed, AskedAreSomewhere
  <2>4. CASE \E x \in Held[s] : x.id = asked[p]
    BY <2>2, <2>4 DEF Held, In
  <2>5. CASE \E x \in Listed[s] : x.id = asked[p]
    BY <2>2, <2>5 DEF Listed, In
  <2>6. ASSUME NEW x \in Owed[s], x.id = asked[p], x.from = p
        PROVE  \E i \in DOMAIN script[s] :
                 script[s][i].do = "reply" /\ script[s][i].request.id = asked[p]
    <3>1. x.data.op = AskingOf(p).op
      BY <2>2, <2>6 DEF ServicesInv, Placed, OwedPend, Pends, Fits
    <3>2. PICK i \in DOMAIN script[s] : IsAnswer(script[s][i]) /\ x = script[s][i].request
      BY <2>2 DEF Owed, OwedIn
    <3>3. MayDo(s, script[s][i])
      BY <2>2 DEF ServicesInv, ScriptsAreSound, Sound
    <3>4. script[s][i].do # "pass"
      BY <3>1, <3>2, <3>3 DEF MayDo, FileOps
    <3> QED BY <2>6, <3>2, <3>4 DEF IsAnswer
  <2>7. ~\E y \in Held[p] : y.reply_to = asked[p]
    BY <2>1, AnswerReleases
  <2> QED BY <2>3, <2>4, <2>5, <2>6, <2>7
<1> QED BY <1>1, ServicesKeepInv, PTL

\* No file operation reaches vfs before there is a root, and no message is sent to
\* a process that does not run.
THEOREM ServicesUseNoNull == Spec => []NoNullIsUsed
<1>1. ServicesInv => NoNullIsUsed
  <2> SUFFICES ASSUME ServicesInv PROVE NoNullIsUsed
    OBVIOUS
  <2>1. ASSUME NEW i \in DOMAIN queue["vfs"], queue["vfs"][i].data.op \in FileOps
        PROVE  root # NoRoot
    <3>1. "vfs" \in Procs /\ queue["vfs"][i] \in Held["vfs"]
      BY ServiceNames DEF Held, In
    <3>2. SoundMessage("vfs", queue["vfs"][i], Known)
      BY <3>1 DEF ServicesInv, MessagesAreSound
    <3> QED BY <2>1, <3>2, KnownIs DEF SoundMessage
  <2>2. ASSUME NEW p \in alive, asked[p] = 0, script[p] # <<>>
        PROVE  LET c == Head(script[p])
               IN  /\ c.do \in {"ask", "tell"} => c.to \in alive
                   /\ c.do \in {"reply", "pass"} => c.request.from \in alive
    <3> DEFINE c == Head(script[p])
    <3>1. p \in Procs
      BY DEF ServicesInv, Typed
    <3>2. c \in Calls /\ MayDo(p, c) /\ Needs(c) \subseteq Known
      BY <2>2, <3>1, HeadIsSound DEF ServicesInv, ScriptsAreSound
    <3>3. script[p] \in Seq(Calls) /\ 1 \in DOMAIN script[p] /\ script[p][1] = c
      BY <2>2, <3>1, TailAt DEF ServicesInv, ScriptsAreSound
    <3> HIDE DEF c
    <3>4. ASSUME c.do \in {"ask", "tell"} PROVE c.to \in alive
      <4>1. c.to \in Residents /\ c.to \in Known
        BY <3>2, <3>4 DEF MayDo, MayAsk, MayTell, Needs, Residents
      <4> QED BY <4>1, KnownIs
    <3>5. ASSUME c.do \in {"reply", "pass"} PROVE c.request.from \in alive
      <4>1. c.request \in Owed[p]
        BY <3>1, <3>3, <3>5 DEF Owed, OwedIn, IsAnswer
      <4>2. Pends(p, c.request, asked, Asking)
        BY <3>1, <4>1 DEF ServicesInv, Placed, OwedPend
      <4>3. c.request.from \in Procs
        BY <3>2, <3>5, CallKinds DEF IsAnswer, Message
      <4> QED BY <4>2, <4>3 DEF ServicesInv, AskersAsk, Pends
    <3> QED BY <3>4, <3>5 DEF c
  <2> QED BY <2>1, <2>2 DEF NoNullIsUsed
<1> QED BY <1>1, ServicesKeepInv, PTL

\* A program is answered what it asked.
THEOREM ServicesAnswersFit == Spec => AnswersFit
<1>1. ASSUME ServicesInv, [Next]_vars, NEW p \in alive, asked[p] # 0, asked'[p] = 0
      PROVE  /\ answer'[p].op = AskingOf(p).op
             /\ AskingOf(p).op \in FileOps \cup {"MBR_READ", "DEVICE_CONFIG"} =>
                  answer'[p].arg = AskingOf(p).arg
  <2>1. /\ p \in Procs /\ asked \in [Procs -> Nat] /\ lastMsgId \in Nat
        /\ queue[p] \in Seq(Message) /\ answer \in [Procs -> Data \cup {NoAnswer}]
    BY <1>1 DEF ServicesInv, Typed
  <2>2. asked' # asked
    BY <1>1
  <2>3. PICK q \in Procs : SendAsk(q) \/ TakeAnswer(q)
    <3>1. PICK q \in Procs : Step(q)
      BY <1>1, <2>2 DEF Next, Command, vars
    <3>2. ~SendTell(q)
      BY <2>2, Zenon DEF SendTell
    <3>3. ~SendReply(q) /\ ~LookupName(q) /\ ~RegisterName(q) /\ ~BeginExecution(q)
      BY <2>2 DEF SendReply, LookupName, RegisterName, BeginExecution
    <3>4. ~WaitEnds(q) /\ ~Exit(q) /\ ~Serve(q)
      BY <2>2 DEF WaitEnds, Exit, Serve
    <3> QED BY <3>1, <3>2, <3>3, <3>4 DEF Step
  <2>4. ~SendAsk(q)
    BY <1>1, <2>1 DEF SendAsk
  <2>5. TakeAnswer(q) /\ asked' = [asked EXCEPT ![q] = 0]
    BY <2>3, <2>4 DEF TakeAnswer
  <2>6. q = p
    BY <1>1, <2>1, <2>5
  <2> DEFINE y == Probed(queue[p], asked[p])
  <2>7. ~Blocks(ProbeQueueCall(asked[p]), queue[p]) /\ answer' = [answer EXCEPT ![p] = y.data]
    BY <2>5, <2>6 DEF TakeAnswer
  <2>8. y \in Held[p] /\ y.reply_to = asked[p]
    <3>1. Matching(queue[p], asked[p]) # {}
      BY <2>7 DEF Blocks, ProbeQueueCall
    <3> QED BY <1>1, <2>1, <3>1, ProbedIsThere DEF Held
  <2> HIDE DEF y
  <2>9. Fits(y.data, Asking[p])
    BY <1>1, <2>1, <2>8 DEF ServicesInv, Placed, AnswersPend
  <2>10. Asking[p] = AskingOf(p)
    BY <1>1, <2>1, AskerIs
  <2>11. answer'[p] = y.data
    BY <2>1, <2>7
  <2> QED BY <2>9, <2>10, <2>11 DEF Fits, ArgOps
<1>2. ServicesInv /\ [Next]_vars =>
        [\A p \in alive : asked[p] # 0 /\ asked'[p] = 0 =>
           /\ answer'[p].op = AskingOf(p).op
           /\ AskingOf(p).op \in FileOps \cup {"MBR_READ", "DEVICE_CONFIG"} =>
                answer'[p].arg = AskingOf(p).arg]_vars
  BY <1>1
<1> QED BY <1>2, ServicesKeepInv, PTL DEF Spec, AnswersFit

\* vfs does not ask before it answers: what it asks, it passes on.
VfsAsksOrReplies ==
  \A i, j \in DOMAIN script["vfs"] :
    ~(script["vfs"][i].do = "ask" /\ script["vfs"][j].do = "reply")

\* What vfs has to do stays, loses its head, or is what one request makes of it.
LEMMA VfsScriptSteps ==
  ASSUME ServicesInv, [Next]_vars
  PROVE  \/ script'["vfs"] = script["vfs"]
         \/ script["vfs"] # <<>> /\ script'["vfs"] = Tail(script["vfs"])
         \/ \E r \in Held["vfs"] : Serves("vfs", r) /\ script["vfs"] = <<>>
<1>1. script \in [Procs -> Seq(Calls)] /\ "vfs" \in Procs
  BY ServiceNames DEF ServicesInv, ScriptsAreSound
<1>2. CASE script' = script
  BY <1>2
<1>3. ASSUME NEW p \in Procs, Done(p) PROVE script'["vfs"] \in {script["vfs"], Tail(script["vfs"])}
  BY <1>1, <1>3 DEF Done
<1>4. CASE Command
  <2>1. \E t : script' = [script EXCEPT !["sh"] = t]
    BY <1>4 DEF Command
  <2> QED BY <1>1, <2>1
<1>5. ASSUME NEW p \in Procs, Step(p)
      PROVE  \/ script' = script
             \/ script[p] # <<>> /\ Done(p)
             \/ Serve(p)
  <2>1. SendTell(p) => script[p] # <<>> /\ Done(p)
    BY Zenon DEF SendTell, Does
  <2>2. SendReply(p) \/ LookupName(p) \/ RegisterName(p) \/ BeginExecution(p) \/ WaitEnds(p) =>
          script[p] # <<>> /\ Done(p)
    BY DEF SendReply, LookupName, RegisterName, BeginExecution, WaitEnds, Does
  <2>3. SendAsk(p) \/ Exit(p) => script' = script
    BY DEF SendAsk, Exit
  <2>4. TakeAnswer(p) => script[p] # <<>> /\ Done(p)
    <3>1. TakeAnswer(p) => asked[p] # 0 /\ Done(p)
      BY DEF TakeAnswer
    <3> QED BY <3>1 DEF ServicesInv, AskersAsk
  <2> QED BY <1>5, <2>1, <2>2, <2>3, <2>4 DEF Step
<1>6. ASSUME NEW p \in Procs, script[p] # <<>>, Done(p)
      PROVE  \/ script'["vfs"] = script["vfs"]
             \/ script["vfs"] # <<>> /\ script'["vfs"] = Tail(script["vfs"])
  BY <1>1, <1>6 DEF Done
<1>7. ASSUME NEW p \in Procs, Serve(p)
      PROVE  \/ script'["vfs"] = script["vfs"]
             \/ \E r \in Held["vfs"] : Serves("vfs", r) /\ script["vfs"] = <<>>
  <2>1. PICK r \in Held[p] : Serves(p, r)
    BY <1>7, ServeTakes
  <2>2. script[p] = <<>> /\ script' = [script EXCEPT ![p] = Handles(p, r)]
    BY <2>1 DEF Serves, Takes
  <2> QED BY <1>1, <2>1, <2>2
<1>8. CASE UNCHANGED vars
  BY <1>8 DEF vars
<1>9. [Next]_vars => UNCHANGED vars \/ Command \/ \E p \in Procs : Step(p)
  BY DEF Next
<1> QED BY <1>2, <1>4, <1>5, <1>6, <1>7, <1>8, <1>9

\* What vfs makes of a request either asks or replies.
LEMMA VfsHandlesEither ==
  ASSUME ServicesInv, NEW r \in Held["vfs"], r.reply_to = 0
  PROVE  LET s == VfsHandles(r)
         IN  \A i, j \in DOMAIN s : ~(s[i].do = "ask" /\ s[j].do = "reply")
<1> DEFINE s == VfsHandles(r)
           op == r.data.op
           Either(u) == \A i, j \in DOMAIN u : ~(u[i].do = "ask" /\ u[j].do = "reply")
<1> SUFFICES Either(s)
  OBVIOUS
<1>1. op \in FileOps \cup {"ROOT", "AWAIT_ROOT", "REGISTER_DRIVER", "MOUNT_ROOT"}
  BY ServedOps, ServiceNames
<1>2. \A arg : Either(<<Reply(r, arg)>>)
  BY DEF Reply
<1>3. CASE op \in FileOps
  <2> DEFINE a == AskDriver(PidForDriver(root), op, r.data.arg)
             x == Ask(PidForDriver(root), op, r.data.arg)
             y == Pass(r)
  <2>1. s = a \o <<y>>
    BY <1>3, VfsHandling
  <2>2. a = <<x>> /\ x.do = "ask" /\ y.do = "pass"
    BY DEF AskDriver, Ask, Pass
  <2> HIDE DEF a, x, y, s
  <2>3. s = <<x, y>>
    BY <2>1, <2>2, TuplesConcat
  <2> QED BY <2>2, <2>3
<1>4. CASE op = "MOUNT_ROOT"
  <2> DEFINE a == <<Reply(r, Blank)>>
             b == Replies(awaiting["vfs"])
             m == Len(a)
             u == a \o b
  <2>1. s = u
    <3>1. s = MountRoot(r)
      BY <1>4, VfsHandling
    <3>2. MountRoot(r) = u
      BY Zenon DEF MountRoot, Blank
    <3> QED BY <3>1, <3>2
  <2>2. \A i \in DOMAIN b : b[i].do = "reply"
    <3> DEFINE blank == ""
    <3>1. b = [i \in DOMAIN awaiting["vfs"] |-> Reply(awaiting["vfs"][i], blank)]
      BY Zenon DEF Replies
    <3> HIDE DEF b, blank
    <3> QED BY <3>1 DEF Reply
  <2>3. b \in Seq({b[i] : i \in DOMAIN b})
    <3> DEFINE blank == ""
               w == awaiting["vfs"]
               n == Len(w)
    <3>1. b = [i \in DOMAIN w |-> Reply(w[i], blank)]
      BY Zenon DEF Replies
    <3> HIDE DEF b, blank
    <3>2. w \in Seq(Message)
      BY DEF ServicesInv, Typed
    <3> HIDE DEF w
    <3>3. b = [i \in 1 .. n |-> b[i]] /\ n \in Nat /\ DOMAIN b = 1 .. n
      BY <3>1, <3>2
    <3> HIDE DEF n
    <3>4. [i \in 1 .. n |-> b[i]] \in Seq({b[i] : i \in DOMAIN b})
      BY <3>3
    <3> QED BY <3>3, <3>4
  <2>4. a[1].do = "reply" /\ Len(a) = 1 /\ DOMAIN a = {1} /\ a \in Seq({a[1]})
    BY DEF Reply
  <2>5. \A i \in DOMAIN u : u[i].do = "reply"
    <3> DEFINE S == {b[i] : i \in DOMAIN b} \cup {a[1]}
    <3>1. \A c \in S : c.do = "reply"
      BY <2>2, <2>4
    <3> HIDE DEF a, b
    <3>2. a \in Seq(S) /\ b \in Seq(S)
      BY <2>3, <2>4
    <3> HIDE DEF S
    <3>3. u \in Seq(S)
      BY <3>2
    <3> HIDE DEF u
    <3> QED BY <3>1, <3>3
  <2> HIDE DEF s, u
  <2> QED BY <2>1, <2>5
<1>5. CASE op = "AWAIT_ROOT"
  <2>1. s = <<>> \/ s = <<Reply(r, Blank)>>
    BY <1>5, VfsHandling
  <2> QED BY <1>2, <2>1
<1>6. CASE op \in {"ROOT", "REGISTER_DRIVER"}
  <2>1. s = <<Reply(r, root)>> \/ s = <<Reply(r, DriverNo)>>
    BY <1>6, VfsHandling
  <2> QED BY <1>2, <2>1
<1> QED BY <1>1, <1>3, <1>4, <1>5, <1>6

LEMMA VfsAsksOrRepliesAlways == Spec => []VfsAsksOrReplies
<1> DEFINE P(u) == \A i, j \in DOMAIN u : ~(u[i].do = "ask" /\ u[j].do = "reply")
<1>1. Init => VfsAsksOrReplies
  <2>1. Init => script["vfs"] = <<>>
    <3>1. ScriptOf("vfs") = <<>>
      BY NamesAssumption DEF ScriptOf, Services, Booted, Harddisk
    <3> QED BY <3>1, ServiceNames DEF Init
  <2> QED BY <2>1 DEF VfsAsksOrReplies
<1>2. ASSUME ServicesInv, VfsAsksOrReplies, [Next]_vars PROVE VfsAsksOrReplies'
  <2>1. CASE script'["vfs"] = script["vfs"]
    BY <1>2, <2>1 DEF VfsAsksOrReplies
  <2>2. CASE script["vfs"] # <<>> /\ script'["vfs"] = Tail(script["vfs"])
    <3> DEFINE s == script["vfs"]
               t == Tail(s)
    <3>1. s \in Seq(Calls) /\ s # <<>>
      BY <1>2, <2>2, ServiceNames DEF ServicesInv, ScriptsAreSound
    <3>2. \A i \in DOMAIN t : i + 1 \in DOMAIN s /\ t[i] = s[i + 1]
      BY <3>1, TailAt
    <3>3. P(s)
      BY <1>2 DEF VfsAsksOrReplies
    <3> HIDE DEF s, t
    <3>4. P(t)
      BY <3>2, <3>3
    <3> QED BY <2>2, <3>4 DEF VfsAsksOrReplies, s, t
  <2>3. ASSUME NEW r \in Held["vfs"], Serves("vfs", r) PROVE VfsAsksOrReplies'
    <3>1. r.reply_to = 0 /\ script' = [script EXCEPT !["vfs"] = VfsHandles(r)]
      BY <2>3, HandlesIs DEF Serves, Takes
    <3>2. script'["vfs"] = VfsHandles(r)
      BY <1>2, <3>1, ServiceNames DEF ServicesInv, ScriptsAreSound
    <3>3. P(VfsHandles(r))
      BY <1>2, <3>1, VfsHandlesEither
    <3> QED BY <3>2, <3>3 DEF VfsAsksOrReplies
  <2> QED BY <1>2, <2>1, <2>2, <2>3, VfsScriptSteps
<1> QED BY <1>1, <1>2, ServicesKeepInv, PTL DEF Spec

\* fat does not wait for vfs while vfs waits for fat: vfs asks fat once a root is
\* mounted, and then it has answered what fat asks of it.
LEMMA FatAndVfs ==
  ASSUME ServicesInv, VfsAsksOrReplies, "vfs" \in Waiting, "fat" \in Waiting
  PROVE  AskingOf("fat").to # "vfs"
<1> SUFFICES ASSUME AskingOf("fat").to = "vfs" PROVE FALSE
  OBVIOUS
<1> DEFINE c == AskingOf("fat")
           d == AskingOf("vfs")
<1>1. "vfs" \in Procs /\ "fat" \in Procs
  BY ServiceNames
<1>2. /\ asked["vfs"] # 0 /\ asked["fat"] # 0
      /\ Blocks(ProbeQueueCall(asked["fat"]), queue["fat"])
  BY DEF Waiting
<1>3. c.op \in {"REGISTER_DRIVER", "MOUNT_ROOT"} /\ Asking["fat"] = c
  <2>1. MayAsk("fat", c.to, c.op) /\ Asking["fat"] = c
    BY <1>1, <1>2, AskerIs
  <2> QED BY <2>1 DEF MayAsk
<1>4. /\ script["vfs"] # <<>> /\ d.do = "ask" /\ d.op \in FileOps /\ Mounted \in Known
  <2>1. /\ script["vfs"] # <<>> /\ d.do = "ask" /\ MayAsk("vfs", d.to, d.op)
        /\ Needs(d) \subseteq Known
    BY <1>1, <1>2, AskerIs
  <2>2. d.op \in FileOps
    BY <2>1 DEF MayAsk
  <2> QED BY <2>1, <2>2 DEF Needs, TakenBy
<1>5. root # NoRoot /\ drivers # <<"vfs">>
  BY <1>4, KnownIs DEF ServicesInv, Mounting
<1>6. \/ \E x \in Held["vfs"] : IsRequest(x) /\ x.id = asked["fat"] /\ x.from = "fat"
      \/ \E x \in Listed["vfs"] : x.id = asked["fat"] /\ x.from = "fat"
      \/ \E x \in Owed["vfs"] : x.id = asked["fat"] /\ x.from = "fat"
      \/ \E y \in Held["fat"] : y.reply_to = asked["fat"]
  BY <1>1, <1>2, <1>3 DEF ServicesInv, Placed, AskedAreSomewhere
<1>7. ~\E y \in Held["fat"] : y.reply_to = asked["fat"]
  BY <1>1, <1>2, AnswerReleases
<1>8. ASSUME NEW x \in Held["vfs"], IsRequest(x), x.from = "fat" PROVE FALSE
  <2>1. x.data.op = c.op
    BY <1>1, <1>3, <1>8 DEF ServicesInv, Placed, RequestsPend, Pends, Fits
  <2> QED BY <1>3, <1>5, <1>8, <2>1 DEF ServicesInv, Mounting
<1>9. ASSUME NEW x \in Listed["vfs"], x.from = "fat" PROVE FALSE
  BY <1>5, <1>9 DEF ServicesInv, ListsAreSound
<1>10. ASSUME NEW x \in Owed["vfs"], x.from = "fat" PROVE FALSE
  <2>1. x.data.op = c.op
    BY <1>1, <1>3, <1>10 DEF ServicesInv, Placed, OwedPend, Pends, Fits
  <2>2. PICK i \in DOMAIN script["vfs"] : IsAnswer(script["vfs"][i]) /\ x = script["vfs"][i].request
    BY <1>1 DEF Owed, OwedIn
  <2>3. MayDo("vfs", script["vfs"][i])
    BY <1>1 DEF ServicesInv, ScriptsAreSound, Sound
  <2>4. script["vfs"][i].do # "pass"
    BY <1>3, <2>1, <2>2, <2>3 DEF MayDo, FileOps
  <2>5. script["vfs"][i].do = "reply"
    BY <2>2, <2>4 DEF IsAnswer
  <2>6. 1 \in DOMAIN script["vfs"] /\ script["vfs"][1] = d
    BY <1>1, <1>4, TailAt DEF ServicesInv, ScriptsAreSound, AskingOf
  <2> QED BY <1>4, <2>5, <2>6 DEF VfsAsksOrReplies
<1> QED BY <1>6, <1>7, <1>8, <1>9, <1>10

\* No processes wait for each other in a circle.
THEOREM ServicesDoNotWaitInACircle == Spec => []NobodyWaitsForItself
<1>1. ASSUME ServicesInv, VfsAsksOrReplies, NEW S \in SUBSET Waiting, S # {},
             \A p \in S : AskingOf(p).to \in S
      PROVE  FALSE
  <2>1. \A p \in S : p \in Procs /\ asked[p] # 0
    BY <1>1 DEF Waiting, ServicesInv, Typed
  <2>2. \A p \in S : MayAsk(p, AskingOf(p).to, AskingOf(p).op)
    BY <1>1, <2>1, AskerIs
  <2>3. "ata" \notin S
    BY <2>2 DEF MayAsk
  <2>4. \A p \in S : p \notin {"fat", "vfs"} => AskingOf(p).to \in {"vfs", "pci"}
    BY <1>1, <2>2, <2>3 DEF MayAsk
  <2>5. "pci" \in S => AskingOf("pci").to = "vfs"
    BY <2>2 DEF MayAsk
  <2>6. "vfs" \in S => AskingOf("vfs").to = "fat"
    BY <2>2 DEF MayAsk
  <2>7. "fat" \in S => AskingOf("fat").to = "vfs"
    BY <1>1, <2>2, <2>3 DEF MayAsk
  <2>8. "vfs" \in S /\ "fat" \in S
    BY <1>1, <2>4, <2>5, <2>6, <2>7
  <2> QED BY <1>1, <2>7, <2>8, FatAndVfs
<1>2. ServicesInv /\ VfsAsksOrReplies => NobodyWaitsForItself
  BY <1>1 DEF NobodyWaitsForItself
<1> QED BY <1>2, ServicesKeepInv, VfsAsksOrRepliesAlways, PTL
=============================================================================
