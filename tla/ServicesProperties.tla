------------------------- MODULE ServicesProperties -------------------------
(***************************************************************************)
(* Properties of Services.                                                 *)
(***************************************************************************)
EXTENDS Services

AskingOf(p) == Head(script[p])

\* A program is answered what it asked, though its request passes through vfs,
\* fat and ata, which serve others in between, and though requests of others
\* are in its own queue: a file operation returns what it asked for, and a
\* program is started from its own image.
AnswersFit ==
  [][\A p \in alive : asked[p] # 0 /\ asked'[p] = 0 =>
       /\ answer'[p].op = AskingOf(p).op
       /\ AskingOf(p).op \in FileOps \cup {"MBR_READ", "DEVICE_CONFIG"} =>
            answer'[p].arg = AskingOf(p).arg]_vars

\* vfs looks up vfs_root->driver for every file operation, and sendQueue uses
\* what getTaskById returns, both without a check.  No file operation reaches vfs
\* before a root is mounted (fs.cpp waits for that), and nobody is about to send
\* to a process that has ended or has not begun, though it answers a request that
\* came before it waited for others.
NoNullIsUsed ==
  /\ \A i \in DOMAIN queue["vfs"] :
       queue["vfs"][i].data.op \in FileOps => root # NoRoot
  /\ \A p \in alive : asked[p] = 0 /\ script[p] # <<>> =>
       LET c == Head(script[p])
       IN  /\ c.do \in {"ask", "tell"} => c.to \in alive
           /\ c.do \in {"reply", "pass"} => c.request.from \in alive

\* Those that have asked somebody and have no answer yet.
Waiting == {p \in alive : asked[p] # 0 /\ Blocks(ProbeQueueCall(asked[p]), queue[p])}

\* No processes wait for each other in a circle: pci asks vfs while init and piix3
\* wait for pci, and vfs asks the driver of vfs_root, which is itself when that
\* is the null driver.
NobodyWaitsForItself ==
  \A S \in SUBSET Waiting : S # {} => \E p \in S : AskingOf(p).to \notin S

\* Whoever awaits a root or the drivers is on the list of the server, or has its
\* request in a queue, or is being answered: nobody is forgotten.
AwaitersAreKept ==
  \A p \in alive : asked[p] # 0 /\ AskingOf(p).op \in {"AWAIT_ROOT", "AWAIT_DRIVERS_UP"} =>
    LET s == AskingOf(p).to
        isIt(r) == r.id = asked[p]
    IN  \/ ~Blocks(ProbeQueueCall(asked[p]), queue[p])
        \/ \E i \in DOMAIN queue[s] : isIt(queue[s][i])
        \/ \E i \in DOMAIN awaiting[s] : isIt(awaiting[s][i])
        \/ \E i \in DOMAIN script[s] :
             script[s][i].do = "reply" /\ isIt(script[s][i].request)

\* The machine comes up, and every request is answered: init's requests to vfs
\* and pci, pci's to vfs, and those of piix3 to pci and ata all end, the shell
\* carries out its commands, and in the end it is at its prompt and nobody waits
\* for an answer, unless the machine was switched off.
BootCompletes == <>[](off \/ (AtPrompt /\ \A p \in Procs : asked[p] = 0))
=============================================================================
