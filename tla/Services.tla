------------------------------ MODULE Services ------------------------------
(***************************************************************************)
(* The services that bring the machine up and serve files: ata, fat, vfs,  *)
(* pci, piix3, acpi and init (packages/), and the shell, as programs that  *)
(* talk through message queues.                                            *)
(*                                                                         *)
(* A program is the sequence of its calls that others can notice, its      *)
(* script: script[p] is what p has still to do, and each action does the   *)
(* call at its head.  A server whose script is done takes the next message *)
(* and continues with the script of its handler.  What a program does with *)
(* an answer follows from the files and devices there are, which are       *)
(* constants; AnswersFit says that it gets that answer.  Waiting for a     *)
(* message is a guard here: MessageQueues shows that nobody sleeps through *)
(* the message it waits for.                                               *)
(***************************************************************************)
EXTENDS MessageQueue

CONSTANTS
  DriverFiles,     \* the entries of /sys/drivers, in order
  Functions,       \* what is on the PCI bus: [slot, fn, device]
  Programs,        \* what the shell can start, each at most once
  MaxCommands      \* bound: commands given to the shell

ASSUME ServicesAssumption ==
  /\ IsFiniteSet(Functions) /\ MaxCommands \in Nat
  /\ DriverFiles \in Seq(STRING)

VARIABLES
  script,      \* what each process has still to do
  queue,       \* Task::replyQueue
  lastMsgId,   \* last_msg_id of Queue::push_back
  alive,       \* the running processes
  born,        \* those that ever ran
  names,       \* the registered names
  asked,       \* the message each process waits to be answered, 0 if none
  answer,      \* the data of its last answer
  drivers,     \* vfs: pids of the file system drivers
  root,        \* vfs: the driver of vfs_root, or NoRoot
  nonHdsUp,    \* pci: non_hds_brought_up
  awaiting,    \* vfs: awaiting_root; pci: awaiting_drivers_up
  commands,    \* how many commands the shell was given
  off          \* whether acpi has switched the machine off

kernelVars == <<queue, lastMsgId, alive, born, names>>
serverVars == <<drivers, root, nonHdsUp, awaiting>>
vars == <<script, kernelVars, asked, answer, serverVars, commands, off>>

Booted == {"ata", "fat", "vfs", "init"}
Harddisk == {"piix3"}
Services == Booted \cup {"acpi", "pci", "keyboard", "sh"}
Drivers == {DriverFiles[i] : i \in DOMAIN DriverFiles} \ {"."}
Procs == Services \cup Drivers \cup Programs

\* A process goes by the name of its image, so the images have names of their own.
ASSUME NamesAssumption ==
  /\ Services \cap (Drivers \cup Programs \cup Harddisk) = {}
  /\ Programs \cap (Drivers \cup Harddisk) = {}

\* Those whose main has an endless loop.
Residents == {"ata", "fat", "vfs", "acpi", "pci", "keyboard", "sh"}

NoRoot == -1
NoAnswer == [op |-> "none", arg |-> "none"]

-----------------------------------------------------------------------------
(* Scripts.                                                                *)

Ask(q, op, arg) == [do |-> "ask", to |-> q, op |-> op, arg |-> arg]
Tell(q, op) == [do |-> "tell", to |-> q, op |-> op]
Lookup(n) == [do |-> "lookup", name |-> n]
Register(n) == [do |-> "register", name |-> n]
Begin(p) == [do |-> "begin", pid |-> p]
WaitProcess(p) == [do |-> "wait", pid |-> p]

\* Answers to a request r: with a value, or with what the last answer said.
Reply(r, arg) == [do |-> "reply", request |-> r, arg |-> arg]
Pass(r) == [do |-> "pass", request |-> r]

Fs(op, arg) == Ask("vfs", op, arg)

\* Mutant of FsInit: does not wait until there is a root.
FsInitAtOnce == <<Fs("ROOT", "")>>

\* init of fs.cpp, before the first file operation of a program.
FsInit == <<Fs("AWAIT_ROOT", ""), Fs("ROOT", "")>>

\* A path is the sequence of its components; resolve_path asks for each, from
\* the root, which needs no request.
ResolvePath(path) == [i \in DOMAIN path |-> Fs("FINDDIR", path[i])]
FExists(path) == ResolvePath(path)
IsDirectory(path) == ResolvePath(path)
FOpen(path) == ResolvePath(path)
FRead(path) == <<Fs("READ", Last(path))>>
OpenDir(path) == ResolvePath(path)
ReadDir(entry) == <<Fs("READDIR", entry)>>

DriverPath == <<"sys", "drivers">>

Bootstrap(path) == FOpen(path) \o FRead(path) \o <<Begin(Last(path))>>

InitScript ==
  FsInit \o Bootstrap(<<"acpi">>) \o <<Register("acpi")>>
         \o Bootstrap(<<"pci">>)
         \o <<Register("pci"), Ask("pci", "AWAIT_DRIVERS_UP", "")>>
         \o Bootstrap(<<"keyboard">>) \o <<Register("keyboard")>>
         \o Bootstrap(<<"sh">>)

FatScript ==
  <<Lookup("ata"), Ask("ata", "MBR_READ", "boot record"), Ask("ata", "MBR_READ", "fat"),
    Lookup("vfs"), Ask("vfs", "REGISTER_DRIVER", ""), Ask("vfs", "MOUNT_ROOT", "its driver")>>

\* pci: check_hds.
PciScript ==
  LET path == Append(DriverPath, "piix3")
  IN  FsInit \o FExists(path)
             \o (IF "piix3" \in Drivers THEN Bootstrap(path) ELSE <<>>)

\* pci: check_all_devices, which leaves a slot without a function 0.
AllDevices == {f \in Functions : \E g \in Functions : g.slot = f.slot /\ g.fn = 0}
DevicesOf(d) == {f \in AllDevices : f.device = d}

\* piix3 gives up unless it finds one device.
Piix3Script ==
  <<Lookup("pci"), Ask("pci", "DEVICE_CONFIG", "piix3")>>
    \o IF Cardinality(DevicesOf("piix3")) = 1
       THEN <<Lookup("ata"), Ask("ata", "SET_BAR4", ""), Tell("pci", "DMA_UP")>>
       ELSE <<>>

DriverScript == <<Lookup("pci"), Ask("pci", "DEVICE_CONFIG", "driver")>>

\* packages/shutdown, with -h.
ProgramScript == <<Lookup("acpi"), Tell("acpi", "SHUTDOWN")>>

ScriptOf(p) ==
  CASE p = "init"                     -> InitScript
    [] p = "fat"                      -> FatScript
    [] p = "pci"                      -> PciScript
    [] p = "sh"                       -> FsInit
    [] p \in Harddisk                 -> Piix3Script
    [] p \in Drivers \ Harddisk       -> DriverScript
    [] p \in Programs                 -> ProgramScript
    [] OTHER                          -> <<>>

\* pci: check_non_hds.  Every entry is read, then one more is asked for.
CheckNonHds ==
  LET path(d) == Append(DriverPath, d)
      entry(d) == ReadDir(d)
                    \o (IF d \in Harddisk THEN <<>>
                        ELSE FExists(path(d)) \o IsDirectory(path(d)))
                    \o (IF d \in Drivers \ Harddisk THEN Bootstrap(path(d)) ELSE <<>>)
  IN  OpenDir(DriverPath)
        \o FlattenSeq([i \in DOMAIN DriverFiles |-> entry(DriverFiles[i])])
        \o ReadDir("end")

\* What the shell does for a command, in the directory /.
List == OpenDir(<<>>) \o ReadDir("entry") \o ReadDir("end")
Run(p, background) ==
  FExists(<<p>>) \o IsDirectory(<<p>>) \o Bootstrap(<<p>>)
    \o (IF background THEN <<>> ELSE <<WaitProcess(p)>>)

-----------------------------------------------------------------------------
Init ==
  /\ script = [p \in Procs |-> ScriptOf(p)]
  /\ queue = [p \in Procs |-> <<>>]
  /\ lastMsgId = 0
  /\ alive = Booted
  /\ born = Booted
  /\ names = {"ata", "fat", "vfs"}
  /\ asked = [p \in Procs |-> 0]
  /\ answer = [p \in Procs |-> NoAnswer]
  /\ drivers = <<"vfs">>
  /\ root = NoRoot
  /\ nonHdsUp = FALSE
  /\ awaiting = [p \in {"vfs", "pci"} |-> <<>>]
  /\ commands = 0
  /\ off = FALSE

CanRun(p) == ~off /\ p \in alive

\* p is at a call of the given kind.
Does(p, what) ==
  CanRun(p) /\ asked[p] = 0 /\ script[p] # <<>> /\ Head(script[p]).do = what

Done(p) == script' = [script EXCEPT ![p] = Tail(@)]

\* sendQueue.
SendQueue(p, q, r, op, arg) ==
  /\ lastMsgId' = lastMsgId + 1
  /\ queue' = [queue EXCEPT ![q] =
                 PushBack(@, Item(lastMsgId + 1, p, r, [op |-> op, arg |-> arg]))]
  /\ UNCHANGED <<alive, born, names>>

\* The driver that fat mounts is the one vfs told it.
SendAsk(p) ==
  /\ Does(p, "ask")
  /\ LET c == Head(script[p])
     IN  SendQueue(p, c.to, 0, c.op, IF c.op = "MOUNT_ROOT" THEN answer[p].arg ELSE c.arg)
  /\ asked' = [asked EXCEPT ![p] = lastMsgId + 1]
  /\ UNCHANGED <<script, answer, serverVars, commands, off>>

\* probeQueueFor and shiftQueue.
TakeAnswer(p) ==
  /\ CanRun(p) /\ asked[p] # 0
  /\ ~Blocks(ProbeQueueCall(asked[p]), queue[p])
  /\ LET item == Probed(queue[p], asked[p])
     IN  /\ answer' = [answer EXCEPT ![p] = item.data]
         /\ queue' = [queue EXCEPT ![p] = Removed(@, item.id)]
  /\ asked' = [asked EXCEPT ![p] = 0]
  /\ Done(p)
  /\ UNCHANGED <<lastMsgId, alive, born, names, serverVars, commands, off>>

SendTell(p) ==
  /\ Does(p, "tell")
  /\ SendQueue(p, Head(script[p]).to, 0, Head(script[p]).op, "")
  /\ Done(p)
  /\ UNCHANGED <<asked, answer, serverVars, commands, off>>

SendReply(p) ==
  /\ Does(p, "reply") \/ Does(p, "pass")
  /\ LET c == Head(script[p])
     IN  SendQueue(p, c.request.from, c.request.id, c.request.data.op,
                   IF c.do = "reply" THEN c.arg ELSE answer[p].arg)
  /\ Done(p)
  /\ UNCHANGED <<asked, answer, serverVars, commands, off>>

\* processIdByNameBlock.
LookupName(p) ==
  /\ Does(p, "lookup") /\ Head(script[p]).name \in names
  /\ Done(p)
  /\ UNCHANGED <<kernelVars, asked, answer, serverVars, commands, off>>

\* registerName, of the process that goes by the name.
RegisterName(p) ==
  /\ Does(p, "register")
  /\ names' = names \cup ({Head(script[p]).name} \cap alive)
  /\ Done(p)
  /\ UNCHANGED <<queue, lastMsgId, alive, born, asked, answer, serverVars, commands, off>>

\* spawn and beginExecution.
BeginExecution(p) ==
  /\ Does(p, "begin")
  /\ alive' = alive \cup {Head(script[p]).pid}
  /\ born' = born \cup {Head(script[p]).pid}
  /\ Done(p)
  /\ UNCHANGED <<queue, lastMsgId, names, asked, answer, serverVars, commands, off>>

WaitEnds(p) ==
  /\ Does(p, "wait") /\ Head(script[p]).pid \notin alive
  /\ Done(p)
  /\ UNCHANGED <<kernelVars, asked, answer, serverVars, commands, off>>

\* main returns.
Exit(p) ==
  /\ CanRun(p) /\ script[p] = <<>> /\ p \notin Residents
  /\ alive' = alive \ {p}
  /\ names' = names \ {p}
  /\ UNCHANGED <<script, queue, lastMsgId, born, asked, answer, serverVars, commands, off>>

-----------------------------------------------------------------------------
(* The servers.                                                            *)

FileOps == {"READ", "READDIR", "FINDDIR"}

\* Mutant of PidForDriver: counts drivers from one.
PidForDriverFromOne(d) == drivers[IF d = 0 THEN 1 ELSE d]

PidForDriver(d) == drivers[d + 1]

Replies(rs) == [i \in DOMAIN rs |-> Reply(rs[i], "")]

DriverNo == Len(drivers)

\* Mutant of MountRoot: those who wait are not told.
MountRootSilently(r) == <<Reply(r, "")>>

MountRoot(r) == <<Reply(r, "")>> \o Replies(awaiting["vfs"])

\* fs_read, fs_readdir and fs_finddir of vfs.
AskDriver(d, op, arg) == <<Ask(d, op, arg)>>

\* What a server does for request r before it takes the next.
VfsHandles(r) ==
  CASE r.data.op \in FileOps ->
         AskDriver(PidForDriver(root), r.data.op, r.data.arg) \o <<Pass(r)>>
    [] r.data.op = "ROOT"            -> <<Reply(r, root)>>
    [] r.data.op = "REGISTER_DRIVER" -> <<Reply(r, DriverNo)>>
    [] r.data.op = "MOUNT_ROOT"      -> MountRoot(r)
    [] r.data.op = "AWAIT_ROOT"      -> IF root = NoRoot THEN <<>> ELSE <<Reply(r, "")>>

FatHandles(r) == <<Ask("ata", "MBR_READ", r.data.arg), Pass(r)>>

AtaHandles(r) == <<Reply(r, r.data.arg)>>

\* Mutant of DmaUp: those who wait are not told.
DmaUpSilently(r) == IF nonHdsUp THEN <<>> ELSE CheckNonHds

DmaUp(r) == IF nonHdsUp THEN <<>> ELSE CheckNonHds \o Replies(awaiting["pci"])

PciHandles(r) ==
  CASE r.data.op = "DEVICE_CONFIG"    -> <<Reply(r, r.data.arg)>>
    [] r.data.op = "DMA_UP"           -> DmaUp(r)
    [] r.data.op = "AWAIT_DRIVERS_UP" -> IF nonHdsUp THEN <<Reply(r, "")>> ELSE <<>>

Handles(p, r) ==
  CASE p = "vfs"  -> VfsHandles(r)
    [] p = "fat"  -> FatHandles(r)
    [] p = "ata"  -> AtaHandles(r)
    [] p = "pci"  -> PciHandles(r)
    [] p = "acpi" -> <<>>

\* Mutant of KeepsAwaiting: the request is answered later by nobody.
ForgetsAwaiting(p, r) == awaiting[p]

\* The clients that await a root, or the drivers, once p has handled r.
KeepsAwaiting(p, r) ==
  CASE r.data.op = "AWAIT_ROOT" /\ root = NoRoot      -> Append(awaiting[p], r)
    [] r.data.op = "AWAIT_DRIVERS_UP" /\ ~nonHdsUp    -> Append(awaiting[p], r)
    [] r.data.op \in {"MOUNT_ROOT", "DMA_UP"}         -> <<>>
    [] OTHER                                          -> awaiting[p]

\* probeQueue, shiftQueue, and the part of the handler that changes the state
\* of the server.
Serve(p) ==
  /\ CanRun(p) /\ p \in Residents \ {"sh"} /\ script[p] = <<>> /\ asked[p] = 0
  /\ ~Blocks(ProbeQueueCall(0), queue[p])
  /\ LET r == Probed(queue[p], 0)
     IN  /\ queue' = [queue EXCEPT ![p] = Removed(@, r.id)]
         /\ script' = [script EXCEPT ![p] = Handles(p, r)]
         /\ drivers' = IF r.data.op = "REGISTER_DRIVER" THEN Append(drivers, r.from)
                       ELSE drivers
         /\ root' = IF r.data.op = "MOUNT_ROOT" THEN r.data.arg ELSE root
         /\ nonHdsUp' = (nonHdsUp \/ r.data.op = "DMA_UP")
         /\ awaiting' = [q \in DOMAIN awaiting |->
                           IF q = p THEN KeepsAwaiting(p, r) ELSE awaiting[q]]
         /\ off' = (r.data.op = "SHUTDOWN")
  /\ UNCHANGED <<lastMsgId, alive, born, names, asked, answer, commands>>

\* The shell reads a line and does what it says.
AtPrompt == "sh" \in alive /\ script["sh"] = <<>>

Command ==
  /\ ~off /\ AtPrompt /\ commands < MaxCommands
  /\ \/ script' = [script EXCEPT !["sh"] = List]
     \/ \E p \in Programs \ born, background \in BOOLEAN :
          script' = [script EXCEPT !["sh"] = Run(p, background)]
  /\ commands' = commands + 1
  /\ UNCHANGED <<kernelVars, asked, answer, serverVars, off>>

Step(p) ==
  \/ SendAsk(p) \/ TakeAnswer(p) \/ SendTell(p) \/ SendReply(p)
  \/ LookupName(p) \/ RegisterName(p) \/ BeginExecution(p) \/ WaitEnds(p)
  \/ Exit(p) \/ Serve(p)

Next == (\E p \in Procs : Step(p)) \/ Command

\* The processor runs some task while one can run (see RunnableTasksRun of
\* Scheduler); nothing more is assumed of which.
Spec == Init /\ [][Next]_vars /\ WF_vars(\E p \in Procs : Step(p))
=============================================================================
