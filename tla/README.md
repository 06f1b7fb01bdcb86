# TLA+ models of the Akari microkernel

Akari is a small x86 microkernel. The kernel schedules tasks, delivers hardware
interrupts to user-mode drivers, and gives them messages, streams and names to
find each other by; file systems and device drivers are ordinary processes.
This directory holds TLA+ models of the kernel's logic, the TLC runs that check
them and machine-checked proofs about them.

Run everything from this directory:

    tlc -config Scheduler.cfg MCScheduler.tla            # a model-checking run
    tlapm Scheduler_proofs.tla                           # a proof module

`PROJECT.json` lists the runs, what each checks, and which source lines each
definition stands for.

## The system

All kernel code runs with interrupts off: the CPU enters the kernel through an
interrupt gate and leaves it with `iret`. A kernel entry (a system call, a timer
tick, a device interrupt, a CPU exception) is therefore atomic with respect to
all others, and the interesting interleavings are those of whole entries: which
task runs next, what it does, and which interrupt comes in between. The models
have one action per kernel entry.

| Component | State | Operations | Hard behaviours |
|---|---|---|---|
| Tasks and scheduler (`Tasks.cpp`) | the task list (`start`, `next`), the priority list (`priorityStart`, `priorityNext`), `current`; per task `userWaiting`, `userCall` | `prepareFetchNextTask`, `cycleTask`, `assignInternalTask`, `unblockType`, `unblockTypeWith` | a blocking call is evaluated again when its task is resumed; the resumed call must not block |
| IRQ dispatch (`Descriptor.cpp`, `interrupts.cpp`) | per task `irqListen`, `irqListenHits` | `callHandler`, `isr_handler` | interrupts against waits; several listeners on one line; a fault kills the running task |
| Timer (`Timer.cpp`) | `wakeevents`, delta-encoded; `lastWakeId` | `tick`, `wakeIn`, `desched` | timeouts racing interrupts; removal from the middle of the queue |
| System calls (`Syscall.cpp`, `UserCalls.cpp`, `UserProcess.cpp`) | | `irqWait`, `irqWaitTimeout`, `irqListen`, `irqCheck`, `nanosleep`, `defer`, `sysexit`, `spawn`, `beginExecution` | `returnToNextTask` from inside a handler; exit while others hold references |
| Message queues (`UserIPCQueue.cpp`, `Queue` in `Tasks.cpp`) | per task `replyQueue` | `probeQueue`, `probeQueueFor`, `readQueue`, `shiftQueue`, `sendQueue` | a waiter is woken only by a message whose `reply_to` equals what it waits for |
| Names and process waits (`UserIPC.cpp`) | `registeredTasks`, `registeredName` | `registerName`, `processIdByNameBlock`, `waitProcess` | the named or awaited process exits between wake-up and resumption |
| Streams (`UserIPC.cpp`, `Stream`, `Listener` in `Tasks.cpp`) | per task `streamsByName`; writers, listeners, their buffers and hooks | `registerStream`, `obtainStreamWriter`, `obtainStreamListener`, `readStream`, `writeStream` | one hook per listener, set when a reader blocks and never cleared |
| Kernel heap (`Heap.cpp`, `OrderedArray.hpp`) | an index of holes and data entries | `alloc`, `allocAligned`, `free` | splitting and merging holes; the order of the index |
| Memory (`Memory.cpp`) | the placement address, the frame bitmap, page tables and directories | `alloc`, `allocAligned`, `setPaging`, `allocAnyFrame`, `allocFrame`, `getPage`, `clone`, `switchPageDirectory` | bootstrapping paging while allocating; tables shared by all address spaces; exhaustion |
| ELF loader (`ELF.cpp`), new tasks (`Tasks.cpp`) | one page of the kernel's heap lent to frames of the new task | `loadImageInto`, `CreateTask`, `load_task_argv` | writing into another address space |
| Keyboard service (`packages/keyboard`) | shift and locks, hits, the controller's port | interrupts, `writeStream` | the service, the reader and the echo are behind by different amounts |
| Console and `getline` (`Console.cpp`, `user/stdio.cpp`) | cells and cursor; the line and its buffer | `putChar`, echo, backspace | the line taken back over wrapped and scrolled rows |
| Services (`packages/vfs`, `fat`, `ata`, `pci`, ...) | driver table, root, awaiting clients; partition and FAT geometry | request loops over the message queues | requests and replies among servers, clients that wait for a root or for drivers |
| Disk driver (`packages/ata/mindrvr.cpp`) | the command under way, its error code, what was detected; the drive, the interrupt line and the bus master | detection, `reg_pio_data_in_lba28`, `reg_pio_data_out_lba28`, `dma_pci_lba28` | a drive that answers late, fails or never answers; interrupts left over from what came before |
| Core dumps (`Tasks.cpp`, `Debugger.cpp`) | the file that the debugger keeps | `dumpELFCore`, `setReceiveFile` | two passes over another task's pages that must agree |
| Debugger, containers, C++ runtime | | inspection with the kernel stopped; a library | |

Components interact through direct calls inside one kernel entry (a system call
handler calls the timer, the timer clears `userWaiting` of a task, the switch
evaluates that task's `userCall`), and between processes only through the
kernel: messages, streams, names, exits.

What makes them correct:

- scheduler: it runs only tasks that can run, never reaches one of its own
  assertions, and starves no runnable task;
- interrupts: none is slept through, none wakes a task from an unrelated wait;
- timer: every sleeper is woken, and never by somebody else's event;
- queues: no reader waits while the message it waits for is in its queue, each
  reply reaches the request it answers;
- names and waits: a waiter is told exactly once, and about a process that was
  really there;
- streams: every listener reads every byte written after it was registered, in
  order, once;
- heap: entries tile the heap, live allocations never overlap;
- disk: a command that succeeds has moved all of its sectors and nothing else, one
  that fails has a reason, and every one ends;
- memory: what was allocated before paging stays where it was, the kernel's
  tables are in every address space, no frame belongs to two pages;
- terminal: the shell gets the lines the user meant, and the screen shows them.

## Modules

| Module | Contents |
|---|---|
| `TaskList` | the task list and the priority list as sequences; round robin, unlinking, appending to the priority list with the code's truncation. Stateless. |
| `WakeQueue` | the timer's queue of wake events: `AfterTick`, `WithWakeEvent`, `Descheduled`. Stateless. |
| `Scheduler` | the scheduling core as a state machine: one action per kernel entry. |
| `SchedulerProperties` | its type invariant, safety and liveness properties, and the inductive invariant. |
| `MCScheduler` | constants of the runs. |
| `SequenceLemmas` | lemmas on sequences and quotients. |
| `Scheduler_proofs` | lemmas and theorems of `Scheduler`. |
| `Processes` | spawn and beginExecution, names, process waits, exit and kill. |
| `Processes_proofs` | its inductive invariant and theorems. |
| `MessageQueue` | a task's queue of messages and the call that probes it. Stateless. |
| `MessageQueues` | the queues of all tasks: sends, probes, shifts, exits, and how programs use them as requests and replies. |
| `MCMessageQueues` | symmetry for its safety run. |
| `Kernel_proofs` | inductive invariants and theorems of `MessageQueues` and of the frames of `Memory`. |
| `Streams` | writers, listeners, buffers, hooks, blocking reads. |
| `Broadcast` | what streams promise; `Streams` implements it. |
| `Streams_proofs` | the proof that it does, theorems about readers and about `Terminal`, and those of `Heap`. |
| `Services` | the programs under `packages/` that bring the machine up and serve files, as sequences of calls over message queues. |
| `ServicesProperties`, `MCServices` | its properties, and the files of its run. |
| `Services_proofs` | its inductive invariant and theorems. |
| `Mindrvr` | the driver below ata: one command of some sectors, with the drive, its interrupt line and the bus master. |
| `DiskCommands` | what it promises; `Mindrvr` implements it. |
| `MCMindrvr` | the drives of its run. |
| `DiskCells` | what `Mindrvr` and `Ata` have in common: the disk, cells and sectors. |
| `Ata` | the split of reads and writes of any length into transfers of whole sectors. |
| `FlatDisk` | what ata promises: a row of cells; `Fat` implements it. |
| `Fat` | files and directories on chains of clusters, read through `Ata`. |
| `FatProperties`, `MCFat` | what a chain holds, stated over the cells of the disk; the disks of the run. |
| `Disk_proofs` | inductive invariants and theorems of `Mindrvr`, of `Ata` and of the reads of `Fat`. |
| `Heap` | the index of holes and data: alloc, allocAligned, free. |
| `Allocator` | what a heap promises; `Heap` implements it (proved in `Streams_proofs`). |
| `Memory` | from the first allocations of the kernel through `setPaging` to the address spaces, stacks, heaps, images and core dumps of tasks. |
| `MemoryProperties`, `MCMemory` | its properties; the programs and the layout of its run. |
| `Spaces_proofs` | the inductive invariants and theorems of its address spaces and of what tasks hold in memory. |
| `Terminal` | a key from the controller through the keyboard service, the stream and `getline` to the shell, and its echo on the console. |
| `MCTerminal` | the keys of its run and what the shell prints. |

The modules are on two levels. `Scheduler` has the whole of task switching:
which task runs next, and the evaluation of its pending call. `Processes`,
`MessageQueues` and `Streams` keep of it that any live task that is not waiting
may be the next to run, since a timer tick can come between any two system calls
and round robin can bring any runnable task to the front; they keep the protocol
of blocking calls: a call that cannot complete sets `waiting` and stays in
`call`; another task's entry releases it; and `Resume` evaluates it again and
must find that it completes. `Scheduler`'s `RunnableTasksRun` says
that a released task is resumed.

### Scheduler

`tasks` is the list of tasks in the order of the links, `prio` the priority
list, `current`, `waiting`, `call`, `listen`, `hits` the fields of the tasks,
`wakeevents` and `lastWakeId` the timer's. `call[t]` is the blocking call object
in `userCall`: its kind, its timeout in microseconds (`us`) and the uid of its
wake event, 0 if it has none. `NoCall` is the null pointer: a call that has
completed is deleted (Tasks.cpp:166).

`Evaluate` is `BlockingCall::operator()`. It occurs twice, as in the code: in the
system call (`BlockingCall(c)`), and in `assignInternalTask` when the task is
resumed (`Assign`), where `ASSERT(!shallBlock())` follows. `TimerTick` and `Irq`
are the two interrupt handlers with the switch they end in; `Irq` walks the task
list, credits listeners, releases those that wait in `IRQWaitCall` and appends
to the priority list, including what the append does to a task that is already
linked there (`AppendPriority`). `Sysexit` and `KillOnException` choose the next
task before they unlink the current one, as the code does. A failed ASSERT or a
panic sets `panic` and stops the machine (`AkariHalt`).

The kernel is built with `DEBUG` (`src/src/Makefile.inc`), so ASSERTs are live.

Not in the module: what the switch does to registers and page directories, and
the other blocking calls (messages, streams, names), which have the same shape.
Calls a task makes without the privilege they need end it and are left
out: `IrqWait` and `IrqListen` are taken only by `Drivers`. `irqCheck` needs no
privilege in the code and none in the model.

### Processes

`alive` is the set of tasks on the list, `created` those that were spawned and
not begun, `born` all that ever were: pids count up and are never given twice
(`FreshPid`). `registered` is the map of names in the order of its list, because
`sysexit` erases only the first name it finds. `registerName`, `sysexit` and
`isr_handler` walk the task list and release those whose pending call is of the
matching kind and waits for that name or pid; `NamedWaiters` and `ExitWaiters`
are these sets. `KillOnException` differs from `Sysexit` exactly as the code
does: it erases no name. interrupts.cpp:64 calls it half-copied from `sysexit`;
after a kill `processIdByName` keeps returning a dead process, and
`OnlyKillsLeaveNames` excepts those names. It also excepts those of a process
that was given several (`renamed`, a history variable): `sysexit` erases one.

`RefusedRegisterName` is `registerName` without `PRIV_REGISTER_NAME`:
`requirePrivilege` ends the caller through `panic` and `sysexit`, which switches to
another task but returns, and the rest of the call is carried out for the ended
process. The name is given all the same, and those who wait for it are released.

### MessageQueues

`queue`, `waiting` and `call` are the tasks' fields, `lastMsgId` the one counter
of message ids. `Item`, `PushBack`, `Probed`, `Removed` (module `MessageQueue`)
are the methods of `Queue`, and `IsReleasedBy` is `unblockWith`: a message
releases a probe only if their `reply_to` are equal. A probe for any message is
therefore released by no reply, although it would accept one.

The kernel alone does not keep the promises below; the programs use it in one
way, which the guards state and which was read off every program under
`packages/` and `user/`:

- a request (`read_fs`, `fs_read`, the pci calls) is followed by a
  `probeQueueFor` of its id, and `probeQueue`, which accepts any message, is
  called only when no reply is outstanding (`MayProbe`);
- what was probed is read and shifted before anything else (`info`);
- a server answers a request once, with the request's id, now or later (pci and
  vfs keep a list of clients that await something) (`owed`, `Reply`);
- a program exits with no reply outstanding (`MayExit`).

`sendQueue` dereferences `getTaskById`'s result without a check, so `SendQueue`
is taken only for live receivers; requests to a process that has exited, a crash
in the kernel, are left out. That the system's own programs never send one is part of
`NoNullIsUsed` of `Services`.

### Streams

Per node, `exclusive`, `writers`, `lastId` and, per listener id, `buffer` and
`hooked` are the fields of `Stream` and `Listener`. Bytes are numbered in the
order of writing, which is what the properties tell apart. `hooked` keeps the
last task that blocked on the listener for ever: `unhook` has no callers.
`Shared` says whether a task may read from a listener that was given to another;
it is FALSE in the runs, as in the programs of the repository, because a second
reader takes the listener's one hook, the first is never released, and
`ReadersSleepOnlyWhenEmpty` fails.
`written`, `joined` and `got` are history variables for the refinement of
`Broadcast`. The owner of a node does not exit: `readStream` and `writeStream`
use it without a check.

In `Streams` with two nodes `ReadersSleepOnlyWhenEmpty` fails: the hook releases its
task from a read of any stream, the released reader finds nothing, and the
ASSERT on resumed calls halts the kernel. No program of the repository reads two
streams, and the run has one.

### Services

A program is its script: the calls it makes that others can notice, in order.
`script[p]` is what `p` has still to do, and there is one action for each kind of
call: `SendAsk` and `TakeAnswer` (`sendQueue`, `probeQueueFor` and `shiftQueue`),
`SendTell`, `SendReply`, `LookupName`, `RegisterName`, `BeginExecution`,
`WaitEnds`, `Exit`. A resident whose script is done takes the next message
(`Serve`) and continues with the script of its handler (`VfsHandles`,
`FatHandles`, `AtaHandles`, `PciHandles`); the part of a handler that changes the
server's own state (`drivers`, `vfs_root`, `non_hds_brought_up`, the lists of
those that await) happens in `Serve`, which nobody can tell from its happening a
little later, since only the server reads it. The shell's script is what it does
for a command.

What a program does next depends on the disk and on the PCI bus, which are the
constants `DriverFiles` and `Functions`. A path is the sequence of its
components, each of which `resolve_path` asks vfs for. A file operation is one request from
fat to ata, where the code may need several. Names are not distinguished from the
processes that bear them, which is why the programs on the disk must have names of
their own (`NamesAssumption`). acpi always succeeds in switching the machine off.

Waiting is a guard, on the strength of `MessageQueues`: `NoProbeInVain` says that
whoever waits is released by the message it waits for, and finds it. That programs keep to the discipline under which those hold is
visible here: a script has one request outstanding, and a server serves when it
has none.

### Ata and Fat

The unit of the disk is a cell, which holds an entry of the FAT, an entry of a
directory or a datum. `Split` is the arithmetic that `ata_read_data` and
`ata_write_data` share: a head within a sector, whole sectors, a tail; `Moved`
is what an 8-bit sector count makes of a number of sectors, the reason for the
loops in `ata_read_sectors` and `ata_write_sectors`.

`FatReadData` has the two loops of `fat_read_data`, the first that skips
clusters and the second that copies, with the 16-bit length of a copy
(`CopyLength`): a record says where it is and what it has copied, `Iteration` is
the body of the loop whose turn it is, and `Follow` the step to the next cluster,
in which a chain that leads to a free or reserved cluster is a panic. Each
iteration takes from the offset or from the length, so there are at most as many as
the two together. The
loops of `fat_readdir` and `fat_finddir` are the same but for what they return:
`Visited` is the sequence of entries they come by, `Seen` what they do with
one, and each returns when it has what it looks for. `volume` is what is on the
disk at first and the file or directory that clients ask for; each request is
served and its answer taken before the next.

Properties are stated over the cells of the disk (`FatProperties`): the chain as
a sequence of linked clusters, a file as the cells of its chain, a name as the
parts right before its entry. Not modelled: the size of a file, which fat does
not look at when it reads; the cache of the FAT, which nobody writes. Directories with parts
of a long name that no file follows, or with names longer than `NameSize`, do not occur in
the run. A transfer
of sectors is one step here; it is what `Mindrvr` is about.

Bounds of the run: reads of up to 13 cells from every offset up to 13 pass the
end of the longest chain; requests to ata of up to 11 cells take a head, three
commands and a tail; three units fill a directory's cluster exactly, overflow
into the next, or leave it partly free.

### Mindrvr

The service has one command under way, and `at` is where it is in the code:
`select` (`sub_select`), `wait` (`SYSTEM_WAIT_INTR_OR_TIMEOUT`), `in`, `out` and
`dma` (the loops of `exec_pio_data_in_cmd`, `exec_pio_data_out_cmd`,
`exec_pci_ata_cmd`) and the places of the detection. The drive, its interrupt
line and the bus master are variables of their own, and their actions
(`Hardware`) come between any two steps of the driver; what they do is modelled
from what the driver's ports say. A time out may come whenever the driver waits for
something that has not happened, an error whenever a drive is busy.
`irqWaitTimeout` is a guard on `hits`, as in `Terminal`.

With a bus master, `SYSTEM_WAIT_INTR_OR_TIMEOUT` reads the status only if the
bus master says that there was an interrupt; without one, always. `PrdList` is the
loop of `set_up_xfer` that cuts a buffer at the ends of segments of 64 KiB.

Nothing resets `reg_cmd_info.ec` once it is set, and `sub_select` returns it: after any error
or time out every later command fails at once. `main` looks at no result, so fat
is then answered with what the buffers hold. That is how the code is;
`FailuresAreForGood` says what is good about it.

`faulted` is a history variable, whether the hardware has failed or been too slow.
`DiskCommands` uses it to say that commands fail for no other reason, in
particular not because the driver slept through an interrupt or took one that was
left over. Its moves take any number of cells, so that a command by ports, which
moves a sector at a time, and one by DMA are the same to it.

### Heap

`index` is the `OrderedArray` of entries. `Insert` puts an entry before the
first that is not smaller; `Free` resizes and removes entries where they stand,
with the positions moving as in the code, so the order of the index is not an
invariant, and `SmallestHole` is really the first hole that is large enough. The
page rounding of `allocAligned` is `Offset`; arenas start and end on a page, as
all of the kernel's and the processes' heaps do. `Panic` is a failed ASSERT of the
index, or the panic that no hole is left. `_used`, which nothing reads, is
left out.

Requests for no bytes are granted, several at one address. When one of them is
freed, `free` takes its entry for the hole before itself, merges the entry with
itself and loses it, or looks for a neighbour at index -1, where the ASSERT of
`OrderedArray` (OrderedArray.hpp:55) stops the machine; and since it is the first
entry at its address that is freed, it may be another allocation's. `emptied`
remembers that this has happened: what the properties say of holes and of
allocations that keep their addresses is said until then, and that entries tile the heap
and the index is not exceeded holds after it, too.

### Memory

The kernel does one thing at a time here: `todo` is what is left of what it is
at, first of `AkariEntry`, `setPaging` and `AkariEntryCont`, later of a `spawn`,
a `mapPhysicalMem` or an allocation for something else, and a step is one
iteration of a loop or one call of an allocator. A step may first need a page
table, which `getPage` makes (`MakeTable`), and which is itself allocated: before
paging by moving the placement address that the loop of `setPaging` compares
with, later from the heap.

`placement` is `_placementAddress` and `placed` what it had reached when the heap
took over. A page table is the frames of its entries; a directory has, as in the
code, the addresses of its tables, their physical addresses and its own. `heap`
is the set of pages taken from the kernel's heap, of which the smallest hole
that is large enough is taken; the entries of the heap are in `Heap`. `wand` is
the page through which `loadImageInto` writes the frames of a task, with the
frame that must come back. `memory` holds what the RAM's cells hold of images
and arguments, which is what `ImagesAreLoaded` reads back through the task's own
directory.

`DumpCore` is `dumpELFCore` as a task that panics calls it: a first pass counts the
runs of pages that are the task's own, a second writes a header for each run and,
through one borrowed page of the kernel's heap, the pages. The file goes to
`Debugger::setReceiveFile`, which keeps a copy. `panic` deletes the core, but nothing deletes the
copy, so that every panic takes kernel heap for good. The helper, the core and the copy are taken
together from one hole of the heap, where the code makes three allocations (and a few of
less than a page, for the notes and the runs, which are left out).

The properties say what a CPU would find: `Translated` goes through the tables
that a directory's `physicals` point to, never through the kernel's own idea of
them.

### Terminal

The controller holds one scancode in its port (`port`, `full`) and raises an
interrupt for it; the others wait in the keyboard (`queued`). `keyboard` has the
variables of the service's `main` and where it is, `shell` those of `getline`.
The stream between them is what `Broadcast` promises, for one writer and one
listener (`input`), and `irqWait` is a guard on `hits`: `Scheduler` and `Streams`
show that neither is slept through. `UpdateLEDs` is followed by the keyboard's
acknowledgements, which the service reads as releases of a key.

What `getline` does for one character is one action (`ReadChar`), its echo
included. `console` has the cells, the cursor and, as history, where the line
begins, which moves with the scrolling and is `Lost` when the line leaves the
screen or a tab, whose echo a backspace does not take back, is in it. The output
of other programs between the echoes is left out, and with it what it does to
the line on the screen.

If a scancode comes between `irqListen` and the first read of the port, that read
takes it, its interrupt is still credited, and the service then reads the port
once more than there are scancodes: a key may be handled twice. The model does
this, and `LinesAreTyped` leaves those behaviours out (`ahead`); it happens while
the machine boots. Keys handled before `getline` has a listener go to nobody
(`missed`).

## Runs

| Run | Instance | Shows |
|---|---|---|
| `scheduler` | idle, two drivers from boot and one spawned at run time; one line, which they may share; timeouts 0 and 3, sleeps of 2, a tick of 2; at most 2 outstanding hits and 2 wake events | `TypeOK`, `SchedulerNeverPanics`, `PriorityListIsReady`, `NoLostInterrupt`, `WakeEventsHaveOwners`, `NoLostAlarm`; `SleepersWake`, `RunnableTasksRun` |
| `scheduler_timeout_race` | the same with two lines | violation: `ASSERT(mu_timer->desched(wakeeventId))` fails |
| `processes` | three processes, one more spawned; one with the privilege to register names, of which there are two; two that may fault | `OnlyKillsLeaveNames`, `NoWaitInVain`, `ResumedWaitsComplete`, `WaitersAreTold` |
| `processes_name_race` | one process with a name, which may exit | violation: a name is gone again when the process released for it resumes |
| `messages_safety` | three programs, four messages, all uses of the calls | `NoProbeInVain`, `RequestsAreKept`, `RepliesAnswer` |
| `streams_safety` | two tasks, one node, up to three writers and listeners, three bytes in chunks of one or two | `StreamsBroadcast` (refinement), `ReadersSleepOnlyWhenEmpty`, `OtherWaitsAreKept` |
| `services_boot` | ata, fat, vfs, init from boot; acpi, pci, keyboard, sh, piix3, rtl8139 as they are started; one command, `ls` or `shutdown -h` with or without `&` | `AnswersFit`, `NoNullIsUsed`, `NobodyWaitsForItself`, `AwaitersAreKept`, `BootCompletes` |
| `fat_safety` | sectors of 2 cells, at most 2 in a command, clusters of 4 cells; files on chains of one to three clusters, intact or cut off; directories of up to three files, deleted entries or volume labels, some with long names; one write | `DiskIsFlat` (refinement), `ReadsAreRight`, `DirectoriesAreRight` |
| `mindrvr` | sectors of 2 cells, segments of 4, commands of one or two sectors, buffers in the middle, before the end and over the end of a segment; no drive, one of each kind, or two; the boot record and two commands | `CommandsTransfer` (refinement), `FailuresAreForGood`, `CommandsEnd` |
| `heap_safety` | eight addresses, pages of four, at most five entries, sizes 0 to 3 | `EntriesTile`, `IndexIsNotExceeded`, `HeapAllocates` (refinement) |
| `memory_safety` | pages of 2 cells, tables of 4 entries, 99 frames; 0 or 1 cell of boot modules; the idle task and a driver at boot, two tasks spawned (an image of several segments, a file that is no image), device memory mapped, one other allocation, one core dump | `AddressSpacesWork`, `FramesAreOwn`, `ImagesAreLoaded`, `BuffersAreContiguous`, `CoresAreComplete` |
| `terminal` | a screen of 3 by 2, tabs of 2, a buffer of 2; four events of eight: shift down and up, caps lock, a letter, a digit, enter, backspace, tab; two may wait in the keyboard | `LinesAreTyped`, `ScreenShowsLine` |

Bounds. `MaxHits` caps the interrupts a listener has outstanding and `MaxWakeId`
the wake events ever created; both are guards of the actions named for them. The
invariants of `scheduler` are also proved for all values of the constants; the
run shows them together with liveness. Two
hits let an interrupt arrive while one is outstanding (the case in which a task
is appended to the priority list twice). Two wake events of different lengths
give a queue whose head is not the event that is descheduled, and a wait of 3
with a tick of 2 comes due on the second tick. A fourth task that starts running
later and all exits and kills cover a task list that changes under the round
robin.

Processes: the fourth process appears while others already wait, and three at
boot let one exit, one wait for it and one register a name in
between; two names let a process have both, and a refused registration give one
that somebody waits for. Messages:
`MaxMessages` counts messages ever sent; four let two requests and two replies
cross, and ids that collide show up (the mutants of `NextMsgId`). Three programs
let a server answer one client while another's request waits. Streams: `MaxIds`
caps the writers and listeners of a node, `MaxWritten` its bytes, `MaxChunk` one
call; three ids allow an exclusive writer to meet another, or two listeners one
writer, and chunks of two are cut by reads of one. The runs with violations need
less. Mindrvr: two commands, of which the first may leave an interrupt, an
error or a busy drive behind for the second; buffers of up to four cells at 0, 1 and
3 fill a segment, cross its end with either part the longer, or stay in it. Heap: two pages and five entries let an aligned request skip bytes, holes
merge on either side and on both, and the index fill up.

Memory: boot modules of 0 or 1 cell move every later address by half a page, so
that the end of the identity mapping falls on a page's end or within a page; tables of four entries make `setPaging`, stacks and images need
several, and directories span tables; the frames run out in some behaviours.
Terminal: six cells wrap and scroll with every prompt; four events and a buffer of
two let the service, the stream and `getline` each be behind, a line be taken
back over the end of a row, and the buffer be doubled.

Fairness. In `Scheduler` only `TimerTick` is fair: the timer chip interrupts at a fixed rate
and both user code and the idle task run with interrupts on. Nothing is assumed
of user programs or of devices. `RunnableTasksRun` is stated for behaviours in
which device interrupts cease: each of them moves `current` to its listener, and
the round robin continues from there, so a line that keeps firing can starve a
task. That is how the code works and is listed under the hazards.

`Services` assumes that the processor runs some process while one can run, and
not which. With no PIIX3 function or with two `BootCompletes` fails: piix3 gives up, pci
is never told of DMA, and init waits for the drivers for ever. The hazards list
it; nothing in the repository says what should happen then. The run has one PIIX3
function, one driver file that is no hard disk, and one command: commands are
sequential, so a second one starts from a state like that of the first.

`Mindrvr` assumes that the driver goes on (`WF_vars(Driver)`): the service is run
while it does not wait, and while it waits the timer ends the wait, which are
`RunnableTasksRun` and `SleepersWake` of `Scheduler`. Nothing is assumed of
the drive, and `CommandsEnd` holds also for one that never answers.

`Processes` assumes weak fairness of resuming a released task, which is
`RunnableTasksRun`, and nothing of what programs do. The other modules state
safety only.

Deadlock is checked in the runs of `Scheduler`, `Heap`, `Fat` and `Memory`, where a halted
machine stutters. In the others it is not: every program may exit, or wait
for something that never comes, and the commands of `Mindrvr` come to their bound.

### Disagreements between code and comments

1. `scheduler_timeout_race`. A driver waits with a timeout; the timer event comes
   due, `Timer::tick` removes it and releases the driver; before the driver is
   switched to, its interrupt arrives and is credited. The resumed
   `IRQWaitCall` sees a hit and descheduled an event that is gone:
   `ASSERT(mu_timer->desched(...))`, UserCalls.cpp:69, halts the kernel.
2. `processes_name_race`. `registerName` releases a process that waits for the
   name; the named process exits before the other is switched to; the resumed
   call finds no name, blocks again, and `ASSERT(!shallBlock)` (Tasks.cpp:164)
   halts the kernel.

## Proofs

`Scheduler_proofs` proves, for all tasks, interrupt lines, timeouts and bounds
that satisfy the named assumptions of the modules:

| Theorem | States |
|---|---|
| `SchedulerKeepsInv` | `Spec => []SchedulerInv` |
| `SchedulerIsTyped` | `Spec => []TypeOK` |
| `SchedulerIsSafe` | `Spec => []SchedulerNeverPanics` |
| `PriorityIsSafe` | `Spec => []PriorityListIsReady` |
| `InterruptsAreNotLost` | `Spec => []NoLostInterrupt` |
| `AlarmsAreNotLost` | `Spec => []NoLostAlarm` |
| `WakeEventsAreOwned` | `Spec => []WakeEventsHaveOwners` |

The properties are not inductive by themselves. That the next task's call does
not block again needs, for each kind of call, what its release guarantees: an
interrupt that released a task is still credited to it (`InterruptsAreKept`), a
sleeping call has its uid (`CallsAreFormed`); that an alarm releases only its
own wait needs that uids are unique and owned (`EventsAreOwned`,
`UidsAreUnique`); that some task can always run needs the idle task to be on
the list and in no call (`TaskListInv`, `IdleInv`). `SchedulerInv` is the
conjunction. Its call-related parts (`CallsInv`) are operators of the values a
handler passes to the switch, since a handler changes them before the switch
evaluates a call: `EvaluateCompletes` and `AssignKeepsCalls` say once for all
handlers that resuming a runnable task completes its call and keeps `CallsInv`;
`FetchIsReady`, `CycleSwitches` and `ReturnSwitches` say that the scheduler's
choice is such a task; and there is one lemma per action. The first lemmas say
what they need of the lists: what round robin returns, what unlinking and
appending preserve, and what `tick`, `wakeIn` and `desched` do to the events of a
queue, with the running total never above the wait.

`Processes_proofs` proves, for all processes, registrars, faulty processes and
names:

| Theorem | States |
|---|---|
| `ProcessesKeepInv` | `Spec => []ProcessesInv` |
| `ProcessesAreTyped` | `Spec => []TypeOK` |
| `NobodyWaitsInVain` | `Spec => []NoWaitInVain` |
| `WaitsComplete` | `Spec => []ResumedWaitsComplete` |
| `NamesLeadToTheLiving` | `Spec => []OnlyKillsLeaveNames` |

`NoWaitInVain` alone does not give `ResumedWaitsComplete`: between release and
resumption the ended process must not come back. `ReleasedWaitsAreOver` says
that a process in `waitProcess` waits for one that has begun (so that no
`beginExecution` is still to come), and that, once released, the other is gone.
There is one lemma per action. `NamesInv` adds, for the names, that a task with two
was given a second (`NamedOnce`): `sysexit` erases the first name it finds, so what
is left of an ended process is in `renamed` (`WithoutFirstNameKeeps`).

`Kernel_proofs` proves of `MessageQueues`, for all programs and any number of messages:

| Theorem | States |
|---|---|
| `MessagesKeepInv` | `Spec => []MessagesInv` |
| `NobodyProbesInVain` | `Spec => []NoProbeInVain` |
| `RepliesReachRequests` | `Spec => []RepliesAnswer` |
| `RequestsAreNotLost` | `Spec => []RequestsAreKept` |

The kernel matches replies by id and nothing else. The argument is that a request is in one place:
in the queue of its receiver, among what its receiver owes, or answered in the
queue of its sender (`Placed`). That is said of sets of messages, not of
positions, so that it can be proved once for each way in which a message moves
(sent as a request, sent as a notice, sent as a reply, shifted); lemmas on
`PushBack` and `Removed` say which set a queue holds afterwards. `ProbesAreFormed`
says of those who wait for any message that they have no request outstanding,
which is why the answer to one never finds its receiver in such a probe.

Of `Memory` it proves the first two of these, and `Spaces_proofs` the rest, for machines, layouts, programs and bounds of any size
that satisfy `MemoryAssumption`, `LayoutAssumption` and `ProgramsAssumption`:

| Theorem | States |
|---|---|
| `MemoryKeepsInv` | `MemorySpec => []MemoryInv` |
| `MemoryKeepsFramesOwn` | `MemorySpec => []FramesAreOwn` |
| `MemoryKeepsSpaces` | `MemorySpec => []SpacesInv` |
| `AddressSpacesAlwaysWork` | `MemorySpec => []AddressSpacesWork` |
| `BuffersAreAlwaysContiguous` | `MemorySpec => []BuffersAreContiguous` |
| `MemoryKeepsImages` | `MemorySpec => []ImageInv` |
| `ImagesAreAlwaysLoaded` | `MemorySpec => []ImagesAreLoaded` |

A frame is marked only by the step that maps it. `allocAnyFrame` takes one that is not marked,
but the identity mapping of `setPaging` marks frames without looking, and an entry that is
overwritten would leave its frame marked and lost, or fail an ASSERT. What has to be shown is that no step finds an
entry that has a frame already, and that depends on all that the kernel is still to
do. So `TodoFits` says of `todo` that it is what is left of some steps followed
by the ones of a later caller, that no two of these steps map the same page
(`Touches`, `ItemsApart`), and that none of the pages is mapped yet (`ItemsUnmapped`). A
caller's own list of steps has this from its parts (`AfterClone`, `KernelSteps`), and an
iteration of a loop that begins with the next page keeps it.

That a page of one task is not mapped by what is done for another takes that
directories share only the tables of the kernel. `TablesApart` says that a table is at one
place in all directories; `KernelStaysOut`, that the kernel has no table where tasks have
pages, so that a clone has none. A new table must not be one that exists:
`AllocationFits` says that whatever is a table or a directory is below the placement
address, or in the pages of the heap that are taken and are never given back (`Kept`, `Taken`).
`PlacementFits` bounds the placement address by the tables made so far, so that the loop
of `setPaging`, whose end moves, does not reach the pages of the heap. The wand is the one entry that may hold
another's frame (`Borrowed`), and its own frame is remembered and nobody else's
until it is put back (`ApartIn`); `WandFits` says that copies are made only in between. Before there is
a directory (`Early`) there is nothing to be kept. There is one lemma per action.

`LayoutAssumption` is what the constants of the code and the linker give: what is placed before
paging ends in the RAM and below `KHEAP_START`; the kernel's stack is above its heap; a task's stack, heap
and segments are apart and in no table in which the kernel has a page. The programs are
linked without a script, at the linker's own address, so the last holds while the boot
modules end below it; an image that does not keep to this would be mapped into all address
spaces. TLC evaluates it for the
run's layout, and checked `MemoryInv` there, without cores and other allocations, before it was proved.

`SpacesInv` is inductive with `MemoryInv`, and says where things stay. Its first part,
`MapsFit`, holds to the end: what was placed is below the heap (`PlacedFits`) and, once paging
is on, mapped to itself (`KernelPaged`); no table is in two directories unless it is one of the
kernel's, and these are in all (`SharedTables`); and what a directory says of itself and of
its tables is so (`AllSayWhere`). The last is said of addresses that stay what they
are (`Reach`): those below `placed`, and pages of the heap that are kept and are not the
wand. Such an address means the same to the kernel, whose `phys` is the address itself before
paging and goes through its tables after, and to the CPU (`MeansIsTranslated`).

That the end of the identity mapping reaches what was placed is the hard part, because it moves:
a table that is made for the next page moves placement, and with it the loop's end. `KernelInOrder`
says of what is left of `setPaging` (`BeforePaging`) that the tables for the heap come first, so
that after the loop none is made before paging is on, that the loop has mapped to
themselves all pages before the one it is at, and that once it has ended the Heap object
that is still to come is covered, too. At `SetPaging` this becomes `KernelPaged`.

Buffers are contiguous since frames are taken from the first that is free, none is given back
(`FramesInRow`), and pages that follow each other are mapped one right after the other. This is
said of what is left to do, `InOrder`: a page's frame is followed by the next one's, or the
next one is at hand and the frame was the last to be taken, or neither has been
mapped. It is proved of the lists of steps from their parts (`OnPagesLead`, `CopiesLead`, `LeadsConcat`).
The wand's entry is the exception, whose own frame is looked at instead (`Home`).

`ImageInv` is inductive with both, and says what is in memory. Of every segment of a task,
what has been copied is where it should be (`SegmentsLoaded`): while the task is
made, how far that is comes from the copies left to do (`IsCopiedTo`), and when nothing is left,
it is all. The arguments are there once nothing is left that puts them there, and until
then the page of the stack is mapped or will be before (`ArgumentsLoaded`). A page is looked up by its frame, and
`HasFrame` says that it has one of its own, which it then keeps (`KeepFrames`, proved along with `SpacesInv`, action by action).
What remains is who writes memory: `LoadArguments`, `CopyPart` and `DumpCore`, each through
pages of the heap. These are mapped (`HeapMapped`), and a page of the heap that is
not taken has its frame to itself, because of `MemoryInv`
(`FreePageIs`), so a write through it reaches no task (`NoTaskHas`). `CopyPart` writes the
frame of the page it copies, whose cells are those of the segment and no others
(`CopyGivesFrame`, `PlaceInPart`); `LoadArguments` copies one frame over that of the stack. `DumpCore`
copies page after page to an address that is not aligned, so that it writes the end of one frame and the
beginning of the next: by `SpacesInv`, these are the frames of two pages of the hole, one after the other
(`DumpSparesTasks`). How many pages it copies does not matter for that, but that
they are finitely many does (`CorePagesAre`, `CopiedSteps`).

`ProgramsAssumption` says that the pages of `TaskHeap` follow each other, as the loop of `CreateTask`
has them, that a task has a stack, that only an ELF file has segments, and that memory of
devices is mapped at pages that the kernel and the tasks do not use. The last is a restriction of what
programs ask for: `mapPhysicalMem` overwrites any entry it is told to. What programs do map is at its own
address: `init`, for `acpi`, the first page and the BIOS below 1 MB, which the kernel has mapped so before, and `acpi` its tables.

`Streams_proofs` proves, for all tasks, nodes and bounds:

| Theorem | States |
|---|---|
| `StreamsAreBroadcasts` | `Spec => StreamsBroadcast`, the refinement of `Broadcast` |
| `OtherWaitsStay` | `Spec => []OtherWaitsAreKept` |
| `ReadersAreReleased` | `Spec => []ReadersSleepOnlyWhenEmpty`, with one node and no shared listeners |

What a listener has got, followed by its buffer, is what was written since it
joined (`Logged`); a write appends to both sides, a cut moves bytes within one.
`ReadersAreReleased` has the assumptions under which it is true, the ones of the
run; `ReadersInv` says that a waiting reader's listener is its own and has its hook.

The same module proves, for screens and tabs of any size, any keys of the tables and
anything that the shell puts out but backspaces (it has none):

| Theorem | States |
|---|---|
| `TerminalShowsLine` | `TerminalSpec => []ScreenShowsLine`, of `Terminal` |
| `TerminalReadsLines` | `TerminalSpec => []LinesAreTyped`, of `Terminal` |

`TerminalInv` adds to the property that the line is already where it belongs
between the prompt and the first `readStream`. What `putChar` does is three lemmas: what it
writes extends the line that is shown, wherever the cursor goes next (`PutCharShows`, over
`NewlineMoves`, where everything moves up by a row); backspace, blank, backspace takes
one character back, over the beginning of a row as well (`RubShows`); a new line and a tab leave
the rest blank. A backspace at the first cell stays in its row and so goes
forward; no line is shown there any more, and what it leaves is blank.

For what is read, `EventsInv` says where every event is. The service has read the first h: the
others are the scancodes in the port and in the keyboard, in their order, with
acknowledgements anywhere among them (`Follow`); its shift and caps lock are what the first
h say (`ShiftSteps`, `CapsSteps`), so that the byte it is about to write is the one
that is meant (`CharacterIsMeant`). getline has read the first n: the characters of the
events between are the bytes in its listener (`Carried`). `InterruptsInv` says that, unless the
service is ahead, there is exactly one interrupt for a scancode in the port and
none without, which is why no scancode is read twice. TLC checked the
invariant, with three events, before it was proved.

`Disk_proofs` proves of `Mindrvr`, for all drives, sectors, buffers and bounds:

| Theorem | States |
|---|---|
| `MindrvrKeepsInv` | `Spec => []MindrvrInv` |
| `FailuresStay` | `Spec => FailuresAreForGood` |
| `MindrvrKeepsCommands` | `Spec => []CommandInv` |
| `MindrvrImplementsDiskCommands` | `Spec => CommandsTransfer`, the refinement of `DiskCommands` |

`sub_select` ends a command after an error only if drive 0 is of a known type. That
the service never asks for anything with another drive needs a detour
(`BootNeedsDrive`): such a drive either is not there, or was too slow to come back from the
reset, which is an error; the boot record is then never read, `hdd_mbr` is without its signature, and `main`
panics.

That a command which returns 0 has moved its cells, all of them and no others, rests on
`CommandInv`. It is about a drive that is known, before the first error (`Sound`):
afterwards nothing is moved, by the first argument. `Progress` says that the
drive and the driver count the same sectors, and that `moved` is what they have
counted; `Place` says what holds at each place of the driver: where it waits, the
drive is busy or its one interrupt has come (`Interrupted`); where it looks at the
status, the drive has spoken and no interrupt is left (`Looked`), so that none is taken
for the next command's (`Rested`). `Faults` says that errors have causes, which is what
`DiskCommands` wants of a command that fails. A command starts with moved = 0 and ends well only with
nothing left (`AllIsMoved`). There is one lemma per action for the invariant, and the steps of
`DiskCommands` are five lemmas (`StartIsAbstract`, `MoveIsAbstract`, `EndIsAbstract`,
`WorkIsAbstract` for faults and stutters, `PutIsMoved` for a sector through the data register).

For the bus master the list matters. `PrdListCovers` says that the addresses for which a list of
`set_up_xfer` stands are those of the buffer, in order, however it lies over the ends of segments,
and how long the list is; `PrdListFits` then gives that it is never longer than
`MAX_PRD` allows, so that error 61 cannot come (`StartDmaSelects`). `PrdList` is a recursive
function; the proof takes the shortest rest of a buffer of which this is false. TLC
checked the parts of `CommandInv` as invariants, with the constants of the run `mindrvr`,
before it was proved.

The same module proves of `Ata`, for all sizes of sectors, commands and requests:

| Theorem | States |
|---|---|
| `AtaImplementsFlatDisk` | `FatSpec => DiskIsFlat`, the refinement of `FlatDisk` |

The invariant is small (`FlatInv`: the disk keeps its addresses); the argument is in what the
operators compute. `SplitIs` says that the parts of a request follow each other without a
gap, and that whole sectors begin on a sector: the head ends there unless it is all of the
request. `ReadSectorsIs` and `WriteSectorsIs` say that the commands of a transfer
come to one read or write of its sectors, with the least number of commands of which it is
false. What is left is that rows of cells join (`CellsJoin`), that one write behind another
is one (`PutTwice`), and that writing back a sector changed in part writes the part
(`PutOverlaid`). Requests are for what the disk has (`RequestsAssumption`); for anything else
the drive gives an error, which is `Mindrvr`'s.

And of `Fat`, for all such sizes, all clusters and chains, offsets and lengths:

| Theorem | States |
|---|---|
| `ReadsReturnChains` | `FatSpec => ReadsAreRight` |

`ReadIsRight` says what a read returns without a loop: a part of `Content`, the clusters of
the chain one behind the other. `FatInv` adds to `FlatInv` that what lies before the data is
as it was at first; with it the entries that `fat_entry_for` finds are those of the
chain (`ChainIs`, `EntryForIs`). `ContentIs` says where each cluster lies in `Content`, so
that what an iteration copies is the next part of it (`PartIsContent`). `OnTheWay` is the
invariant of both loops: the read is at a place of the chain, has copied all that lies
between its offset and that place, and, while it skips, nothing. An iteration keeps it and
brings offset and length down (`SkipGetsOn`, `CopyGetsOn`), or the read arrives with the
right answer. `ChainsAssumption` says what is on the disk: the clusters of the volume
form one chain, they have entries in the FAT, and each entry is the next cluster or the end
or marks a chain that is cut off; the root is no file; and requests from outside do not
write on the FAT (nothing under src/ writes to ata at all). `FatAssumption`
says that a cluster is smaller than 64 KiB: with one of that size the loop that copies does
not end. TLC checks both assumptions and the property on the disks of `MCFat`.

`Streams_proofs` proves of `Heap`, for heaps, pages, indexes and requests of any size:

| Theorem | States |
|---|---|
| `HeapKeepsInv` | `HeapSpec => []HeapInv` |
| `EntriesTileTheHeap` | `HeapSpec => []EntriesTile` |
| `IndexIsKept` | `HeapSpec => []IndexIsNotExceeded` |
| `HeapImplementsAllocator` | `HeapSpec => HeapAllocates`, the refinement of `Allocator` |

`free` finds its neighbours by address, and several entries have the same one
when some are empty. That it takes in the right one rests on two facts that are
not among the properties: entries without size are first in the index
(`EmptiesFirst`: insertion puts them there and a merge never makes one), and no
hole is without size (`HolesHaveSize`). The entry that `free` finds may still be
an empty allocation; then the hole at the same address is not merged, and
`Apart` says that this is the only case in which two holes touch. `Tiles` says
which addresses an index covers, so that taking an entry out (`OmitsGood`),
putting one in (`InsertGood`) and merging two (`MergeGood`) are each proved
once, and an action is a chain of them. Positions are related by `Omits` in
`SequenceLemmas`; whatever does not need them is said of the set of entries
(`Ran`). When an empty allocation is freed, `EmptyFreed` covers what becomes of
the index, in which every address still has its one entry.

`Services_proofs` proves, for all driver files, programs, functions on the PCI
bus and numbers of commands that satisfy `ServicesAssumption` and
`NamesAssumption`:

| Theorem | States |
|---|---|
| `ServicesKeepInv` | `Spec => []ServicesInv` |
| `ServicesKeepAwaiters` | `Spec => []AwaitersAreKept` |
| `ServicesUseNoNull` | `Spec => []NoNullIsUsed` |
| `ServicesAnswersFit` | `Spec => AnswersFit` |
| `ServicesDoNotWaitInACircle` | `Spec => []NobodyWaitsForItself` |

Where a request is, is said as for `MessageQueues` (`Placed`), here with the lists
of vfs and pci and with what the scripts of servers still answer. New is what
programs rely on. A script is `Sound` if each of its calls needs only what is known
when the script begins (which servers run, that a root is mounted, that fat is
registered) or what an earlier call of it gives: `begin` and `lookup` a running
server, the answer to `AWAIT_ROOT` a root. `SoundConcat` puts such scripts
together, so the scripts of all programs, the start of the drivers by pci, and the
commands of the shell are sound by their parts, for any number of files
(`FlattenIsClient`). What is known is never forgotten (`KnownStays`), and what
is in a queue was sent by somebody who knew enough (`SoundMessage`). That the driver of the
root is fat, and that it answers before it is mounted what it was asked before,
takes `Mounting`: fat registers and mounts once each, in this order, and its number is
1. `FatAndVfs` excludes the one circle that the scripts leave possible: vfs asks
fat only when a root is mounted, and then nothing that fat asks of vfs is pending.

Model-checked only: the liveness properties; `WaitersAreTold`; what directories are
(`DirectoriesAreRight`); and of `Memory`, that the core of a task has all of its pages
(`CoresAreComplete`). `Visited` recurses over the entries of the FAT, whatever they are, and
`Listing` folds over what it visits; what they compute for every directory would need an
induction over data.

## Plan

Done: all of the modules above, and the proofs of `Scheduler`, `Processes`,
`MessageQueues`, `Memory` (frames, address spaces and images), `Streams`, `Heap`, `Services`, `Mindrvr`, `Ata`,
`Fat` (its reads) and `Terminal`. Left, in this order:

1. `Timer` and `AlarmClock`: the timer alone, with history, as a refinement of an
   abstract alarm clock (no alarm early, none lost).
2. Streams whose owners exit, and programs that are killed between request and
   reply: today a null pointer in the kernel each.
3. The containers (`std::list` as linked nodes against a sequence), and the shell's
   commands and paths.

## Not modelled

- The contents of registers, the flags of pages, the tables of descriptors, the
  entry code in assembly; the models take from it that a kernel entry is atomic.
- The fields of ELF headers, and the multiboot tables.
- The container library: sequences and functions stand for it.
- The debugger's commands, by which a person inspects a stopped kernel, and
  formatted output.
- The registers of rtl8139, piix3, acpi and of the PCI bus. Of mindrvr.cpp, what
  nothing in the repository calls (`reg_packet`, `reg_non_data_*`, the commands with
  48-bit addresses, `dma_pci_packet`) and what does not matter to a command of
  `Mindrvr` (the setting of the command's other registers, multiple sectors per interrupt).
- System calls without the privilege they need, but for `registerName`. `mallocap` and
  `mapPhysicalMem` check two privileges, and a caller with neither would be
  taken off the task list twice.
- The construction of the kernel's objects at boot.
