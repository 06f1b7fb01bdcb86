------------------------------- MODULE Memory -------------------------------
(***************************************************************************)
(* Frames, pages and address spaces (Memory.cpp), from the first           *)
(* allocations of the kernel, which advance a placement address, through   *)
(* setPaging, to the tasks, their stacks, heaps and images (Tasks.cpp,     *)
(* ELF.cpp).  The kernel does one thing at a time: `todo` is what is left  *)
(* of what it is at, and a step is an iteration of a loop or a call.       *)
(* Memory is counted in cells, PageSize to a page.  The kernel's heap is   *)
(* abstracted to the pages taken from it (see Heap).                       *)
(***************************************************************************)
EXTENDS Naturals, SequencesExt, FiniteSetsExt

CONSTANTS
  PageSize,        \* cells in a page (0x1000)
  Entries,         \* pages in a page table (1024)
  Tables,          \* page tables in a directory (1024)
  KernelEnd,       \* __kend, where placement begins
  ModuleSizes,     \* what AkariEntry allocates before paging, in cells
  BitmapSize,      \* what setPaging allocates for _frames
  HeapObject,      \* sizeof(Heap)
  FrameCount,      \* _frameCount
  WordBits,        \* frames in an element of _frames (32)
  HeapStart, HeapEnd, \* the kernel's heap, in pages (KHEAP_START)
  KernelStack,     \* the pages of the kernel's stack, from the top (UKERNEL_STACK_POS)
  TaskStack,       \* the pages of a task's stack, from the top (USER_TASK_BASE)
  TaskHeap,        \* the pages of a task's heap (PROCESS_HEAP_START)
  TaskKernelStack, \* USER_TASK_KERNEL_STACK_SIZE, and what else is for a stack of the kernel
  BootPrograms,    \* the tasks AkariEntryCont makes, after the initial one
  Programs,        \* what may be spawned: records [kind, segments]
  DevicePages,     \* where device memory is mapped, sequences of pages
  DeviceFrame,     \* its first frame, outside the RAM
  MaxTasks,        \* bounds the tasks spawned
  MaxCores,        \* bounds the core dumps
  MaxOthers        \* bounds the kernel's other allocations

ASSUME MemoryAssumption ==
  /\ {PageSize, Entries, WordBits, KernelEnd, HeapStart, TaskKernelStack} \subseteq Nat \ {0}
  /\ {Tables, BitmapSize, HeapObject, HeapEnd, FrameCount, DeviceFrame} \subseteq Nat
  /\ ModuleSizes \subseteq Nat
  /\ DeviceFrame >= FrameCount

NoFrame == FrameCount + DeviceFrame + Tables     \* an entry that is not present

VARIABLES
  placement,   \* _placementAddress, 0 once the heap is used
  placed,      \* the first address that placement did not hand out (history)
  frames,      \* the bits set in _frames
  directories, \* the page directories: of each address, tables, tablePhysicals, physicalAddr
  pages,       \* the page tables: of each address, the frame of each entry
  kernel,      \* _kernelDirectory, 0 when there is none
  active,      \* _activeDirectory
  heap,        \* the pages taken from the kernel's heap
  others,      \* those of them that are not for tables, directories or stacks
  memory,      \* what the cells of the RAM hold
  tasks,       \* the tasks, records [directory, program]
  cores,       \* the core files, of which the debugger keeps the last
  target,      \* the directory of the task being made or changed
  wand,        \* magic_wand and the frame its page had, 0 when there is none
  todo,        \* what the kernel is at
  halted       \* "no", or what stopped the machine

memoryVars == <<placement, placed, frames, directories, pages, kernel, active, heap, others,
                memory, tasks, cores, target, wand, todo, halted>>

\* Groups of variables that stay as they are together.
allocation == <<placement, placed, heap>>
spaces == <<directories, pages, kernel, active>>
making == <<tasks, cores, target, wand>>

Do(what) == [do |-> what]
OnPages(what, s) == [i \in DOMAIN s |-> [do |-> what, page |-> s[i]]]

-----------------------------------------------------------------------------
(* Addresses.                                                              *)

TableOf(d, page) == directories[d].tables[page \div Entries]

\* getPage(page, false): the frame of a page in a directory.
FrameOf(d, page) ==
  IF TableOf(d, page) = 0 THEN NoFrame ELSE pages[TableOf(d, page)][page % Entries]

\* alloc's and allocAligned's phys: the page is looked up in the kernel's
\* directory.
PhysAddr(a) == FrameOf(kernel, a \div PageSize) * PageSize + (a % PageSize)

Aligned(a) == IF a % PageSize = 0 THEN a ELSE (a \div PageSize + 1) * PageSize

-----------------------------------------------------------------------------
(* Allocation.                                                             *)

Panic(what) ==
  /\ halted' = what /\ todo' = <<>>
  /\ UNCHANGED <<allocation, spaces, making, frames, others, memory>>

HeapPages == HeapStart .. HeapEnd - 1

\* The pages from p to the end of a hole of the heap.
HoleFrom(p) ==
  {q \in HeapPages : q >= p /\ (p .. q) \subseteq HeapPages \ heap}

\* The holes that are large enough, and of these the smallest (smallestAlignedHole).
Holes(n) ==
  {p \in HeapPages \ heap : /\ (p - 1) \notin HeapPages \ heap
                            /\ Cardinality(HoleFrom(p)) >= n}
SmallestHoles(n) ==
  {p \in Holes(n) : \A q \in Holes(n) : Cardinality(HoleFrom(p)) <= Cardinality(HoleFrom(q))}

PagesFor(n) == Aligned(n) \div PageSize

\* Where allocAligned may find n cells; nowhere is a panic, OutOfHeap.
Addresses(n) ==
  IF placement # 0 THEN {Aligned(placement)}
  ELSE {p * PageSize : p \in SmallestHoles(PagesFor(n))}

AllocAligned(n, a) ==
  IF placement # 0
  THEN /\ placement' = a + n /\ placed' = placement'
       /\ UNCHANGED heap
  ELSE /\ heap' = heap \cup (a \div PageSize .. a \div PageSize + PagesFor(n) - 1)
       /\ UNCHANGED <<placement, placed>>

\* Its phys.
Physical(a) == IF placement # 0 THEN a ELSE PhysAddr(a)

\* alloc, in placement mode.
Place(n) ==
  /\ placement' = placement + n /\ placed' = placement'
  /\ UNCHANGED <<spaces, making, frames, heap, others, memory, halted>>

\* What todo begins with is done.
Done == todo' = Tail(todo)

With(f, x, v) == [y \in DOMAIN f \cup {x} |-> IF y = x THEN v ELSE f[y]]

-----------------------------------------------------------------------------
(* Frames.                                                                 *)

\* How many elements of _frames are looked at: a last one that is not full is not.
Words == FrameCount \div WordBits

FreeFrames == (0 .. Words * WordBits - 1) \ frames

\* Mutant of FreeFrame: the search is from the end.
LastFreeFrame == Max(FreeFrames)

\* freeFrame.
FreeFrame == Min(FreeFrames)

\* Mutant of SetFrame: the bit is looked for in a byte.
SetFrameInByte(f) ==
  frames \cup {(f \div WordBits) * WordBits + (f % (WordBits \div 2))}

SetFrame(f) == frames \cup {f}

\* The entry of a page whose table is there: Page::allocFrame.
Map(d, page, f) ==
  pages' = [pages EXCEPT ![TableOf(d, page)][page % Entries] = f]

\* ASSERT(!pageAddress): the page has no frame, or frame 0.
IsUnmapped(d, page) == FrameOf(d, page) \in {NoFrame, 0}

\* allocAnyFrame for a page of d, whose table is there; the page gets FreeFrame.
AllocAnyFrame(d, page) ==
  /\ IsUnmapped(d, page) /\ FreeFrames # {}
  /\ frames' = SetFrame(FreeFrame)
  /\ UNCHANGED <<allocation, directories, kernel, active, others, tasks, cores, target, halted>>

-----------------------------------------------------------------------------
(* What the kernel is at.                                                  *)

Step(what) == halted = "no" /\ todo # <<>> /\ Head(todo).do = what

\* The page a step is about.
PageAtHand ==
  IF Head(todo).do # "copy" THEN Head(todo).page
  ELSE LET s == Last(tasks).program.segments[Head(todo).segment]
       IN  (s.virt + Head(todo).copied) \div PageSize

OnPage(what) == Step(what) /\ TableOf(target, PageAtHand) # 0

\* getPage(page, true) makes the table first (PageTable::Allocate).
NeedsTable ==
  /\ \E what \in {"get_page", "identity_map", "map", "copy", "device"} : Step(what)
  /\ TableOf(target, PageAtHand) = 0

WithTable(directory, t, a) ==
  [directory EXCEPT !.tables = [@ EXCEPT ![t] = a], !.physicals = [@ EXCEPT ![t] = Physical(a)]]

MakeTable ==
  /\ NeedsTable
  /\ \E a \in Addresses(PageSize) :
       LET t == PageAtHand \div Entries
       IN  /\ AllocAligned(PageSize, a)
           /\ pages' = With(pages, a, [e \in 0 .. Entries - 1 |-> NoFrame])
           /\ directories' = [directories EXCEPT ![target] = WithTable(@, t, a)]
  /\ UNCHANGED <<making, frames, kernel, active, others, memory, todo, halted>>

-----------------------------------------------------------------------------
(* AkariEntry and setPaging.                                               *)

\* new, and the copies of the boot modules, before paging.
Alloc == Step("alloc") /\ Place(Head(todo).size) /\ Done

\* PageDirectory::Allocate: tables, tablePhysicals behind them, and physicalAddr,
\* the physical address of tablePhysicals.
DirectorySize == 2 * PageSize + 1
Empty(phys) ==
  [tables    |-> [t \in 0 .. Tables - 1 |-> 0],
   physicals |-> [t \in 0 .. Tables - 1 |-> 0],
   physicalAddr |-> phys + PageSize]

AllocateKernelDirectory ==
  /\ Step("kernel_directory")
  /\ \E a \in Addresses(DirectorySize) :
       /\ AllocAligned(DirectorySize, a)
       /\ directories' = With(directories, a, Empty(Physical(a)))
       /\ kernel' = a /\ target' = a
  /\ Done
  /\ UNCHANGED <<frames, pages, active, others, memory, tasks, cores, wand, halted>>

\* The first loop of setPaging: a table for every page of the heap.
GetPage ==
  /\ OnPage("get_page") /\ Done
  /\ UNCHANGED <<allocation, spaces, making, frames, others, memory, halted>>

\* Mutant of IdentityEnd: leaves out the Heap object, which is allocated last.
IdentityEndNow == placement

\* Where the identity mapped memory ends; it moves while tables are made.
IdentityEnd == placement + HeapObject

\* One iteration of setPaging's second loop, with allocFrame and its ASSERTs.
IdentityMap ==
  LET page == PageAtHand
      next == [Head(todo) EXCEPT !.page = page + 1]
  IN  /\ OnPage("identity_map")
      /\ IF page \div WordBits >= Words \/ ~IsUnmapped(target, page)
         THEN Panic("frame_out_of_range")
         ELSE /\ Map(target, page, page) /\ frames' = SetFrame(page)
              /\ IF next.page * PageSize < IdentityEnd THEN todo' = <<next>> \o Tail(todo)
                 ELSE Done
              /\ UNCHANGED <<allocation, making, directories, kernel, active, others, memory,
                             halted>>

\* getPage(page, true)->allocAnyFrame().
MapPage ==
  /\ OnPage("map")
  /\ AllocAnyFrame(target, PageAtHand)
  /\ Map(target, PageAtHand, FreeFrame)
  /\ Done
  /\ UNCHANGED <<memory, wand>>

\* The end of setPaging: switchPageDirectory, new Heap.
SetPaging ==
  /\ Step("paging")
  /\ active' = kernel
  /\ placed' = placement + HeapObject /\ placement' = 0
  /\ Done
  /\ UNCHANGED <<making, frames, directories, pages, kernel, heap, others, memory, halted>>

-----------------------------------------------------------------------------
(* Tasks.                                                                  *)

\* A stack in the kernel's heap.
AllocateStack ==
  /\ Step("stack")
  /\ \E a \in Addresses(Head(todo).size) : AllocAligned(Head(todo).size, a)
  /\ Done
  /\ UNCHANGED <<spaces, making, frames, others, memory, halted>>

\* PageDirectory::clone of the kernel's directory, whose tables are shared.
Clone ==
  /\ Step("clone")
  /\ \E a \in Addresses(DirectorySize) :
       /\ AllocAligned(DirectorySize, a)
       /\ directories' = With(directories, a,
            [Empty(Physical(a)) EXCEPT !.tables = directories[kernel].tables,
                                       !.physicals = directories[kernel].physicals])
       /\ tasks' = Append(tasks, [directory |-> a, program |-> Head(todo).program])
       /\ target' = a
  /\ Done
  /\ UNCHANGED <<frames, pages, kernel, active, others, memory, cores, wand, halted>>

\* A cell as the CPU sees it through a directory.
Cell(pg, d, a) ==
  pg[TableOf(d, a \div PageSize)][(a \div PageSize) % Entries] * PageSize + (a % PageSize)

\* What is at a physical address: RAM, or a device.
At(m, c) == IF c \in DOMAIN m THEN m[c] ELSE <<"device", c>>

\* AkariCopyFramePhysical, whose dst need not be the start of a frame.
CopyFrame(m, src, dst) ==
  [c \in DOMAIN m |-> IF c \in dst .. dst + PageSize - 1 THEN At(m, src + (c - dst)) ELSE m[c]]

Arguments(i) == <<"arguments_of_task", i>>

\* load_task_argv: the arguments are written to a page of the heap, and the page
\* is copied over the top of the task's stack and freed.
LoadArguments ==
  /\ Step("arguments")
  /\ \E a \in Addresses(PageSize) :
       LET last == a + PageSize - 1
           written == [memory EXCEPT ![Cell(pages, active, last)] = Arguments(Len(tasks))]
       IN  memory' = CopyFrame(written, Physical(a), FrameOf(target, TaskStack[1]) * PageSize)
  /\ Done
  /\ UNCHANGED <<allocation, spaces, making, frames, others, halted>>

-----------------------------------------------------------------------------
(* loadImageInto.                                                          *)

NoWand == [page |-> 0, frame |-> NoFrame]

\* A page of the heap through which the frames of the task are written.
TakeWand ==
  /\ Step("take_wand")
  /\ \E a \in Addresses(PageSize) :
       /\ AllocAligned(PageSize, a)
       /\ wand' = [page |-> a \div PageSize, frame |-> FrameOf(active, a \div PageSize)]
  /\ Done
  /\ UNCHANGED <<spaces, frames, others, memory, tasks, cores, target, halted>>

\* How much is copied at once: until the end of a page, or of the segment.
CopyLength(s, copied) ==
  Min({PageSize - ((s.virt + copied) % PageSize), s.memsz - copied})

\* Mutant of FileLeft: what is left of the file is not counted down.
FileLeftWhole(s, copied) == s.filesz

FileLeft(s, copied) == IF s.filesz > copied THEN s.filesz - copied ELSE 0

Image(name, i, k) == <<name, "segment", i, k>>
Zero == <<0>>

\* One iteration of the loop over a segment: a frame for the page, the wand moved
\* to it, bytes of the file and zeroes behind them.
CopyPart ==
  LET program == Last(tasks).program
      i == Head(todo).segment
      s == program.segments[i]
      copied == Head(todo).copied
      copy == CopyLength(s, copied)
      dest == wand.page * PageSize + ((s.virt + copied) % PageSize)
      byte(k) == IF k < FileLeft(s, copied) THEN Image(program.name, i, copied + k) ELSE Zero
      given == [pages EXCEPT ![TableOf(target, PageAtHand)][PageAtHand % Entries] = FreeFrame]
      moved == [given EXCEPT ![TableOf(active, wand.page)][wand.page % Entries] = FreeFrame]
      first == Cell(moved, active, dest)
  IN  /\ OnPage("copy")
      /\ AllocAnyFrame(target, PageAtHand)
      /\ pages' = moved
      /\ memory' = [c \in DOMAIN memory |->
                      IF c \in first .. first + copy - 1 THEN byte(c - first) ELSE memory[c]]
      /\ IF copied + copy = s.memsz THEN Done
         ELSE todo' = <<[Head(todo) EXCEPT !.copied = copied + copy]>> \o Tail(todo)
      /\ UNCHANGED wand

\* The wand gets its frame back and is freed.
PutWandBack ==
  /\ Step("put_wand_back")
  /\ Map(active, wand.page, wand.frame)
  /\ heap' = heap \ {wand.page}
  /\ wand' = NoWand
  /\ Done
  /\ UNCHANGED <<placement, placed, frames, directories, kernel, active, others, memory, tasks,
                 cores, target, halted>>

-----------------------------------------------------------------------------
(* What the kernel does for its callers.                                   *)

\* CreateTask from the clone on, and loadImageInto for a program that is an ELF file.
AfterClone(program) ==
  (IF program.kind = "idle" THEN <<>> ELSE OnPages("map", TaskStack))
  \o <<[do |-> "stack", size |-> TaskKernelStack]>>
  \o (IF program.kind = "idle" THEN <<>> ELSE <<Do("arguments")>>)
  \o OnPages("map", TaskHeap)
  \o (IF program.kind = "elf"
      THEN <<Do("take_wand")>>
           \o [i \in DOMAIN program.segments |-> [do |-> "copy", segment |-> i, copied |-> 0]]
           \o <<Do("put_wand_back")>>
      ELSE <<>>)

MakeTask(program) == <<[do |-> "clone", program |-> program]>> \o AfterClone(program)

\* BootstrapInitialTask.
InitialTask == <<[do |-> "stack", size |-> TaskKernelStack],
                 [do |-> "clone", program |-> [name |-> "initial", kind |-> "initial",
                                               segments |-> <<>>]]>>

HeapInOrder == [i \in 1 .. HeapEnd - HeapStart |-> HeapStart + i - 1]

\* setPaging, and the kernel's stack.
KernelSteps ==
  OnPages("get_page", HeapInOrder)
  \o <<[do |-> "identity_map", page |-> 0]>>
  \o OnPages("map", HeapInOrder)
  \o <<Do("paging"), [do |-> "stack", size |-> TaskKernelStack]>>
  \o OnPages("map", KernelStack)

\* AkariEntryCont.
TaskSteps ==
  InitialTask
  \o (FlattenSeq([i \in DOMAIN BootPrograms |-> MakeTask(BootPrograms[i])])
      \o <<Do("switch")>>)

\* From AkariEntry on.
Boot(n) ==
  <<[do |-> "alloc", size |-> n], [do |-> "alloc", size |-> BitmapSize], Do("kernel_directory")>>
  \o (KernelSteps \o TaskSteps)

-----------------------------------------------------------------------------
(* Where things are.                                                       *)

\* How far placement gets at most: the bitmap, the kernel's directory, its tables
\* up to the heap's end, and the Heap object.
PlacementEnd(n) ==
  Aligned(Aligned(KernelEnd + n + BitmapSize) + DirectorySize)
    + PageSize * ((HeapEnd - 1) \div Entries + 1) + HeapObject

IdentityPages ==
  {page \in 0 .. HeapStart - 1 : \E n \in ModuleSizes : page * PageSize < PlacementEnd(n)}
KernelPages == IdentityPages \cup HeapPages \cup ToSet(KernelStack)

AllPrograms == Programs \cup ToSet(BootPrograms)
SegmentPages(s) == s.virt \div PageSize .. (s.virt + s.memsz - 1) \div PageSize
TaskPages ==
  ToSet(TaskStack) \cup ToSet(TaskHeap)
    \cup UNION {UNION {SegmentPages(s) : s \in ToSet(program.segments)} : program \in AllPrograms}

\* The constants of Memory.cpp, Tasks.hpp and entry.cpp: what is placed before
\* paging is in the RAM and below the kernel's heap, the kernel's stack above it;
\* a task has no page in a table of the kernel.  The linker puts no two segments
\* of an image on one page.
ASSUME LayoutAssumption ==
  /\ {KernelStack, TaskStack, TaskHeap} \cup DevicePages \subseteq Seq(Nat)
  /\ BootPrograms \in Seq(AllPrograms)
  /\ HeapStart < HeapEnd /\ HeapEnd <= Tables * Entries
  /\ \A n \in ModuleSizes : /\ PlacementEnd(n) <= HeapStart * PageSize
                             /\ PlacementEnd(n) <= Words * WordBits * PageSize
  /\ IsInjective(KernelStack) /\ ToSet(KernelStack) \subseteq HeapEnd .. Tables * Entries - 1
  /\ IsInjective(TaskStack \o TaskHeap)
  /\ TaskPages \cup UNION {ToSet(s) : s \in DevicePages} \subseteq 0 .. Tables * Entries - 1
  /\ \A p \in TaskPages, q \in KernelPages : p \div Entries # q \div Entries
  /\ \A program \in AllPrograms :
       LET segments == program.segments
       IN  /\ program.kind \in {"idle", "elf", "not_elf"}
           /\ segments \in Seq([virt : Nat, filesz : Nat, memsz : Nat \ {0}])
           /\ \A i \in DOMAIN segments :
                /\ segments[i].filesz <= segments[i].memsz
                /\ SegmentPages(segments[i]) \cap (ToSet(TaskStack) \cup ToSet(TaskHeap)) = {}
                /\ \A j \in DOMAIN segments \ {i} :
                     SegmentPages(segments[i]) \cap SegmentPages(segments[j]) = {}

\* Programs map physical memory at its own address (init/main.cpp:31, acpi/main.cpp:58).
\* Where the kernel has mapped it so before, nothing changes and nothing is modelled;
\* elsewhere it is no page of the kernel or of a task.  The pages of a heap follow
\* each other, and only an ELF file has segments.
ASSUME ProgramsAssumption ==
  /\ (UNION {ToSet(s) : s \in DevicePages}) \cap (KernelPages \cup TaskPages) = {}
  /\ TaskStack # <<>>
  /\ \A i \in DOMAIN TaskHeap : TaskHeap[i] = TaskHeap[1] + (i - 1)
  /\ \A program \in AllPrograms : program.kind # "elf" => program.segments = <<>>

-----------------------------------------------------------------------------
(* Starting, and what callers ask for.                                     *)

MemoryInit ==
  /\ placement = KernelEnd /\ placed = KernelEnd
  /\ frames = {} /\ directories = <<>> /\ pages = <<>> /\ kernel = 0 /\ active = 0
  /\ heap = {} /\ others = {}
  /\ memory = [c \in 0 .. Words * WordBits * PageSize - 1 |-> <<>>]
  /\ tasks = <<>> /\ cores = <<>> /\ target = 0 /\ wand = NoWand
  /\ \E n \in ModuleSizes : todo = Boot(n)
  /\ halted = "no"

\* switchPageDirectory at the end of the boot.
SwitchToInitial ==
  /\ Step("switch")
  /\ active' = tasks[1].directory /\ Done
  /\ UNCHANGED <<allocation, making, frames, directories, pages, kernel, others, memory, halted>>

IsIdle == halted = "no" /\ todo = <<>>

\* switchPageDirectory in assignInternalTask.
SwitchTo(i) ==
  /\ IsIdle
  /\ active' = tasks[i].directory
  /\ UNCHANGED <<allocation, making, frames, directories, pages, kernel, others, memory, todo,
                 halted>>

\* spawn.
Spawn(program) ==
  /\ IsIdle /\ Len(tasks) < MaxTasks
  /\ todo' = MakeTask(program)
  /\ UNCHANGED <<allocation, spaces, making, frames, others, memory, halted>>

\* mapPhysicalMem: some pages of the last task get the frames of a device; once,
\* to bound the states.
MapPhysicalMem(s) ==
  /\ IsIdle /\ FrameOf(Last(tasks).directory, s[1]) = NoFrame
  /\ target' = Last(tasks).directory
  /\ todo' = [j \in DOMAIN s |-> [do |-> "device", page |-> s[j], frame |-> DeviceFrame + j]]
  /\ UNCHANGED <<allocation, spaces, frames, others, memory, tasks, cores, wand, halted>>

MapDevice ==
  /\ OnPage("device")
  /\ Map(target, PageAtHand, Head(todo).frame) /\ Done
  /\ UNCHANGED <<allocation, making, frames, directories, kernel, active, others, memory, halted>>

-----------------------------------------------------------------------------
(* User::panic: the core of the running task (dumpELFCore).                 *)

\* Whether a page has a frame in a table of a directory that is not the kernel's.
IsOwn(d, page) ==
  /\ TableOf(d, page) # 0 /\ TableOf(d, page) # TableOf(kernel, page)
  /\ FrameOf(d, page) # NoFrame

\* Mutant of StartsRun: last_start is kept from one table to the next.
StartsRunOnce(d, page) == IsOwn(d, page) /\ ~IsOwn(d, page - 1)

\* The runs of such pages.  None goes over the end of a table.
StartsRun(d, page) == IsOwn(d, page) /\ (page % Entries = 0 \/ ~IsOwn(d, page - 1))
EndsRun(d, page) == IsOwn(d, page) /\ ((page + 1) % Entries = 0 \/ ~IsOwn(d, page + 1))

AllPages == [i \in 1 .. Tables * Entries |-> i - 1]

\* The pages that the segments of a core hold, which a run's header finds.
RunLength(d, page) == Min({n \in 1 .. Entries : EndsRun(d, page + n - 1)})
CorePages(d) ==
  FlattenSeq([i \in DOMAIN AllPages |->
                IF StartsRun(d, AllPages[i])
                THEN [n \in 1 .. RunLength(d, AllPages[i]) |-> AllPages[i] + n - 1] ELSE <<>>])

\* In cells, with one for the header of the file, of the notes, and of each run.
CoreHeaders(d) == 3 + Cardinality({page \in ToSet(AllPages) : EndsRun(d, page)})
CoreSize(d) ==
  CoreHeaders(d) + Cardinality({page \in ToSet(AllPages) : IsOwn(d, page)}) * PageSize

\* Where the i-th page of a core is in its file.
CoreOffset(d, i) == CoreHeaders(d) + (i - 1) * PageSize

Headers(d) ==
  {[offset |-> CoreOffset(d, i), vaddr |-> CorePages(d)[i] * PageSize,
    filesz |-> RunLength(d, CorePages(d)[i]) * PageSize] :
     i \in {j \in DOMAIN CorePages(d) : StartsRun(d, CorePages(d)[j])}}

\* The frames go one by one to the helper, at an address of the heap, and from
\* there to the file, while the memory changes with them.
Copied(d, helper) ==
  LET list == CorePages(d)
      after(done, page) ==
        LET m == CopyFrame(done.memory, FrameOf(d, page) * PageSize, PhysAddr(helper))
        IN  [memory |-> m,
             cells |-> done.cells
                         \o [k \in 1 .. PageSize |-> At(m, Cell(pages, active, helper + k - 1))]]
      copied[n \in 0 .. Len(list)] ==
        IF n = 0 THEN [memory |-> memory, cells |-> <<>>] ELSE after(copied[n - 1], list[n])
  IN  copied[Len(list)]

\* The helper, which is not aligned, and the core are given back; the debugger's
\* copy of the core is not.
DumpCore(i) ==
  LET d == tasks[i].directory
      n == PagesFor(CoreSize(d))
  IN  /\ IsIdle /\ active = d /\ tasks[i].program.kind = "elf" /\ Len(cores) < MaxCores
      /\ IF SmallestHoles(2 + 2 * n) = {} THEN Panic("no_hole")
         ELSE /\ \E p \in SmallestHoles(2 + 2 * n), offset \in 0 .. PageSize - 1 :
                   LET copied == Copied(d, p * PageSize + offset)
                   IN  /\ memory' = copied.memory
                       /\ cores' = Append(cores, [task |-> i, size |-> CoreSize(d),
                                                  headers |-> Headers(d), cells |-> copied.cells])
                       /\ heap' = heap \cup (p + 2 + n .. p + 1 + 2 * n)
              /\ UNCHANGED <<placement, placed, spaces, frames, others, tasks, target, wand, todo,
                             halted>>

-----------------------------------------------------------------------------
(* The rest.                                                               *)

\* The rest of the kernel takes a page of the heap, or gives one back.
TakeOther ==
  /\ IsIdle /\ Cardinality(others) < MaxOthers
  /\ \E p \in SmallestHoles(1) : heap' = heap \cup {p} /\ others' = others \cup {p}
  /\ UNCHANGED <<spaces, making, placement, placed, frames, memory, todo, halted>>

FreeOther(p) ==
  /\ IsIdle
  /\ heap' = heap \ {p} /\ others' = others \ {p}
  /\ UNCHANGED <<spaces, making, placement, placed, frames, memory, todo, halted>>

\* What the step at hand takes from an allocator.
CellsNeeded ==
  IF NeedsTable THEN PageSize
  ELSE CASE Head(todo).do = "stack"                        -> Head(todo).size
         [] Head(todo).do \in {"kernel_directory", "clone"} -> DirectorySize
         [] Head(todo).do \in {"arguments", "take_wand"}    -> PageSize
         [] OTHER                                          -> 0

OutOfHeap ==
  /\ halted = "no" /\ todo # <<>>
  /\ CellsNeeded > 0 /\ Addresses(CellsNeeded) = {}
  /\ Panic("no_hole")

\* The ASSERT of allocAnyFrame, and the panic of freeFrame.
NoFrameFor ==
  /\ OnPage("map") \/ OnPage("copy")
  /\ \/ ~IsUnmapped(target, PageAtHand) /\ Panic("page_has_a_frame")
     \/ IsUnmapped(target, PageAtHand) /\ FreeFrames = {} /\ Panic("no_frames_free")

\* AkariHalt.
Halted == halted # "no" /\ UNCHANGED memoryVars

MemoryNext ==
  \/ MakeTable \/ Alloc \/ AllocateKernelDirectory \/ GetPage \/ IdentityMap \/ MapPage \/ SetPaging
  \/ AllocateStack \/ Clone \/ LoadArguments \/ TakeWand \/ CopyPart \/ PutWandBack
  \/ MapDevice \/ SwitchToInitial
  \/ \E i \in DOMAIN tasks : SwitchTo(i)
  \/ \E program \in Programs : Spawn(program)
  \/ \E s \in DevicePages : MapPhysicalMem(s)
  \/ \E i \in DOMAIN tasks : DumpCore(i)
  \/ TakeOther
  \/ \E p \in others : FreeOther(p)
  \/ OutOfHeap \/ NoFrameFor \/ Halted

MemorySpec == MemoryInit /\ [][MemoryNext]_memoryVars
=============================================================================
