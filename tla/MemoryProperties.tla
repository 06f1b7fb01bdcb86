-------------------------- MODULE MemoryProperties --------------------------
(***************************************************************************)
(* Properties of Memory.                                                   *)
(***************************************************************************)
EXTENDS Memory

\* Where the CPU finds what the kernel has at an address, once paging is on.
Translated(a) ==
  IF TableOf(kernel, a \div PageSize) = 0 THEN NoFrame
  ELSE Cell(pages, kernel, a)

\* Once paging is on, the CPU finds in every address space what the kernel
\* means: what was allocated before is where it was, a directory's physicalAddr
\* is where its tablePhysicals are, these say where its tables are, and the
\* tables of the kernel are in every directory, whichever was made first.
AddressSpacesWork ==
  placement = 0 =>
    /\ \A a \in 0 .. placed - 1 : Translated(a) = a
    /\ \A d \in DOMAIN directories :
         /\ directories[d].physicalAddr = Translated(d + PageSize)
         /\ \A t \in 0 .. Tables - 1 :
              LET table == directories[d].tables[t]
              IN  /\ table # 0 => directories[d].physicals[t] = Translated(table)
                  /\ directories[kernel].tables[t] # 0 => table = directories[kernel].tables[t]

\* The entries that have a frame of the RAM; the wand's borrows one.
Mapped ==
  {e \in (DOMAIN pages) \X (0 .. Entries - 1) :
     /\ pages[e[1]][e[2]] < FrameCount
     /\ wand = NoWand \/ e # <<TableOf(active, wand.page), wand.page % Entries>>}

\* A frame belongs to one page of one address space, and is marked; no ASSERT of
\* allocFrame or allocAnyFrame fails.
FramesAreOwn ==
  /\ LET used == {pages[e[1]][e[2]] : e \in Mapped}
     IN  Cardinality(used) = Cardinality(Mapped) /\ used \subseteq frames
  /\ halted \in {"no", "no_hole", "no_frames_free"}

\* A task that is made finds its image where its segments say, with zeroes behind
\* what the file has, and its arguments on its stack, and keeps them whatever
\* tasks are made after it.
Holds(d, a, v) == TableOf(d, a \div PageSize) # 0 /\ memory[Cell(pages, d, a)] = v
ImagesAreLoaded ==
  IsIdle =>
    \A i \in DOMAIN tasks :
      LET program == tasks[i].program
          d == tasks[i].directory
      IN  /\ \A j \in DOMAIN program.segments :
               LET s == program.segments[j]
               IN  \A k \in 0 .. s.memsz - 1 :
                     Holds(d, s.virt + k, IF k < s.filesz THEN Image(program.name, j, k) ELSE Zero)
          /\ program.kind \in {"elf", "not_elf"} =>
               Holds(d, TaskStack[1] * PageSize + PageSize - 1, Arguments(i))

\* The pages of a task: its stack, heap, segments and devices.
PagesOf(task) ==
  ToSet(TaskStack) \cup ToSet(TaskHeap)
    \cup UNION {s.virt \div PageSize .. (s.virt + s.memsz - 1) \div PageSize :
                 s \in ToSet(task.program.segments)}
    \cup {page \in UNION {ToSet(s) : s \in DevicePages} :
             FrameOf(task.directory, page) \notin {NoFrame, 0}}

\* A cell of a core is found through the one header that has its address.
CoreHolds(core, a, v) ==
  \E h \in core.headers :
    /\ h.vaddr <= a /\ a < h.vaddr + h.filesz
    /\ \A other \in core.headers \ {h} : ~(other.vaddr <= a /\ a < other.vaddr + other.filesz)
    /\ LET i == h.offset + (a - h.vaddr) - (core.size - Len(core.cells)) + 1
       IN  i \in DOMAIN core.cells /\ core.cells[i] = v

\* The core of a process that panics has its stack, heap, image and devices, all
\* of them and nothing else, each where its header says, as they were; the frames
\* borrowed on the way are nobody's.
CoresAreComplete ==
  [][cores' # cores =>
       LET core == Last(cores')
           task == tasks[core.task]
       IN  /\ \A page \in PagesOf(task) : \A k \in 0 .. PageSize - 1 :
                CoreHolds(core, page * PageSize + k,
                          At(memory, FrameOf(task.directory, page) * PageSize + k))
           /\ Len(core.cells) = Cardinality(PagesOf(task)) * PageSize]_memoryVars

\* Consecutive pages of a heap or a segment have consecutive frames, as DMA
\* assumes ("assumes buffer is contiguous in physical memory",
\* packages/ata/main.cpp:138), and as the pages of the kernel's heap must have
\* for a page of it to be copied at any address.
BuffersAreContiguous ==
  IsIdle =>
    \A i \in DOMAIN tasks :
      \A page \in PagesOf(tasks[i]) \cup HeapPages :
        LET next == FrameOf(tasks[i].directory, page + 1)
            \* Whether a heap, or a segment, has both pages.
            together == \/ {page, page + 1} \subseteq HeapPages
                        \/ {page, page + 1} \subseteq ToSet(TaskHeap) /\ next # NoFrame
                        \/ \E s \in ToSet(tasks[i].program.segments) :
                             {page, page + 1} \subseteq
                               s.virt \div PageSize .. (s.virt + s.memsz - 1) \div PageSize
        IN  together => next = FrameOf(tasks[i].directory, page) + 1
=============================================================================
