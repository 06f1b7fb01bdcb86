------------------------------ MODULE MCMemory ------------------------------
(***************************************************************************)
(* A machine of 99 frames, tables of four pages and pages of two cells.    *)
(***************************************************************************)
EXTENDS MemoryProperties

MCKernelStack == <<77, 76>>
MCTaskStack == <<83>>
MCTaskHeap == <<80, 81>>

\* The first segment is in the middle of a page and over its end, the second has
\* less in the file than in memory, the third nothing, in another table.
Text == [virt |-> 169, filesz |-> 2, memsz |-> 2]
Data == [virt |-> 172, filesz |-> 1, memsz |-> 3]
Bss == [virt |-> 176, filesz |-> 0, memsz |-> 1]

Idle == [name |-> "idle", kind |-> "idle", segments |-> <<>>]
Ata == [name |-> "ata", kind |-> "elf", segments |-> <<Text, Data, Bss>>]
TextFile == [name |-> "text_file", kind |-> "not_elf", segments |-> <<>>]

MCBootPrograms == <<Idle, Ata>>
MCPrograms == {Ata, TextFile}

\* A range of two pages, in two tables.
MCDevicePages == {<<91, 92>>}
=============================================================================
