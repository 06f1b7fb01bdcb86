-------------------------------- MODULE Ata ---------------------------------
(***************************************************************************)
(* The ata service (packages/ata): how requests for any stretch of the     *)
(* disk become transfers of whole sectors.                                 *)
(*                                                                         *)
(* The unit is a cell, large enough for what the file system above has     *)
(* there: a number, an entry of the FAT or of a directory.                 *)
(***************************************************************************)
EXTENDS DiskCells

CONSTANTS
  PartitionStart,   \* begin_disk_sector of the partition
  MaxLength,        \* bound: the longest request to ata
  Mark              \* what a write puts on disk

ASSUME AtaAssumption ==
  /\ SectorSize \in Nat \ {0} /\ MaxTransfer \in Nat \ {0}
  /\ PartitionStart \in Nat /\ MaxLength \in Nat /\ Mark \in Nat

VARIABLE
  reply    \* the data of the last reply to a request that came from outside

ataVars == <<disk, reply>>

\* The count goes to a port of eight bits, on which 0 stands for the most.
Moved(n) == IF n % MaxTransfer = 0 THEN MaxTransfer ELSE n % MaxTransfer

\* One command for n sectors.
ReadCommand(d, s, n) == Cells(d, s * SectorSize, Moved(n) * SectorSize)
WriteCommand(d, s, n, data) ==
  Put(d, s * SectorSize, SubSeq(data, 1, Moved(n) * SectorSize))

\* How many commands of the full size come before the last.
FullCommands(n) == (n - 1) \div MaxTransfer

\* Mutant of WriteSectors: one command for all of it.
WriteSectorsAtOnce(d, s, n, data) == WriteCommand(d, s, n, data)

ReadSectors(d, s, n) ==
  LET k == FullCommands(n)
  IN  FlattenSeq([i \in 1 .. k |-> ReadCommand(d, s + (i - 1) * MaxTransfer, MaxTransfer)])
        \o ReadCommand(d, s + k * MaxTransfer, n - k * MaxTransfer)

WriteSectors(d, s, n, data) ==
  LET k == FullCommands(n)
      rest(i) == SubSeq(data, i * MaxTransfer * SectorSize + 1, Len(data))   \* from command i + 1
      after[i \in 0 .. k] ==
        IF i = 0 THEN d
        ELSE WriteCommand(after[i - 1], s + (i - 1) * MaxTransfer, MaxTransfer, rest(i - 1))
  IN  WriteCommand(after[k], s + k * MaxTransfer, n - k * MaxTransfer, rest(k))

\* A request falls into a part that starts within a sector, whole sectors, and a
\* part of one more.
OpenSector(sector, offset) == sector + offset \div SectorSize
HeadOffset(offset) == offset % SectorSize

HeadLength(o, n) == IF o = 0 THEN 0 ELSE Min({SectorSize, o + n}) - o

TailLength(n) == n % SectorSize

Split(sector, offset, n) ==
  LET o == HeadOffset(offset)
      open == OpenSector(sector, offset)
      head == HeadLength(o, n)
      body == (n - head) \div SectorSize
      first == open + (IF o > 0 THEN 1 ELSE 0)
  IN  [open |-> open, offset |-> o, head |-> head, first |-> first, body |-> body,
       last |-> first + body, tail |-> TailLength(n - head)]

ReadData(d, sector, offset, n) ==
  LET p == Split(sector, offset, n)
  IN  (IF p.offset > 0 THEN SubSeq(ReadSectors(d, p.open, 1), p.offset + 1, p.offset + p.head)
       ELSE <<>>)
      \o (IF p.body > 0 THEN ReadSectors(d, p.first, p.body) ELSE <<>>)
      \o (IF p.tail > 0 THEN SubSeq(ReadSectors(d, p.last, 1), 1, p.tail) ELSE <<>>)

Overlaid(cells, o, data) ==
  [i \in DOMAIN cells |-> IF i \in o + 1 .. o + Len(data) THEN data[i - o] ELSE cells[i]]

\* Part of a sector is read, changed and written back.
WritePart(d, s, o, data) == WriteSectors(d, s, 1, Overlaid(ReadSectors(d, s, 1), o, data))

WriteData(d, sector, offset, data) ==
  LET p == Split(sector, offset, Len(data))
      afterHead == IF p.offset > 0 THEN WritePart(d, p.open, p.offset, SubSeq(data, 1, p.head))
                   ELSE d
      afterBody == IF p.body > 0
                   THEN WriteSectors(afterHead, p.first, p.body,
                                     SubSeq(data, p.head + 1, Len(data)))
                   ELSE afterHead
  IN  IF p.tail > 0
      THEN WritePart(afterBody, p.last, 0, SubSeq(data, p.head + p.body * SectorSize + 1, Len(data)))
      ELSE afterBody

PartitionReadData(d, sector, offset, n) ==
  ReadData(d, PartitionStart + sector, offset, n)

Payload(n) == [i \in 1 .. n |-> Mark + i]

\* The requests.
AtaRead(sector, offset, n) ==
  /\ reply' = ReadData(disk, sector, offset, n)
  /\ UNCHANGED disk

AtaMbrRead(sector, offset, n) ==
  /\ reply' = PartitionReadData(disk, sector, offset, n)
  /\ UNCHANGED disk

AtaWrite(sector, offset, n) ==
  /\ disk' = WriteData(disk, sector, offset, Payload(n))
  /\ reply' = <<1>>
=============================================================================
