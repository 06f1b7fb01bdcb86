-------------------------------- MODULE Fat ---------------------------------
(***************************************************************************)
(* The fat service (packages/fat): files and directories as chains of      *)
(* clusters, read through ata.                                             *)
(*                                                                         *)
(* An entry of the FAT and one of a directory each take a cell.  The copy  *)
(* of the FAT that the service keeps (fat_clusters) is left out: nobody    *)
(* writes there.                                                           *)
(***************************************************************************)
EXTENDS Ata

CONSTANTS
  SectorsPerCluster, ReservedSectors, FatSectors, Fats,   \* the boot record
  RootCluster,
  EndOfChain,       \* 0x0FFFFFF8
  CopyRange,        \* 2^16
  ScanEntries,      \* 4096 / 32, the entries searched in a cluster
  NameSize,         \* the longest name that readdir returns
  Dirents,          \* number |-> the directory entry with these bytes
  Disks,            \* what may be on the disk: records [kind, inode, cells]
  AtaRequests,      \* bound: requests to ata from outside
  MaxWrites,        \* bound
  MaxRead, MaxIndex, Names   \* bounds of the requests to fat

ClusterSize == SectorsPerCluster * SectorSize

\* With other clusters the search of a directory misses entries or leaves the
\* cluster, and with larger ones a copied length wraps.
ASSUME FatAssumption ==
  /\ {SectorsPerCluster, Fats} \subseteq Nat \ {0} /\ {ReservedSectors, FatSectors} \subseteq Nat
  /\ CopyRange \in Nat /\ MaxRead \in Nat
  /\ ScanEntries = ClusterSize /\ ClusterSize < CopyRange
  /\ EndOfChain \in Nat /\ EndOfChain >= 16 /\ RootCluster \in Nat /\ RootCluster >= 2

\* Requests are for what there is; for anything else the disk gives an error.
ASSUME RequestsAssumption ==
  /\ AtaRequests \subseteq [sector : Nat, offset : Nat, length : 0 .. MaxLength]
  /\ \A v \in Disks :
       /\ v.cells \in [DOMAIN v.cells -> Range(v.cells)]
       /\ \A r \in AtaRequests :
            LET a == (PartitionStart + r.sector) * SectorSize + r.offset
            IN  {a} \cup (a .. a + r.length - 1) \subseteq DOMAIN v.cells

VARIABLES
  volume,   \* what was on the disk at first, and the chain that clients ask for
  answer,   \* the last answer of fat, with its request
  writes    \* how many writes ata has served

fatVars == <<ataVars, volume, answer, writes>>

FirstFatSector == ReservedSectors
FirstDataSector == ReservedSectors + FatSectors * Fats

ReadCluster(c) ==
  PartitionReadData(disk, FirstDataSector + (c - 2) * SectorsPerCluster, 0, ClusterSize)

ReadFatCluster(i) ==
  PartitionReadData(disk, FirstFatSector + i * SectorsPerCluster, 0, ClusterSize)

\* fat_entry_for.
EntryFor(c) ==
  LET relative == c \div ClusterSize
  IN  ReadFatCluster(relative)[c - relative * ClusterSize + 1]

\* Free and reserved clusters make fat panic.
LeadsAstray(c) == EntryFor(c) \in {0, 1} \cup (EndOfChain - 8 .. EndOfChain - 1)
IsLast(c) == EntryFor(c) >= EndOfChain

\* fat_read_data on its way: the cluster it is at, the offset there, the cells
\* left to copy and those that are copied.
Reading(c, o, n, copied) ==
  [over |-> FALSE, cluster |-> c, offset |-> o, left |-> n, data |-> copied]

\* It returns, or panics.
Returns(copied) == [over |-> TRUE, panic |-> FALSE, data |-> copied]
Panics == [over |-> TRUE, panic |-> TRUE, data |-> <<>>]

\* Its step to the cluster after c.
Follow(c, o, n, copied) ==
  CASE LeadsAstray(c)                -> Panics
    [] ~LeadsAstray(c) /\ IsLast(c)  -> Returns(copied)
    [] OTHER                         -> Reading(EntryFor(c), o, n, copied)

\* Mutant of After: the buffer is not advanced.
AfterOverwritten(copied, part) == part

After(copied, part) == copied \o part

CopyLength(n, left) == Min({n, left}) % CopyRange

\* The condition of the first loop.
Skips(o) == o > ClusterSize

\* An iteration of the first loop, or of the second, where the offset is 0 after
\* the first cluster.
Iteration(r) ==
  LET k == CopyLength(r.left, ClusterSize - r.offset)
      copied == After(r.data, SubSeq(ReadCluster(r.cluster), r.offset + 1, r.offset + k))
  IN  CASE r.over                                               -> r
        [] ~r.over /\ Skips(r.offset) ->
             Follow(r.cluster, r.offset - ClusterSize, r.left, r.data)
        [] ~r.over /\ ~Skips(r.offset) /\ r.left = 0            -> Returns(r.data)
        [] ~r.over /\ ~Skips(r.offset) /\ r.left # 0 /\ r.left = k -> Returns(copied)
        [] OTHER -> Follow(r.cluster, 0, r.left - k, copied)

\* fat_read_data: its loops end before this many iterations.
FatReadData(inode, offset, n) ==
  LET after[i \in 0 .. offset + n + 1] ==
        IF i = 0 THEN Reading(inode, offset, n, <<>>) ELSE Iteration(after[i - 1])
      r == after[offset + n + 1]
  IN  [panic |-> r.panic, data |-> r.data]

-----------------------------------------------------------------------------
(* Directories.  A cell of one stands for an entry, a record               *)
(*     [kind |-> "end", "deleted" or "volume"],                            *)
(*     [kind |-> "lfn", portion |-> part of a long name], or               *)
(*     [kind |-> "file", base, ext, inode].                                *)
(* A name is a sequence of parts.                                          *)

\* get_filename.
ShortName(fd) == <<fd.base>> \o (IF fd.ext = "" THEN <<>> ELSE <<".", fd.ext>>)

\* The entries of a cluster before the first that is free.
Scanned(cells) ==
  LET entries == [i \in 1 .. ScanEntries |-> Dirents[cells[i]]]
      ends == {i \in DOMAIN entries : entries[i].kind = "end"}
  IN  SubSeq(entries, 1, IF ends = {} THEN ScanEntries ELSE Min(ends) - 1)

\* The entries fat_readdir and fat_finddir come by if they do not return before.
Visited(cluster) ==
  LET visit[c \in Nat] ==
        Scanned(ReadCluster(c))
          \o CASE LeadsAstray(c)  -> <<[kind |-> "panic"]>>
               [] IsLast(c)       -> <<>>
               [] OTHER           -> visit[EntryFor(c)]
  IN  visit[cluster]

\* Long names come before their file, last part first.
LongName(lfn, portion) == portion \o lfn

NextName(lfn) == <<>>

\* The body of the loop over the entries.
Seen(s, fd) ==
  CASE fd.kind \in {"deleted", "volume"} -> s
    [] fd.kind = "lfn"                   -> [s EXCEPT !.lfn = LongName(@, fd.portion)]
    [] fd.kind = "panic"                 -> [s EXCEPT !.panic = TRUE]
    [] fd.kind = "file"                  ->
         [s EXCEPT !.lfn = NextName(@),
                   !.files = Append(@, [name |-> IF s.lfn # <<>> THEN s.lfn ELSE ShortName(fd),
                                        inode |-> fd.inode])]

Listing(inode) ==
  FoldLeft(Seen, [lfn |-> <<>>, files |-> <<>>, panic |-> FALSE],
           Visited(IF inode = 0 THEN RootCluster ELSE inode))

Found(f) == [panic |-> FALSE, found |-> <<f>>]
NotFound(list) == [panic |-> list.panic, found |-> <<>>]

Dots == <<<<".">>, <<"..">>>>

\* Mutant of FirstIndex: no room for . and ..
FirstIndexZero(inode) == 0

\* The root has . and .. before what is on disk.
FirstIndex(inode) == IF inode = 0 THEN 2 ELSE 0

FatReaddir(inode, index) ==
  LET list == Listing(inode)
      i == index - FirstIndex(inode) + 1
  IN  CASE index < FirstIndex(inode) -> Found([name |-> Dots[index + 1], inode |-> 0])
        [] index >= FirstIndex(inode) /\ i \in DOMAIN list.files ->
             Found([list.files[i] EXCEPT !.name = SubSeq(@, 1, Min({NameSize, Len(@)}))])
        [] OTHER -> NotFound(list)

FatFinddir(inode, name) ==
  LET list == Listing(inode)
      matches == {i \in DOMAIN list.files : list.files[i].name = name}
  IN  CASE inode = 0 /\ name \in {Dots[1], Dots[2]} -> Found([name |-> name, inode |-> 0])
        [] ~(inode = 0 /\ name \in {Dots[1], Dots[2]}) /\ matches # {} ->
             Found(list.files[Min(matches)])
        [] OTHER -> NotFound(list)

-----------------------------------------------------------------------------
NoAnswer == [op |-> "none"]

FatInit ==
  /\ volume \in Disks
  /\ disk = volume.cells
  /\ reply = <<>>
  /\ answer = NoAnswer
  /\ writes = 0

\* Each server takes the next message when it has answered the last.
Idle == answer = NoAnswer /\ reply = <<>>

\* Clients take their answers.
Take ==
  /\ reply' = <<>> /\ answer' = NoAnswer
  /\ UNCHANGED <<disk, volume, writes>>

\* VFS_OP_READ, VFS_OP_READDIR and VFS_OP_FINDDIR.
VfsRead(offset, n) ==
  /\ Idle /\ volume.kind = "file"
  /\ answer' = [op |-> "read", offset |-> offset, length |-> n,
                result |-> FatReadData(volume.inode, offset, n)]
  /\ UNCHANGED <<ataVars, volume, writes>>

VfsReaddir(index) ==
  /\ Idle /\ volume.kind = "dir"
  /\ answer' = [op |-> "readdir", index |-> index, result |-> FatReaddir(volume.inode, index)]
  /\ UNCHANGED <<ataVars, volume, writes>>

VfsFinddir(name) ==
  /\ Idle /\ volume.kind = "dir"
  /\ answer' = [op |-> "finddir", name |-> name, result |-> FatFinddir(volume.inode, name)]
  /\ UNCHANGED <<ataVars, volume, writes>>

\* Requests to ata that do not come from fat; they write over the data of files.
Raw(r) ==
  /\ Idle /\ volume.kind = "file"
  /\ \/ AtaRead(PartitionStart + r.sector, r.offset, r.length) /\ UNCHANGED writes
     \/ AtaMbrRead(r.sector, r.offset, r.length) /\ UNCHANGED writes
     \/ /\ writes < MaxWrites
        /\ AtaWrite(PartitionStart + r.sector, r.offset, r.length)
        /\ writes' = writes + 1
  /\ UNCHANGED <<volume, answer>>

FatNext ==
  \/ \E offset, n \in 0 .. MaxRead : VfsRead(offset, n)
  \/ \E index \in 0 .. MaxIndex : VfsReaddir(index)
  \/ \E name \in Names : VfsFinddir(name)
  \/ \E r \in AtaRequests : Raw(r)
  \/ Take

FatSpec == FatInit /\ [][FatNext]_fatVars
=============================================================================
