--------------------------- MODULE FatProperties ----------------------------
(***************************************************************************)
(* Properties of Fat and Ata.  What a chain holds is stated here over the  *)
(* cells of the disk, without sectors, scans or loops.                     *)
(***************************************************************************)
EXTENDS Fat

\* ata implements a flat disk: a request that starts within a sector, or ends in
\* one, or takes several commands, touches exactly its cells.
Flat == INSTANCE FlatDisk
DiskIsFlat == Flat!Spec

\* The chain of the volume: the sequence of its clusters, none twice, in which
\* each is the entry of the one before.
Base == PartitionStart * SectorSize
EntryAt(c) == Base + ReservedSectors * SectorSize + c
EntryOn(d, c) == d[EntryAt(c)]
Entry(c) == EntryOn(disk, c)
ClusterCells(c) ==
  [i \in 1 .. ClusterSize |->
     disk[Base + FirstDataSector * SectorSize + (c - 2) * ClusterSize + i - 1]]
StartOf(v) == IF v.inode = 0 THEN RootCluster ELSE v.inode
IsChain(d, v, s) ==
  /\ s # <<>> /\ s[1] = StartOf(v)
  /\ \A i \in 1 .. Len(s) - 1 : s[i + 1] = EntryOn(d, s[i])
  /\ EntryOn(d, s[Len(s)]) \notin v.clusters
Chains(v) == SeqOf(v.clusters, Cardinality(v.clusters))
Chain == CHOOSE s \in Chains(volume) : IsChain(disk, volume, s)
Whole == Entry(Chain[Len(Chain)]) >= EndOfChain
Content == FlattenSeq([i \in DOMAIN Chain |-> ClusterCells(Chain[i])])

\* The clusters of a volume form a chain.  They have entries in the FAT, and each
\* leads to another, or to none: it is the last, or the chain is cut off there.
\* The root is no file, and requests from outside do not write on the FAT.
ASSUME ChainsAssumption ==
  /\ \A r \in AtaRequests : r.sector >= FirstDataSector
  /\ \A v \in Disks :
       /\ v.kind = "file" => v.inode # 0
       /\ v.clusters \subseteq 2 .. FatSectors * SectorSize - 1
       /\ \A c \in v.clusters :
            /\ c < EndOfChain - 8 /\ EntryAt(c) \in DOMAIN v.cells
            /\ \/ EntryOn(v.cells, c) \in v.clusters \cup {0, 1}
               \/ EntryOn(v.cells, c) \in Nat /\ EntryOn(v.cells, c) >= EndOfChain - 8
       /\ \E s \in Chains(v) : IsChain(v.cells, v, s)

\* A read returns the cells of the chain from the offset on, as many as there
\* are, wherever it starts and ends; on a chain that does not end it panics
\* only when it needs what is not there.
ReadIsRight(a) ==
  LET last == a.offset + a.length
  IN  /\ a.result.panic = (~Whole /\ last > Len(Content))
      /\ ~a.result.panic =>
           a.result.data = SubSeq(Content, a.offset + 1, Min({last, Len(Content)}))
ReadsAreRight == [][answer'.op = "read" => ReadIsRight(answer')]_answer

\* The files of a directory, without a scan: an entry that is a file, before the
\* first free one of its cluster, with the parts of a long name right before it.
At(p) == Dirents[Content[p]]
FilesAt ==
  {p \in DOMAIN Content :
     /\ At(p).kind = "file"
     /\ \A q \in 1 .. p : q > ((p - 1) \div ClusterSize) * ClusterSize => At(q).kind # "end"}
NameAt(p) ==
  LET before == {q \in 0 .. p - 1 :
                   \A r \in q + 1 .. p - 1 : At(r).kind = "lfn"}
      run == SubSeq(Content, Min(before) + 1, p - 1)
  IN  IF run = <<>> THEN ShortName(At(p))
      ELSE FlattenSeq(Reverse([i \in DOMAIN run |-> Dirents[run[i]].portion]))

\* readdir returns the files of a directory one after the other, each with its
\* own name, whatever deleted entries and long names lie between them, then
\* nothing.
ReaddirIsRight(a) ==
  LET files == SetToSortSeq(FilesAt, <)
      i == IF volume.inode = 0 THEN a.index - 1 ELSE a.index + 1
  IN  (volume.inode = 0 => a.index > 1) =>
        IF i \in DOMAIN files
        THEN a.result = Found([name |-> NameAt(files[i]), inode |-> At(files[i]).inode])
        ELSE a.result = [panic |-> ~Whole, found |-> <<>>]

\* finddir finds the first file that has the name, and finds one if there is one:
\* a program that opens what readdir returned gets that file (pci does this to
\* start the drivers).
FinddirIsRight(a) ==
  LET named == {p \in FilesAt : NameAt(p) = a.name}
  IN  a.name \notin {Dots[1], Dots[2]} =>
        IF named = {} THEN a.result = [panic |-> ~Whole, found |-> <<>>]
        ELSE a.result = Found([name |-> a.name, inode |-> At(Min(named)).inode])

\* Both requests on a directory see its files as they are, with the long names
\* put together from their parts.
DirectoriesAreRight ==
  [][/\ answer'.op = "readdir" => ReaddirIsRight(answer')
     /\ answer'.op = "finddir" => FinddirIsRight(answer')]_answer
=============================================================================
