------------------------------- MODULE MCFat --------------------------------
(***************************************************************************)
(* Disks for the run of Fat: a master boot record, a boot record, two      *)
(* copies of a FAT of eight entries, and data for clusters 2 to 7; on it   *)
(* one chain of up to three clusters, a file or a directory.               *)
(***************************************************************************)
EXTENDS FatProperties

DataStart == (PartitionStart + FirstDataSector) * SectorSize
AllCells == 0 .. DataStart + 6 * ClusterSize - 1
FatStart == (PartitionStart + ReservedSectors) * SectorSize

FileChains == {<<2>>, <<3, 6>>, <<2, 6, 3>>}

\* Both copies of the FAT: the clusters of s are linked, the last has entry e.
FatCells(s, e) ==
  [x \in FatStart .. DataStart - 1 |->
     LET c == (x - FatStart) % (FatSectors * SectorSize)
     IN  IF \E i \in DOMAIN s : s[i] = c
         THEN LET i == CHOOSE i \in DOMAIN s : s[i] = c
              IN  IF i < Len(s) THEN s[i + 1] ELSE e
         ELSE 0]

\* content[i] is cell i of the chain s.
WithContent(s, e, content) ==
  [x \in AllCells |->
     IF x < FatStart THEN 0
     ELSE IF x < DataStart THEN FatCells(s, e)[x]
     ELSE LET c == (x - DataStart) \div ClusterSize + 2
          IN  IF \E i \in DOMAIN s : s[i] = c
              THEN content[((CHOOSE i \in DOMAIN s : s[i] = c) - 1) * ClusterSize
                           + ((x - DataStart) % ClusterSize) + 1]
              ELSE x]

Volume(kind, s, e, content) ==
  [kind |-> kind, clusters |-> ToSet(s),
   inode |-> IF kind = "dir" /\ s[1] = RootCluster THEN 0 ELSE s[1],
   cells |-> WithContent(s, e, content)]

FileDisks ==
  {Volume("file", s, e, [i \in 1 .. 3 * ClusterSize |-> 100 + i]) :
     s \in FileChains, e \in {EndOfChain, 0}}

File(base, ext, inode) == [kind |-> "file", base |-> base, ext |-> ext, inode |-> inode]
Lfn(part) == [kind |-> "lfn", portion |-> <<part>>]
Free == 0
MCDirents ==
  (Free :> [kind |-> "end"]) @@ (301 :> [kind |-> "deleted"]) @@ (302 :> [kind |-> "volume"])
  @@ (303 :> File("A", "", 4)) @@ (304 :> Lfn("two")) @@ (305 :> Lfn("one"))
  @@ (306 :> File("B", "", 5)) @@ (307 :> Lfn("long")) @@ (308 :> File("C", "TXT", 0))
  @@ (309 :> File("D", "TXT", 7))

\* What a directory may hold, in units that belong together.
Units == {<<301>>, <<302>>, <<303>>, <<304, 305, 306>>, <<307, 308>>, <<309>>}
Entries == {FlattenSeq(u) : u \in {w \in SeqOf(Units, 3) : IsInjective(w)}}
DirDisks ==
  {Volume("dir", s, e, u \o [i \in 1 .. Len(s) * ClusterSize - Len(u) |-> Free]) :
     s \in {<<2>>, <<3>>}, e \in {EndOfChain, 0}, u \in {w \in Entries : Len(w) <= ClusterSize}}
  \cup
  {Volume("dir", s, EndOfChain, u \o [i \in 1 .. Len(s) * ClusterSize - Len(u) |-> Free]) :
     s \in {<<2, 6>>, <<6, 3>>}, u \in Entries}

MCDisks == FileDisks \cup DirDisks
MCAtaRequests ==
  [sector : {FirstDataSector + 1}, offset : 0 .. SectorSize + 1,
   length : 0 .. MaxLength]
MCNames == {<<".">>, <<"A">>, <<"B">>, <<"one", "two">>, <<"two", "one">>, <<"long">>, <<"D", ".", "TXT">>, <<"E">>}
=============================================================================
