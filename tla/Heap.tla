-------------------------------- MODULE Heap --------------------------------
(***************************************************************************)
(* The heap of the kernel and of each process (Heap.cpp): an index of      *)
(* entries, holes and data, kept in an OrderedArray.  insert puts an entry *)
(* before the first that is not smaller, but free resizes entries where    *)
(* they stand, so that the index is ordered by size only until then.       *)
(***************************************************************************)
EXTENDS Naturals, SequencesExt

CONSTANTS
  First, End,     \* the addresses handed out, First .. End - 1
  PageSize,       \* 0x1000
  IndexSize,      \* _maxSize of the index
  Sizes           \* the sizes asked for

ASSUME HeapAssumption ==
  /\ {First, End, IndexSize} \subseteq Nat /\ First < End /\ IndexSize > 0
  /\ PageSize \in Nat \ {0} /\ First % PageSize = 0 /\ End % PageSize = 0
  /\ Sizes \subseteq Nat

VARIABLES
  index,          \* _index
  heapPanic,      \* "no", or what stopped the machine
  emptied         \* history: whether the entry of an allocation of 0 bytes was freed

heapVars == <<index, heapPanic, emptied>>

Entry(start, size, isHole) == [start |-> start, size |-> size, isHole |-> isHole]
EndOf(e) == e.start + e.size

HeapInit ==
  /\ index = <<Entry(First, End - First, TRUE)>>
  /\ heapPanic = "no" /\ emptied = FALSE

\* The position of the first entry that satisfies a condition, or 0.
StartingAt(q, a) == SelectInSeq(q, LAMBDA e : e.start = a)

EndingAt(q, a) == SelectInSeq(q, LAMBDA e : EndOf(e) = a)

\* OrderedArray::insert.
Insert(q, e) ==
  LET i == SelectInSeq(q, LAMBDA x : ~(x.size < e.size))
  IN  IF i = 0 THEN Append(q, e) ELSE InsertAt(q, i, e)

\* How far the first page boundary of an entry is from its start.
Offset(e) == (PageSize - (e.start % PageSize)) % PageSize

\* Mutant of SmallestHole: any entry that is large enough.
SmallestEntry(q, n) == SelectInSeq(q, LAMBDA e : e.size >= n)

SmallestHole(q, n) == SelectInSeq(q, LAMBDA e : e.isHole /\ e.size >= n)
SmallestAlignedHole(q, n) ==
  SelectInSeq(q, LAMBDA e : e.isHole /\ e.size >= n + Offset(e))

\* Mutant of AfterAlloc: the hole keeps the bytes that were taken.
AfterAllocUnshrunk(q, hole, skip, n) ==
  Insert(Insert(q, Entry(hole.start + skip, hole.size - skip, TRUE)),
         Entry(hole.start + skip, n, FALSE))

\* The index once n bytes are taken from a hole that was removed from q: skip
\* bytes before them stay a hole, and so does what is left behind them.
AfterAlloc(q, hole, skip, n) ==
  LET before == IF skip = 0 THEN q ELSE Insert(q, Entry(hole.start, skip, TRUE))
      left == hole.size - skip - n
      behind == IF left = 0 THEN before
                ELSE Insert(before, Entry(hole.start + skip + n, left, TRUE))
  IN  Insert(behind, Entry(hole.start + skip, n, FALSE))

Panic(what) == heapPanic' = what /\ UNCHANGED index

\* Mutant of TakeFrom: the index may outgrow its array.
TakeFromUnchecked(i, skip, n) ==
  index' = AfterAlloc(RemoveAt(index, i), index[i], skip, n) /\ UNCHANGED heapPanic

\* Takes n bytes from the hole at position i, skip bytes behind its start.  An
\* index that is full stops the machine (ASSERT(_size < _maxSize)).
TakeFrom(i, skip, n) ==
  LET q == AfterAlloc(RemoveAt(index, i), index[i], skip, n)
  IN  IF Len(q) <= IndexSize THEN index' = q /\ UNCHANGED heapPanic
      ELSE Panic("index full")

Alloc(n) ==
  LET i == SmallestHole(index, n)
  IN  /\ heapPanic = "no"
      /\ IF i = 0 THEN Panic("no hole") ELSE TakeFrom(i, 0, n)
      /\ UNCHANGED emptied

AllocAligned(n) ==
  LET i == SmallestAlignedHole(index, n)
  IN  /\ heapPanic = "no"
      /\ IF i = 0 THEN Panic("no hole") ELSE TakeFrom(i, Offset(index[i]), n)
      /\ UNCHANGED emptied

\* The index once the entry at i has taken in the one at j.
Merged(q, i, j) == RemoveAt([q EXCEPT ![i].size = @ + q[j].size], j)

IsHole(q, i) == i # 0 /\ q[i].isHole

\* free: the entry becomes a hole and is merged with the hole before it, then
\* with the one behind it.  An address at which no entry starts is refused.
Free(a) ==
  LET i == StartingAt(index, a)
      q == [index EXCEPT ![i].isHole = TRUE]
      b == EndingAt(q, a)
      backward == IsHole(q, b)
      r == IF backward THEN Merged(q, b, i) ELSE q
      k == IF backward THEN EndingAt(r, a + q[i].size) ELSE i
      e == StartingAt(r, EndOf(r[k]))
  IN  /\ heapPanic = "no"
      /\ i # 0
      /\ emptied' = (emptied \/ (index[i].size = 0 /\ ~index[i].isHole))
      /\ IF k = 0 THEN Panic("index out of range")
         ELSE /\ index' = IF IsHole(r, e) THEN Merged(r, k, e) ELSE r
              /\ UNCHANGED heapPanic

\* A panic stops the machine (AkariHalt).
Halted == heapPanic # "no" /\ UNCHANGED heapVars

HeapNext ==
  \/ \E n \in Sizes : Alloc(n) \/ AllocAligned(n)
  \/ \E a \in First .. End : Free(a)
  \/ Halted

HeapSpec == HeapInit /\ [][HeapNext]_heapVars

-----------------------------------------------------------------------------
(* Properties.                                                             *)

\* The entries keep their types.
TypeOK ==
  /\ index \in Seq([start : First .. End, size : 0 .. End - First, isHole : BOOLEAN])
  /\ heapPanic \in {"no", "no hole", "index full", "index out of range"}
  /\ emptied \in BOOLEAN

Holds(e, a) == e.start <= a /\ a < EndOf(e)

IsEmpty(e) == ~e.isHole /\ e.size = 0

\* Every address belongs to exactly one entry, and no two holes touch unless an
\* empty allocation is between them: holes and data neither overlap nor leak, and
\* a request is refused only when no free range is long enough, however
\* allocations, aligned ones and frees follow each other.
EntriesTile ==
  /\ TypeOK
  /\ \A a \in First .. End - 1 :
       \E i \in DOMAIN index : /\ Holds(index[i], a)
                               /\ \A j \in DOMAIN index : Holds(index[j], a) => j = i
  /\ ~emptied =>
       \A i, j \in DOMAIN index :
         index[i].isHole /\ index[j].isHole /\ EndOf(index[i]) = index[j].start =>
           \E k \in DOMAIN index : IsEmpty(index[k]) /\ index[k].start = index[j].start

\* ASSERT(index < _size) and ASSERT(_size < _maxSize) of OrderedArray
\* (inc/OrderedArray.hpp:55,65): only once an allocation of 0 bytes has been
\* freed does free look up entries that do not exist, and the index never grows
\* beyond its array.
IndexIsNotExceeded ==
  /\ Len(index) \in 1 .. IndexSize
  /\ heapPanic = "index out of range" => emptied

\* The data entries behave like the allocations of an abstract allocator, until
\* an allocation of 0 bytes is freed: then the data before it may take in the
\* hole behind it.
A == INSTANCE Allocator WITH
       Arena <- First .. End - 1,
       Starts <- First .. End,
       live <- {[start |-> index[i].start, size |-> index[i].size] :
                  i \in {j \in DOMAIN index : ~index[j].isHole}},
       ruined <- emptied

HeapAllocates == A!Spec
=============================================================================
