---------------------------- MODULE Spaces_proofs ---------------------------
(***************************************************************************)
(* The address spaces of the kernel and of the programs, for pages, tables,*)
(* heaps and programs of any size.                                         *)
(*                                                                         *)
(* On the invariant that no frame is in two entries (Kernel_proofs) rests  *)
(* a second one, SpacesInv: what was placed is mapped to itself, the       *)
(* tables of the kernel are in every directory and no others in two,       *)
(* directories say where they and their tables are, and frames are taken   *)
(* in a row, so that pages that are mapped one after the other have frames *)
(* that follow each other.  So address spaces work                         *)
(* (AddressSpacesAlwaysWork) and buffers are contiguous                    *)
(* (BuffersAreAlwaysContiguous).  On both rests a third, ImageInv: what    *)
(* has been loaded of a task is in frames of its own, and whoever writes   *)
(* memory writes to others (ImagesAreAlwaysLoaded).                        *)
(***************************************************************************)
EXTENDS Kernel_proofs

\* What the kernel is at, before the next task or the switch.
Extent(td) ==
  CHOOSE n \in 0 .. Len(td) : /\ \A i \in 1 .. n : td[i].do \notin {"clone", "switch"}
                              /\ n < Len(td) => td[n + 1].do \in {"clone", "switch"}
Now == SubSeq(todo, 1, Extent(todo))

\* The page that the wand has borrowed will get its frame back.
Home(p) == IF p = wand.page THEN wand.frame ELSE FrameOf(kernel, p)

\* A page of the kernel has the frame with its number.
Identity(p) == TableOf(kernel, p) # 0 /\ FrameOf(kernel, p) = p

\* An address that stays what it is, and what it is.
HeapKept == Kept \cap HeapPages
Reach(a) == a \in Nat /\ (a < placed \/ a \div PageSize \in HeapKept)
Means(a) == IF a < placed THEN a ELSE PhysAddr(a)

\* What was placed stays below the heap.
PlacedFits ==
  /\ placed \in Nat
  /\ placement # 0 => placed = placement
  /\ placement = 0 => \E n \in ModuleSizes : placed <= PlacementEnd(n)

\* The kernel has the first directory, every task one of its own.
DirectoriesFit ==
  /\ tasks = <<>> => DOMAIN directories \subseteq {kernel}
  /\ \A i, j \in DOMAIN tasks : tasks[i].directory = tasks[j].directory => i = j

\* The tables of the kernel are in every directory, and no others are in two.
SharedTables ==
  \A d, e \in DOMAIN directories : \A t \in AllTables :
    /\ directories[kernel].tables[t] # 0 => directories[d].tables[t] = directories[kernel].tables[t]
    /\ d # e /\ directories[d].tables[t] = directories[e].tables[t] =>
         directories[d].tables[t] = 0 \/ directories[kernel].tables[t] # 0

\* Directories say where they and their tables are, and these stay there.
SaysWhere(directory, d) ==
  /\ Reach(d + PageSize) /\ directory.physicalAddr = Means(d + PageSize)
  /\ \A t \in AllTables :
       directory.tables[t] # 0 =>
         Reach(directory.tables[t]) /\ directory.physicals[t] = Means(directory.tables[t])
AllSayWhere == \A d \in DOMAIN directories : SaysWhere(directories[d], d)

\* Once paging is on, what was placed is mapped to itself, and the pages of the
\* heap to frames in a row.
HeapPairs == {p \in EveryPage : {p, p + 1} \subseteq HeapPages}
KernelPaged ==
  placement = 0 =>
    /\ \A p \in EveryPage : p * PageSize < placed => Identity(p)
    /\ \A p \in HeapPages : TableOf(kernel, p) # 0
    /\ \A p \in HeapPairs : Home(p + 1) = Home(p) + 1

\* The frames are taken in order.
FramesInRow == \E k \in Nat : frames = 0 .. k - 1

MapsFit ==
  PlacedFits /\ DirectoriesFit /\ SharedTables /\ AllSayWhere /\ KernelPaged /\ FramesInRow

\* Pages that follow each other are mapped one after the other, so that their
\* frames do too: of a program, of pages in P and those behind, in a space where
\* pages have frames F.
Follows(s, program, p, i) ==
  \/ Touches(s[i], program, p + 1)
  \/ i + 1 \in DOMAIN s /\ Touches(s[i + 1], program, p + 1)
NotTouched(s, program, p) == \A i \in DOMAIN s : ~Touches(s[i], program, p)
InOrder(s, program, P, F, marked) ==
  \A p \in P :
    /\ \A i \in DOMAIN s : Touches(s[i], program, p) => Follows(s, program, p, i)
    /\ NotTouched(s, program, p) =>
         \/ s # <<>> /\ Touches(s[1], program, p + 1) /\ marked = 0 .. F[p]
         \/ NotTouched(s, program, p + 1) /\ F[p + 1] = F[p] + 1

FramesOf(d) == [p \in EveryPage |-> FrameOf(d, p)]

\* What the kernel does once paging is on, before it has a task.
AfterPaging(item) ==
  item.do = "stack" \/ (item.do = "map" /\ item.page \in ToSet(KernelStack))

\* Before, tables are made for the heap, then memory is mapped to itself, then the
\* heap; so placement stays where it is once the identity mapping has ended.
MapsInRow(s) ==
  \A i \in DOMAIN s : s[i].do = "identity_map" =>
    frames = 0 .. s[i].page - 1 /\ \A p \in frames : Identity(p)
HasMapped(s) ==
  NoIdentity(s) => /\ \A p \in EveryPage : p * PageSize < IdentityEnd => Identity(p)
                   /\ \A i \in DOMAIN s : s[i].do # "get_page"
HasTables(s) ==
  \A p \in HeapPages :
    TableOf(kernel, p) # 0 \/ \E i \in DOMAIN s : s[i].do = "get_page" /\ s[i].page = p
PagingAhead(s) ==
  \A i, j \in DOMAIN s : i < j =>
    /\ s[i].do = "paging" => AfterPaging(s[j])
    /\ s[i].do = "identity_map" => s[j].do # "get_page"
HeapAhead(s) == InOrder(s, Initial, HeapPairs, FramesOf(kernel), frames)
BeforePaging(s) ==
  MapsInRow(s) /\ HasMapped(s) /\ HasTables(s) /\ PagingAhead(s) /\ HeapAhead(s)

KernelInOrder ==
  tasks = <<>> =>
    IF placement = 0 THEN \A i \in DOMAIN Now : AfterPaging(Now[i]) ELSE BeforePaging(Now)

\* The pages of a program that have to follow each other.
PairsOf(program) ==
  {p \in EveryPage : \/ {p, p + 1} \subseteq ToSet(TaskHeap)
                     \/ \E g \in ToSet(program.segments) : {p, p + 1} \subseteq SegmentPages(g)}

\* The initial task has no pages; the others have theirs in order.
TaskInOrder(task, s) ==
  IF task.program.kind = "initial"
  THEN /\ \A p \in TaskPages : FrameOf(task.directory, p) = NoFrame
       /\ \A i \in DOMAIN s : s[i].do = "device"
  ELSE InOrder(s, task.program, PairsOf(task.program), FramesOf(task.directory), frames)
AtHandOf(i) == IF i = Len(tasks) THEN Now ELSE <<>>
TasksInOrder == \A i \in DOMAIN tasks : TaskInOrder(tasks[i], AtHandOf(i))

OrderFits == KernelInOrder /\ TasksInOrder
SpacesInv ==
  IF directories = <<>> THEN placement # 0 ELSE MapsFit /\ (halted = "no" => OrderFits)

-----------------------------------------------------------------------------
(* What the kernel is at.                                                  *)

\* What comes before the first clone or switch.
LEMMA ExtentIs ==
  ASSUME NEW S, NEW s \in Seq(S), NEW r \in Seq(S),
         \A i \in DOMAIN s : s[i].do \notin {"clone", "switch"},
         r = <<>> \/ r[1].do \in {"clone", "switch"}
  PROVE  SubSeq(s \o r, 1, Extent(s \o r)) = s
<1> DEFINE td == s \o r
           Is(n) == /\ \A i \in 1 .. n : td[i].do \notin {"clone", "switch"}
                    /\ n < Len(td) => td[n + 1].do \in {"clone", "switch"}
<1>1. /\ td \in Seq(S) /\ Len(td) = Len(s) + Len(r) /\ Len(s) \in Nat /\ Len(r) \in Nat
      /\ \A i \in 1 .. Len(s) : td[i] = s[i]
      /\ \A i \in 1 .. Len(r) : td[Len(s) + i] = r[i]
  BY ConcatAt
<1>2. Extent(td) = CHOOSE n \in 0 .. Len(td) : Is(n)
  BY DEF Extent
<1> HIDE DEF td
<1>3. Len(s) \in 0 .. Len(td) /\ Is(Len(s))
  <2>1. \A i \in 1 .. Len(s) : td[i].do \notin {"clone", "switch"}
    BY <1>1
  <2>2. Len(s) < Len(td) => td[Len(s) + 1].do \in {"clone", "switch"}
    <3>1. CASE r = <<>>
      BY <1>1, <3>1
    <3>2. CASE r # <<>>
      <4>1. 1 \in 1 .. Len(r)
        BY <1>1, <3>2
      <4> QED BY <1>1, <3>2, <4>1
    <3> QED BY <3>1, <3>2
  <2> QED BY <1>1, <2>1, <2>2
<1>4. ASSUME NEW n \in 0 .. Len(td), NEW m \in 0 .. Len(td), Is(n), Is(m), n < m PROVE FALSE
  <2>1. n + 1 \in 1 .. m /\ n < Len(td)
    BY <1>1, <1>4
  <2> QED BY <1>4, <2>1
<1> HIDE DEF Is
<1>5. Extent(td) \in 0 .. Len(td) /\ Is(Extent(td))
  BY <1>2, <1>3
<1>6. Extent(td) = Len(s)
  BY <1>1, <1>3, <1>4, <1>5
<1>7. SubSeq(td, 1, Len(s)) = s
  <2>1. SubSeq(td, 1, Len(s)) = [i \in 1 .. Len(s) |-> td[i]]
    BY <1>1
  <2>2. s = [i \in 1 .. Len(s) |-> s[i]]
    OBVIOUS
  <2> QED BY <1>1, <2>1, <2>2
<1> QED BY <1>6, <1>7 DEF td

\* What is for the kernel or a task is not a clone, nor the switch.
LEMMA ItemsStay ==
  ASSUME NEW item \in KernelItem \cup TaskItem \cup DeviceItem
  PROVE  item.do \notin {"clone", "switch"}
<1>1. CASE item \in KernelItem
  BY <1>1 DEF KernelItem
<1>2. CASE item \in TaskItem
  BY <1>2 DEF TaskItem
<1>3. CASE item \in DeviceItem
  BY <1>3 DEF DeviceItem
<1> QED BY <1>1, <1>2, <1>3

\* What may be left for later begins with one, or is nothing.
LEMMA LaterBegins ==
  ASSUME NEW rest, CanBeLater(rest) \/ \E p, u : rest = <<[do |-> "clone", program |-> p]>> \o u /\ u \in Seq(TodoItem)
  PROVE  rest = <<>> \/ rest[1].do \in {"clone", "switch"}
<1>1. CASE rest = <<Do("switch")>>
  BY <1>1 DEF Do
<1>2. ASSUME NEW p, NEW u \in Seq(TodoItem), rest = <<[do |-> "clone", program |-> p]>> \o u
      PROVE  rest[1].do \in {"clone", "switch"}
  <2> DEFINE c == [do |-> "clone", program |-> p]
             S == TodoItem \cup {c}
  <2>1. c \in S /\ u \in Seq(S) /\ c.do = "clone"
    BY <1>2
  <2> HIDE DEF c, S
  <2>2. <<c>> \in Seq(S) /\ Len(<<c>>) = 1 /\ <<c>>[1] = c
    BY <2>1
  <2>3. (<<c>> \o u)[1] = c
    BY <2>1, <2>2, ConcatAt
  <2>4. rest = <<c>> \o u
    BY <1>2 DEF c
  <2> QED BY <2>1, <2>3, <2>4
<1> QED BY <1>1, <1>2 DEF CanBeLater

\* What the kernel is at, and what it is at when something of it is done.
LEMMA NowIs ==
  ASSUME NEW s, NEW rest, Doing(s, rest)
  PROVE  /\ Now = s
         /\ \A u \in Seq(Items) : todo' = u \o rest => Now' = u
<1>1. /\ s \in Seq(TodoItem) /\ s \in Seq(Items) /\ rest \in Seq(TodoItem) /\ todo = s \o rest
      /\ tasks = <<>> => rest = <<[do |-> "clone", program |-> Initial]>> \o Rest(1)
                           /\ Rest(1) \in Seq(TodoItem)
      /\ tasks # <<>> => CanBeLater(rest)
  BY DoingIs DEF Doing
<1>2. rest = <<>> \/ rest[1].do \in {"clone", "switch"}
  BY <1>1, LaterBegins
<1>3. Items \subseteq KernelItem \cup TaskItem \cup DeviceItem
  BY DEF Items
<1>4. ASSUME NEW u \in Seq(Items) PROVE SubSeq(u \o rest, 1, Extent(u \o rest)) = u
  <2>1. \A i \in DOMAIN u : u[i] \in Items
    BY <1>4
  <2>2. \A i \in DOMAIN u : u[i].do \notin {"clone", "switch"}
    BY <1>3, <2>1, ItemsStay
  <2>3. u \in Seq(TodoItem)
    BY <1>3, <1>4 DEF TodoItem
  <2> QED BY <1>1, <1>2, <2>2, <2>3, ExtentIs
<1>5. Now = s
  BY <1>1, <1>4 DEF Now
<1>6. ASSUME NEW u \in Seq(Items), todo' = u \o rest PROVE Now' = u
  BY <1>4, <1>6 DEF Now
<1> QED BY <1>5, <1>6

-----------------------------------------------------------------------------
(* Pages in order.                                                         *)

\* The first thing is done, and gives no frame to the pages that have to follow
\* each other.
LEMMA SkipKeepsOrder ==
  ASSUME NEW S, NEW s \in Seq(S), s # <<>>, NEW k \in {0, 1}, NEW u \in Seq(S), NEW program,
         GoesOn(u, k, s, program),
         NEW P, P \subseteq EveryPage, \A p \in P : p + 1 \in EveryPage,
         \A p \in P : ~Touches(s[1], program, p) /\ ~Touches(s[1], program, p + 1),
         NEW F, NEW G, \A p \in P : G[p] = F[p] /\ G[p + 1] = F[p + 1],
         NEW marked, NEW more, InOrder(s, program, P, F, marked)
  PROVE  InOrder(u, program, P, G, more)
<1> USE DEF EveryPage
<1>1. /\ Len(s) \in Nat \ {0} /\ Len(u) = Len(s) - k /\ DOMAIN u = 1 .. Len(u)
      /\ DOMAIN s = 1 .. Len(s) /\ k \in Nat
  BY DEF GoesOn
<1>2. \A i \in DOMAIN u : /\ i + k \in DOMAIN s /\ (i + k # 1 => u[i] = s[i + k])
                          /\ \A p \in EveryPage : Touches(u[i], program, p) =>
                                                    Touches(s[i + k], program, p)
  BY DEF GoesOn
<1>3. ASSUME NEW p \in P PROVE
        /\ \A i \in DOMAIN u : Touches(u[i], program, p) => Follows(u, program, p, i)
        /\ NotTouched(u, program, p) => NotTouched(u, program, p + 1) /\ G[p + 1] = G[p] + 1
  <2>0. p \in EveryPage /\ p + 1 \in EveryPage
    OBVIOUS
  <2>1. ASSUME NEW i \in DOMAIN u, Touches(u[i], program, p) PROVE Follows(u, program, p, i)
    <3>1. i + k \in DOMAIN s /\ Touches(s[i + k], program, p) /\ i + k # 1 /\ u[i] = s[i + k]
      BY <1>2, <2>0, <2>1
    <3>2. Follows(s, program, p, i + k)
      BY <3>1 DEF InOrder
    <3>3. CASE Touches(s[i + k], program, p + 1)
      BY <3>1, <3>3 DEF Follows
    <3>4. CASE (i + k) + 1 \in DOMAIN s /\ Touches(s[(i + k) + 1], program, p + 1)
      <4>1. i + 1 \in DOMAIN u /\ (i + 1) + k = (i + k) + 1 /\ (i + 1) + k # 1
        BY <1>1, <3>1, <3>4
      <4>2. u[i + 1] = s[(i + k) + 1]
        BY <1>2, <4>1
      <4> QED BY <3>4, <4>1, <4>2 DEF Follows
    <3> QED BY <3>2, <3>3, <3>4 DEF Follows
  <2>2. ASSUME NotTouched(u, program, p)
        PROVE  NotTouched(u, program, p + 1) /\ G[p + 1] = G[p] + 1
    <3>1. ASSUME NEW j \in DOMAIN s PROVE ~Touches(s[j], program, p)
      <4>1. CASE j = 1
        BY <4>1
      <4>2. CASE j # 1
        <5>1. j - k \in DOMAIN u /\ (j - k) + k = j
          BY <1>1, <4>2
        <5>2. u[j - k] = s[j]
          BY <1>2, <4>2, <5>1
        <5> QED BY <2>2, <5>1, <5>2 DEF NotTouched
      <4> QED BY <4>1, <4>2
    <3>2. ~Touches(s[1], program, p + 1)
      OBVIOUS
    <3>3. NotTouched(s, program, p)
      BY <3>1 DEF NotTouched
    <3>4. NotTouched(s, program, p + 1) /\ F[p + 1] = F[p] + 1
      BY <3>2, <3>3 DEF InOrder
    <3>5. NotTouched(u, program, p + 1)
      BY <1>2, <2>0, <3>4 DEF NotTouched
    <3> QED BY <3>4, <3>5
  <2> QED BY <2>1, <2>2
<1> QED BY <1>3 DEF InOrder

\* A page gets the first frame that is free; what is left gives frames to the others.
IsMapped(s, u, k, program, page) ==
  /\ Touches(s[1], program, page)
  /\ \A p \in EveryPage : /\ Touches(s[1], program, p) => page <= p
                          /\ page <= p /\ Touches(s[1], program, p + 1) => Touches(s[1], program, p)
  /\ k = 1 => \A p \in EveryPage : Touches(s[1], program, p) => p = page
  /\ k = 0 => /\ \A p \in EveryPage : Touches(u[1], program, p) <=>
                                        Touches(s[1], program, p) /\ p # page
              /\ Touches(u[1], program, page + 1)

\* One page gets the frame, and the others of the pairs keep theirs.
PairsIn(P) == P \subseteq EveryPage /\ \A p \in P : p + 1 \in EveryPage
GetsFrame(F, G, P, page, f) ==
  /\ F \in [EveryPage -> Nat] /\ G \in [EveryPage -> Nat] /\ G[page] = f
  /\ \A p \in P : (p # page => G[p] = F[p]) /\ (p + 1 # page => G[p + 1] = F[p + 1])

\* What is left finds its pages in order.
LEMMA MapKeepsOrder ==
  ASSUME NEW S, NEW s \in Seq(S), s # <<>>, NEW k \in {0, 1}, NEW u \in Seq(S), NEW program,
         GoesOn(u, k, s, program), ItemsApart(s, program),
         NEW page \in EveryPage, IsMapped(s, u, k, program, page), NEW P, PairsIn(P),
         NEW f \in Nat, NEW F, NEW G, GetsFrame(F, G, P, page, f),
         InOrder(s, program, P, F, 0 .. f - 1)
  PROVE  InOrder(u, program, P, G, 0 .. f)
<1>7. /\ P \subseteq EveryPage /\ (\A p \in P : p + 1 \in EveryPage)
      /\ F \in [EveryPage -> Nat] /\ G \in [EveryPage -> Nat] /\ G[page] = f
      /\ \A p \in P : (p # page => G[p] = F[p]) /\ (p + 1 # page => G[p + 1] = F[p + 1])
  BY DEF PairsIn, GetsFrame
<1> USE <1>7 DEF EveryPage
<1>0. /\ Touches(s[1], program, page)
      /\ \A p \in EveryPage : Touches(s[1], program, p) => page <= p
      /\ \A p \in EveryPage :
           page <= p /\ Touches(s[1], program, p + 1) => Touches(s[1], program, p)
      /\ k = 1 => \A p \in EveryPage : Touches(s[1], program, p) => p = page
      /\ k = 0 => /\ \A p \in EveryPage : Touches(u[1], program, p) <=>
                                            Touches(s[1], program, p) /\ p # page
                  /\ Touches(u[1], program, page + 1)
  BY DEF IsMapped
<1>1. /\ Len(s) \in Nat \ {0} /\ Len(u) = Len(s) - k /\ DOMAIN u = 1 .. Len(u)
      /\ DOMAIN s = 1 .. Len(s) /\ k \in Nat /\ page \in Nat
  BY DEF GoesOn
<1>2. \A i \in DOMAIN u : /\ i + k \in DOMAIN s /\ (i + k # 1 => u[i] = s[i + k])
                          /\ \A p \in EveryPage : Touches(u[i], program, p) =>
                                                    Touches(s[i + k], program, p)
  BY DEF GoesOn
<1>3. \A i \in DOMAIN s : Touches(s[i], program, page) => i = 1
  BY <1>0, <1>1, SMTT(30) DEF ItemsApart
<1>4. ASSUME NEW i \in DOMAIN u, NEW p \in EveryPage
      PROVE  Touches(u[i], program, p) <=> Touches(s[i + k], program, p) /\ p # page
  <2>0. i + k \in DOMAIN s /\ i \in Nat \ {0}
    BY <1>1, <1>2
  <2>1. CASE i + k # 1
    <3>1. ~Touches(s[i + k], program, page)
      BY <1>3, <2>0, <2>1
    <3> QED BY <1>2, <2>1, <3>1
  <2>2. CASE i + k = 1
    <3>1. i = 1 /\ k = 0
      BY <1>1, <2>0, <2>2
    <3> QED BY <1>0, <3>1
  <2> QED BY <2>1, <2>2
<1>5. ASSUME NEW p \in EveryPage, p # page PROVE NotTouched(u, program, p) <=> NotTouched(s, program, p)
  <2>1. ASSUME NotTouched(s, program, p) PROVE NotTouched(u, program, p)
    BY <1>2, <2>1 DEF NotTouched
  <2>2. ASSUME NotTouched(u, program, p), NEW j \in DOMAIN s, Touches(s[j], program, p) PROVE FALSE
    <3>1. CASE j - k \in DOMAIN u
      <4>1. (j - k) + k = j
        BY <1>1
      <4> QED BY <1>4, <1>5, <2>2, <3>1, <4>1 DEF NotTouched
    <3>2. CASE j - k \notin DOMAIN u
      <4>1. j = 1 /\ k = 1
        BY <1>1, <3>2
      <4> QED BY <1>0, <1>5, <2>2, <4>1
    <3> QED BY <3>1, <3>2
  <2> QED BY <2>1, <2>2 DEF NotTouched
<1>6. ASSUME NEW p \in P PROVE
        /\ \A i \in DOMAIN u : Touches(u[i], program, p) => Follows(u, program, p, i)
        /\ NotTouched(u, program, p) =>
             \/ u # <<>> /\ Touches(u[1], program, p + 1) /\ 0 .. f = 0 .. G[p]
             \/ NotTouched(u, program, p + 1) /\ G[p + 1] = G[p] + 1
  <2>0. p \in EveryPage /\ p + 1 \in EveryPage /\ p \in Nat
    OBVIOUS
  <2>1. ASSUME NEW i \in DOMAIN u, Touches(u[i], program, p) PROVE Follows(u, program, p, i)
    <3>1. i + k \in DOMAIN s /\ Touches(s[i + k], program, p) /\ p # page
      BY <1>2, <1>4, <2>0, <2>1
    <3>2. Follows(s, program, p, i + k)
      BY <3>1 DEF InOrder
    <3>3. p + 1 # page
      <4>1. ASSUME p + 1 = page PROVE FALSE
        <5>1. CASE Touches(s[i + k], program, p + 1)
          <6>1. i + k = 1
            BY <1>3, <3>1, <4>1, <5>1
          <6>2. page <= p
            BY <1>0, <2>0, <3>1, <6>1
          <6> QED BY <1>1, <2>0, <4>1, <6>2
        <5>2. CASE (i + k) + 1 \in DOMAIN s /\ Touches(s[(i + k) + 1], program, p + 1)
          <6>1. (i + k) + 1 = 1
            BY <1>3, <4>1, <5>2
          <6> QED BY <1>1, <3>1, <6>1
        <5> QED BY <3>2, <5>1, <5>2 DEF Follows
      <4> QED BY <4>1
    <3>4. CASE Touches(s[i + k], program, p + 1)
      BY <1>4, <2>0, <3>3, <3>4 DEF Follows
    <3>5. CASE (i + k) + 1 \in DOMAIN s /\ Touches(s[(i + k) + 1], program, p + 1)
      <4>1. i + 1 \in DOMAIN u /\ (i + 1) + k = (i + k) + 1
        BY <1>1, <3>1, <3>5, SMTT(30)
      <4> QED BY <1>4, <2>0, <3>3, <3>5, <4>1 DEF Follows
    <3> QED BY <3>2, <3>4, <3>5 DEF Follows
  <2>2. ASSUME NotTouched(u, program, p)
        PROVE  \/ u # <<>> /\ Touches(u[1], program, p + 1) /\ 0 .. f = 0 .. G[p]
               \/ NotTouched(u, program, p + 1) /\ G[p + 1] = G[p] + 1
    <3>1. CASE p = page
      <4>1. G[p] = f
        BY <3>1
      <4>2. CASE k = 0
        <5>1. u # <<>>
          BY <1>1, <4>2
        <5> QED BY <1>0, <3>1, <4>1, <4>2, <5>1
      <4>3. CASE k = 1
        <5>1. Follows(s, program, p, 1) /\ 1 \in DOMAIN s
          BY <1>0, <1>1, <3>1 DEF InOrder
        <5>2. ~Touches(s[1], program, p + 1)
          BY <1>0, <1>1, <2>0, <3>1, <4>3
        <5>3. 2 \in DOMAIN s /\ Touches(s[2], program, p + 1)
          BY <5>1, <5>2 DEF Follows
        <5>4. 1 \in DOMAIN u /\ 1 + k = 2 /\ u # <<>>
          BY <1>1, <4>3, <5>3
        <5>5. u[1] = s[2]
          BY <1>2, <5>4
        <5> QED BY <4>1, <5>3, <5>4, <5>5
      <4> QED BY <4>2, <4>3
    <3>2. CASE p + 1 = page
      <4>1. p # page
        BY <1>1, <2>0, <3>2
      <4>2. NotTouched(s, program, p)
        BY <1>5, <2>0, <2>2, <4>1
      <4>3. ~NotTouched(s, program, p + 1)
        BY <1>0, <1>1, <3>2, SMTT(30) DEF NotTouched
      <4>4. 0 .. f - 1 = 0 .. F[p]
        BY <4>2, <4>3 DEF InOrder
      <4>5. F[p] = f - 1
        <5>1. F[p] \in Nat
          BY <2>0
        <5>2. F[p] \in 0 .. F[p]
          BY <5>1
        <5>3. F[p] <= f - 1
          BY <4>4, <5>1, <5>2
        <5>4. f - 1 \in 0 .. f - 1
          BY <5>1, <5>3
        <5>5. f - 1 <= F[p]
          BY <4>4, <5>4
        <5> QED BY <5>1, <5>3, <5>5
      <4>6. G[p] = F[p] /\ G[p + 1] = f
        BY <2>0, <3>2, <4>1
      <4>7. NotTouched(u, program, p + 1)
        BY <1>4, <2>0, <3>2 DEF NotTouched
      <4> QED BY <4>5, <4>6, <4>7
    <3>3. CASE p # page /\ p + 1 # page
      <4>1. NotTouched(s, program, p)
        BY <1>5, <2>0, <2>2, <3>3
      <4>2. ASSUME Touches(s[1], program, p + 1), 0 .. f - 1 = 0 .. F[p] PROVE FALSE
        <5>1. page <= p + 1
          BY <1>0, <2>0, <4>2
        <5>2. page <= p
          BY <1>1, <2>0, <3>3, <5>1
        <5>3. Touches(s[1], program, p)
          BY <1>0, <2>0, <4>2, <5>2
        <5> QED BY <1>1, <4>1, <5>3 DEF NotTouched
      <4>3. NotTouched(s, program, p + 1) /\ F[p + 1] = F[p] + 1
        BY <4>1, <4>2 DEF InOrder
      <4>4. NotTouched(u, program, p + 1)
        BY <1>5, <2>0, <3>3, <4>3
      <4>5. G[p] = F[p] /\ G[p + 1] = F[p + 1]
        BY <2>0, <3>3
      <4> QED BY <4>3, <4>4, <4>5
    <3> QED BY <3>1, <3>2, <3>3
  <2> QED BY <2>1, <2>2
<1> QED BY <1>6 DEF InOrder

-----------------------------------------------------------------------------
(* Frames of pages.                                                        *)

\* A page of a directory gets a frame: where it is, and no other page.
LEMMA MapChanges ==
  ASSUME SpacesFit, TablesApart, SharedTables, SpacesFit', UNCHANGED <<directories, kernel>>,
         NEW o \in DOMAIN directories, NEW page \in EveryPage, TableOf(o, page) # 0, NEW f,
         IsGiven(pages, pages', TableOf(o, page), page % Entries, f)
  PROVE  /\ \A d \in DOMAIN directories : \A p \in EveryPage : TableOf(d, p)' = TableOf(d, p)
         /\ \A d \in DOMAIN directories : \A p \in EveryPage :
              p # page \/ TableOf(d, p) # TableOf(o, page) => FrameOf(d, p)' = FrameOf(d, p)
         /\ \A d \in DOMAIN directories : TableOf(d, page) = TableOf(o, page) => FrameOf(d, page)' = f
         /\ TableOf(kernel, page) = 0 =>
              \A d \in DOMAIN directories \ {o} : TableOf(d, page) # TableOf(o, page)
<1> DEFINE table == TableOf(o, page)
<1>0. page \div Entries \in AllTables /\ page % Entries \in Positions /\ table \in DOMAIN pages
  BY EveryPageIs, FrameIs
<1>1. ASSUME NEW d \in DOMAIN directories, NEW p \in EveryPage PROVE
        /\ TableOf(d, p)' = TableOf(d, p)
        /\ p # page \/ TableOf(d, p) # table => FrameOf(d, p)' = FrameOf(d, p)
        /\ p = page /\ TableOf(d, p) = table => FrameOf(d, p)' = f
  <2> DEFINE mine == directories[d].tables[p \div Entries]
  <2>1. /\ TableOf(d, p) = mine /\ mine \in {0} \cup DOMAIN pages
        /\ FrameOf(d, p) = Frame(pages, mine, p)
    BY FrameIs
  <2>2. TableOf(d, p)' = mine /\ FrameOf(d, p)' = Frame(pages', mine, p)
    <3>1. directories' = directories
      OBVIOUS
    <3>2. FrameOf(d, p)' = Frame(pages', directories'[d].tables[p \div Entries], p)
      BY <3>1, FrameIs DEF FrameOf, TableOf, Frame
    <3> QED BY <3>1, <3>2 DEF TableOf
  <2>3. ASSUME p # page \/ mine # table PROVE mine = 0 \/ mine # table \/ p % Entries # page % Entries
    <3>1. ASSUME mine # 0, mine = table, p % Entries = page % Entries PROVE FALSE
      <4>1. p \div Entries \in AllTables
        BY EveryPageIs
      <4>2. directories[d].tables[p \div Entries] = directories[o].tables[page \div Entries]
        BY <3>1 DEF TableOf
      <4>3. p \div Entries = page \div Entries
        BY <1>0, <3>1, <4>1, <4>2 DEF TablesApart
      <4>4. p = page
        BY <3>1, <4>3, PlacesOfPages
      <4> QED BY <2>3, <3>1, <4>4
    <3> QED BY <3>1
  <2>4. p # page \/ mine # table => Frame(pages', mine, p) = Frame(pages, mine, p)
    <3> HIDE DEF mine, table
    <3> QED BY <2>1, <2>3, OtherPagesStay DEF SameFrame, table
  <2>5. ASSUME p = page, mine = table PROVE Frame(pages', mine, p) = f
    <3>1. <<table, page % Entries>> \in (DOMAIN pages) \X Positions
      BY <1>0
    <3>2. pages'[table][page % Entries] = f
      BY <3>1 DEF IsGiven
    <3> QED BY <2>5, <3>2 DEF Frame
  <2> QED BY <2>1, <2>2, <2>4, <2>5
<1>2. ASSUME TableOf(kernel, page) = 0, NEW d \in DOMAIN directories \ {o}, TableOf(d, page) = table
      PROVE  FALSE
  <2>1. d \in DOMAIN directories /\ d # o
    OBVIOUS
  <2>2. /\ directories[d].tables[page \div Entries] = directories[o].tables[page \div Entries]
        /\ directories[d].tables[page \div Entries] # 0
        /\ directories[kernel].tables[page \div Entries] = 0
    BY <1>2 DEF TableOf
  <2> QED BY <1>0, <2>1, <2>2 DEF SharedTables
<1> QED BY <1>1, <1>2

\* The frames of the pages of tasks, and of the kernel.
TasksSeeTheSame ==
  \A i \in DOMAIN tasks : \A p \in TaskPages :
    FrameOf(tasks[i].directory, p)' = FrameOf(tasks[i].directory, p)
KernelSeesTheSame(P) ==
  \A p \in P : TableOf(kernel, p)' = TableOf(kernel, p) /\ FrameOf(kernel, p)' = FrameOf(kernel, p)

\* A page has a frame for good: one that is marked, and not the first, which a page
\* may have and still be given another.  The pages of tasks keep these; those of the
\* heap keep theirs too.
HasFrame(d, p) == FrameOf(d, p) \in frames \ {0, NoFrame}
TasksKeepFrames ==
  \A i \in DOMAIN tasks : \A p \in TaskPages :
    HasFrame(tasks[i].directory, p) =>
      FrameOf(tasks[i].directory, p)' = FrameOf(tasks[i].directory, p)
HeapKeepsFrames ==
  \A p \in HeapPages :
    IF placement = 0 THEN Home(p)' = Home(p)
    ELSE FrameOf(kernel, p) \in frames => FrameOf(kernel, p)' \in frames'
KeepFrames == TasksKeepFrames /\ HeapKeepsFrames /\ frames \subseteq frames'

\* So they do where the kernel's pages, and those of tasks, stay as they are.
LEMMA SameFramesAreKept ==
  ASSUME TasksSeeTheSame, frames \subseteq frames',
         \A p \in HeapPages : FrameOf(kernel, p)' = FrameOf(kernel, p),
         wand' = wand \/ \A p \in HeapPages : Home(p)' = Home(p)
  PROVE  KeepFrames
<1>1. \A p \in HeapPages : Home(p)' = Home(p)
  BY DEF Home
<1>2. TasksKeepFrames
  BY DEF TasksSeeTheSame, TasksKeepFrames
<1>3. HeapKeepsFrames
  BY <1>1 DEF HeapKeepsFrames
<1> QED BY <1>2, <1>3 DEF KeepFrames

\* Steps that change no page.
LEMMA FramesAreKept ==
  ASSUME UNCHANGED <<directories, pages, kernel, tasks, frames>>,
         wand' = wand \/ \A p \in HeapPages : Home(p)' = Home(p)
  PROVE  KeepFrames
<1>1. \A d, p : FrameOf(d, p)' = FrameOf(d, p)
  BY DEF FrameOf, TableOf
<1>2. TasksSeeTheSame
  BY DEF TasksSeeTheSame, FrameOf, TableOf
<1>3. \A p \in HeapPages : FrameOf(kernel, p)' = FrameOf(kernel, p)
  BY DEF FrameOf, TableOf
<1> QED BY <1>2, <1>3, SameFramesAreKept

\* The pages of tasks are in no table of the kernel.
LEMMA TaskPagesAre ==
  ASSUME KernelStaysOut, NEW p \in TaskPages
  PROVE  p \in EveryPage /\ p \notin KernelPages /\ TableOf(kernel, p) = 0
<1>1. p \in EveryPage
  BY EveryPageIs
<1>2. p \notin KernelPages
  BY LayoutAssumption
<1>3. TableOf(kernel, p) = 0
  BY DEF KernelStaysOut, TableOf
<1> QED BY <1>1, <1>2, <1>3

\* The pairs of a program are pages of tasks.
LEMMA PairsAre ==
  ASSUME NEW program \in AllPrograms
  PROVE  /\ PairsOf(program) \subseteq EveryPage
         /\ \A p \in PairsOf(program) : p \in TaskPages /\ p + 1 \in TaskPages /\ p + 1 \in EveryPage
<1>1. ASSUME NEW p \in PairsOf(program) PROVE p \in TaskPages /\ p + 1 \in TaskPages
  <2>1. CASE {p, p + 1} \subseteq ToSet(TaskHeap)
    BY <2>1 DEF TaskPages
  <2>2. ASSUME NEW g \in ToSet(program.segments), {p, p + 1} \subseteq SegmentPages(g)
        PROVE  p \in TaskPages /\ p + 1 \in TaskPages
    BY <2>2 DEF TaskPages
  <2> QED BY <2>1, <2>2 DEF PairsOf
<1> QED BY <1>1, EveryPageIs DEF PairsOf

\* A pair of the heap is two pages of it.
LEMMA HeapPairsAre ==
  /\ HeapPairs \subseteq EveryPage
  /\ \A p \in HeapPairs : p \in HeapPages /\ p + 1 \in HeapPages /\ p + 1 \in EveryPage
  /\ HeapPages \subseteq EveryPage /\ 0 \notin HeapPages
<1>1. HeapPages \subseteq EveryPage
  BY EveryPageIs
<1>2. 0 \notin HeapPages
  BY MemoryAssumption, LayoutAssumption DEF HeapPages
<1> QED BY <1>1, <1>2 DEF HeapPairs

\* An element of a sequence.
LEMMA ElementIs ==
  ASSUME NEW S, NEW s \in Seq(S), NEW i \in DOMAIN s
  PROVE  s[i] \in S /\ i \in 1 .. Len(s) /\ Len(s) \in Nat \ {0} /\ s # <<>>
OBVIOUS

\* A task.
LEMMA TaskIs ==
  ASSUME TasksFit, NEW i \in DOMAIN tasks
  PROVE  /\ tasks[i].directory \in DOMAIN directories \ {kernel}
         /\ tasks[i].program \in TaskPrograms
         /\ i \in 1 .. Len(tasks) /\ Len(tasks) \in Nat \ {0} /\ tasks # <<>>
<1> DEFINE S == [directory : Nat, program : TaskPrograms]
<1>1. tasks \in Seq(S) /\ tasks[i].directory \in DOMAIN directories \ {kernel}
  BY DEF TasksFit
<1> HIDE DEF S
<1>2. tasks[i] \in S /\ i \in 1 .. Len(tasks) /\ Len(tasks) \in Nat \ {0} /\ tasks # <<>>
  BY <1>1, ElementIs
<1> QED BY <1>1, <1>2 DEF S

\* What tasks have in order stays so while they see the same, and what the kernel
\* is at gives them no page.
LEMMA TasksStayInOrder ==
  ASSUME TasksFit, tasks' = tasks, TasksSeeTheSame, TasksInOrder,
         tasks # <<>> => Now \in Seq(Items) /\ Now' \in Seq(Items),
         \/ Now' = Now /\ frames' = frames
         \/ /\ Now # <<>> /\ GoesOn(Now', 1, Now, TaskProgram)
            /\ \A p \in TaskPages : ~Touches(Now[1], TaskProgram, p)
  PROVE  TasksInOrder'
<1>1. ASSUME NEW i \in DOMAIN tasks PROVE TaskInOrder(tasks[i], AtHandOf(i))'
  <2> DEFINE d == tasks[i].directory
             program == tasks[i].program
             F == FramesOf(d)
             G == FramesOf(d)'
             s == AtHandOf(i)
             u == AtHandOf(i)'
  <2>1. program \in TaskPrograms /\ tasks[i]' = tasks[i] /\ i \in 1 .. Len(tasks)
    BY TaskIs
  <2>2. \A p \in TaskPages : FrameOf(d, p)' = FrameOf(d, p)
    BY DEF TasksSeeTheSame
  <2>3. TaskInOrder(tasks[i], s)
    BY DEF TasksInOrder
  <2>4. CASE program.kind = "initial"
    <3>1. \A p \in TaskPages : FrameOf(d, p)' = NoFrame
      BY <2>2, <2>3, <2>4 DEF TaskInOrder
    <3>2. \A j \in DOMAIN u : u[j].do = "device"
      <4>1. \A j \in DOMAIN s : s[j].do = "device"
        BY <2>3, <2>4 DEF TaskInOrder
      <4>2. CASE i # Len(tasks)
        BY <4>2 DEF AtHandOf
      <4>3. CASE i = Len(tasks)
        <5>1. s = Now /\ u = Now'
          BY <4>3 DEF AtHandOf
        <5>2. CASE Now' = Now
          BY <4>1, <5>1, <5>2
        <5>3. CASE GoesOn(Now', 1, Now, TaskProgram)
          BY <4>1, <5>1, <5>3 DEF GoesOn
        <5> QED BY <5>2, <5>3
      <4> QED BY <4>2, <4>3
    <3> QED BY <2>1, <2>4, <3>1, <3>2 DEF TaskInOrder, NoFrame
  <2>5. CASE program.kind # "initial"
    <3> DEFINE P == PairsOf(program)
    <3>1. program \in AllPrograms
      BY <2>1, <2>5 DEF TaskPrograms, Initial
    <3>2. P \subseteq EveryPage /\ \A p \in P : p \in TaskPages /\ p + 1 \in TaskPages /\ p + 1 \in EveryPage
      BY <3>1, PairsAre
    <3>3. \A p \in P : G[p] = F[p] /\ G[p + 1] = F[p + 1]
      BY <2>2, <3>2 DEF FramesOf
    <3>4. InOrder(s, program, P, F, frames)
      BY <2>3, <2>5 DEF TaskInOrder
    <3> HIDE DEF P
    <3>5. InOrder(u, program, P, G, frames')
      <4> HIDE DEF F, G
      <4>1. CASE i # Len(tasks)
        <5>1. s = <<>> /\ u = <<>>
          BY <4>1 DEF AtHandOf
        <5> QED BY <3>3, <3>4, <5>1 DEF InOrder, NotTouched
      <4>2. CASE i = Len(tasks)
        <5>1. s = Now /\ u = Now'
          BY <4>2 DEF AtHandOf
        <5>2. CASE Now' = Now /\ frames' = frames
          BY <3>3, <3>4, <5>1, <5>2 DEF InOrder
        <5>3. CASE /\ Now # <<>> /\ GoesOn(Now', 1, Now, TaskProgram)
                   /\ \A p \in TaskPages : ~Touches(Now[1], TaskProgram, p)
          <6>1. tasks # <<>> /\ TaskProgram = program
            BY <2>1, <4>2, ProgramIs DEF TaskProgram
          <6>2. Now \in Seq(Items) /\ Now' \in Seq(Items)
            BY <6>1
          <6>3. \A p \in P : ~Touches(Now[1], program, p) /\ ~Touches(Now[1], program, p + 1)
            BY <3>2, <5>3, <6>1
          <6>4. Now # <<>> /\ GoesOn(Now', 1, Now, program)
            BY <5>3, <6>1
          <6>5. \A p \in P : p + 1 \in EveryPage
            BY <3>2
          <6>6. InOrder(Now, program, P, F, frames)
            BY <3>4, <5>1
          <6>7. InOrder(Now', program, P, G, frames')
            BY <3>2, <3>3, <6>2, <6>3, <6>4, <6>5, <6>6, SkipKeepsOrder
          <6> QED BY <5>1, <6>7
        <5> QED BY <5>2, <5>3
      <4> QED BY <4>1, <4>2
    <3>6. TaskInOrder(tasks[i], AtHandOf(i))' <=> InOrder(u, program, PairsOf(program), G, frames')
      BY <2>1, <2>5 DEF TaskInOrder, InOrder, NotTouched, PairsOf
    <3> QED BY <3>5, <3>6 DEF P
  <2> QED BY <2>4, <2>5
<1> QED BY <1>1 DEF TasksInOrder

-----------------------------------------------------------------------------
(* Addresses that stay what they are.                                      *)

\* What is reached stays so.
ReachGrows == \A a : Reach(a) => Reach(a)' /\ Means(a)' = Means(a)

\* The directories that are not changed say where things are, still.
LEMMA SaysWhereStays ==
  ASSUME ReachGrows, NEW directory, NEW d, SaysWhere(directory, d)
  PROVE  SaysWhere(directory, d)'
<1>1. \A a : Reach(a) => Reach(a)' /\ Means(a)' = Means(a)
  BY DEF ReachGrows
<1>2. Reach(d + PageSize)' /\ directory.physicalAddr = Means(d + PageSize)'
  BY <1>1 DEF SaysWhere
<1>3. ASSUME NEW t \in AllTables, directory.tables[t] # 0
      PROVE  Reach(directory.tables[t])' /\ directory.physicals[t] = Means(directory.tables[t])'
  BY <1>1, <1>3 DEF SaysWhere
<1> QED BY <1>2, <1>3 DEF SaysWhere

\* Pages that are kept are at home, and there are none before paging.
LEMMA KeptAtHome ==
  ASSUME NEW p \in HeapKept
  PROVE  Home(p) = FrameOf(kernel, p) /\ p \in HeapPages /\ (AllocationFits => placement = 0)
BY DEF HeapKept, Kept, Home, AllocationFits

\* Steps that allocate no table and no directory, and leave the heap's pages and
\* those of the identity mapping where they are.
LEMMA ReachStays ==
  ASSUME AllocationFits, UNCHANGED <<placement, placed, kernel>>, HeapKept \subseteq HeapKept',
         placement = 0 => \A p \in HeapPages : Home(p)' = Home(p)
  PROVE  ReachGrows
<1>1. ASSUME NEW a, Reach(a) PROVE Reach(a)' /\ Means(a)' = Means(a)
  <2>1. CASE a < placed
    <3>1. a < placed' /\ a \in Nat
      BY <1>1, <2>1 DEF Reach
    <3> QED BY <2>1, <3>1 DEF Reach, Means
  <2>2. CASE ~(a < placed)
    <3> DEFINE p == a \div PageSize
    <3>1. p \in HeapKept /\ p \in HeapKept' /\ ~(a < placed') /\ a \in Nat
      BY <1>1, <2>2 DEF Reach
    <3>2. Home(p) = FrameOf(kernel, p) /\ p \in HeapPages /\ placement = 0
      BY <3>1, KeptAtHome
    <3>3. Home(p)' = Home(p)
      BY <3>2
    <3>4. FrameOf(kernel, p)' = Home(p)'
      BY <3>1 DEF HeapKept, Kept, Home
    <3>5. PhysAddr(a)' = PhysAddr(a)
      BY <3>2, <3>3, <3>4 DEF PhysAddr
    <3> QED BY <2>2, <3>1, <3>5 DEF Reach, Means
  <2> QED BY <2>1, <2>2
<1> QED BY <1>1 DEF ReachGrows

\* What was placed is below the heap, in pages that are mapped to themselves.
LEMMA PlacedIs ==
  ASSUME PlacedFits, placement = 0, NEW p \in EveryPage, p * PageSize < placed
  PROVE  p \in IdentityPages /\ placed \in Nat /\ placed <= HeapStart * PageSize
<1>1. PICK n \in ModuleSizes : placed <= PlacementEnd(n)
  BY DEF PlacedFits
<1>2. /\ placed \in Nat /\ p \in Nat /\ PageSize \in Nat \ {0} /\ HeapStart \in Nat
      /\ PlacementEnd(n) \in Nat /\ PlacementEnd(n) <= HeapStart * PageSize
  BY EveryPageIs, MemoryAssumption, LayoutAssumption, IdentityPagesAre DEF PlacedFits
<1> DEFINE e == PlacementEnd(n)
           h == HeapStart * PageSize
           b == p * PageSize
<1>3. h \in Nat /\ b \in Nat /\ e \in Nat /\ placed <= e /\ e <= h /\ b < placed
  BY <1>1, <1>2, ProductOrder
<1> HIDE DEF e, h, b
<1>4. b < e /\ b < h /\ placed <= h
  BY <1>2, <1>3
<1>5. ASSUME HeapStart <= p PROVE FALSE
  <2>1. h <= b
    BY <1>2, <1>5, ProductOrder DEF h, b
  <2> QED BY <1>3, <1>4, <2>1
<1>6. p \in 0 .. HeapStart - 1
  BY <1>2, <1>5
<1>7. p * PageSize < PlacementEnd(n) /\ placed <= HeapStart * PageSize
  BY <1>4 DEF b, e, h
<1> QED BY <1>2, <1>6, <1>7 DEF IdentityPages

\* Where the kernel's heap and what was placed keep their frames, everything is where
\* it was.
LEMMA MapsStay ==
  ASSUME AllocationFits, MapsFit, UNCHANGED <<placement, placed, directories, kernel, tasks>>,
         HeapKept \subseteq HeapKept',
         placement = 0 => (\A p \in HeapPages : Home(p)' = Home(p)) /\ KernelSeesTheSame(IdentityPages),
         FramesInRow'
  PROVE  MapsFit'
<1>1. ReachGrows
  BY ReachStays
<1>2. AllSayWhere'
  <2>1. ASSUME NEW d \in DOMAIN directories PROVE SaysWhere(directories[d], d)'
    <3>1. PICK directory : directory = directories[d]
      OBVIOUS
    <3>2. directory = directories'[d]
      BY <3>1
    <3>3. SaysWhere(directory, d)
      BY <3>1 DEF MapsFit, AllSayWhere
    <3>4. SaysWhere(directory, d)'
      BY <1>1, <3>3, SaysWhereStays
    <3> QED BY <3>2, <3>4
  <2> QED BY <2>1 DEF AllSayWhere
<1>3. PlacedFits' /\ DirectoriesFit' /\ SharedTables'
  BY DEF MapsFit, PlacedFits, DirectoriesFit, SharedTables
<1>4. KernelPaged'
  <2>1. CASE placement # 0
    BY <2>1 DEF KernelPaged
  <2>2. CASE placement = 0
    <3>1. ASSUME NEW p \in EveryPage, p * PageSize < placed PROVE Identity(p)'
      <4>1. p \in IdentityPages /\ Identity(p)
        BY <2>2, <3>1, PlacedIs DEF MapsFit, KernelPaged
      <4>2. TableOf(kernel, p)' = TableOf(kernel, p) /\ FrameOf(kernel, p)' = FrameOf(kernel, p)
        BY <2>2, <4>1 DEF KernelSeesTheSame
      <4> QED BY <4>1, <4>2 DEF Identity
    <3>2. ASSUME NEW p \in HeapPages PROVE TableOf(kernel, p)' # 0
      BY <2>2 DEF MapsFit, KernelPaged, TableOf
    <3>3. ASSUME NEW p \in HeapPairs PROVE Home(p + 1)' = Home(p)' + 1
      <4>1. p \in HeapPages /\ p + 1 \in HeapPages
        BY HeapPairsAre
      <4>2. Home(p)' = Home(p) /\ Home(p + 1)' = Home(p + 1)
        BY <2>2, <4>1
      <4>3. Home(p + 1) = Home(p) + 1
        BY <2>2 DEF MapsFit, KernelPaged
      <4> QED BY <4>2, <4>3
    <3>4. placed' = placed
      OBVIOUS
    <3> QED BY <3>1, <3>2, <3>3, <3>4 DEF KernelPaged, HeapPairs
  <2> QED BY <2>1, <2>2
<1> QED BY <1>2, <1>3, <1>4 DEF MapsFit

-----------------------------------------------------------------------------
(* Steps that change no page.                                              *)

\* What the kernel is at, at a step that is about it.
LEMMA NowAtHand ==
  ASSUME Working, NEW what, Step(what), what \notin {"clone", "switch"}
  PROVE  /\ Now \in Seq(Items) /\ Now # <<>> /\ Now[1] = Head(todo) /\ Now[1].do = what
         /\ Now[1] \in Items /\ 1 \in DOMAIN Now
         /\ \E rest : Doing(Now, rest) /\ todo = Now \o rest /\ Tail(todo) = Tail(Now) \o rest
         /\ Tail(Now) \in Seq(Items) /\ GoesOn(Tail(Now), 1, Now, TaskProgram)
         /\ ItemsFit(Now) /\ Bare(Now, Items, TaskProgram) /\ ItemsApart(Now, TaskProgram)
         /\ Done => Now' = Tail(Now)
<1>1. PICK s, rest : Doing(s, rest) /\ s # <<>> /\ s[1].do = what /\ Head(todo) = s[1]
  BY StepIs
<1>2. /\ s \in Seq(Items) /\ todo = s \o rest /\ Tail(todo) = Tail(s) \o rest /\ s[1] \in Items
      /\ 1 \in DOMAIN s
  <2>1. todo = s \o rest
    BY <1>1 DEF Doing
  <2> QED BY <1>1, <2>1, DoingIs
<1>3. Now = s /\ \A u \in Seq(Items) : todo' = u \o rest => Now' = u
  BY <1>1, NowIs
<1>4. Tail(s) \in Seq(Items) /\ GoesOn(Tail(s), 1, s, TaskProgram)
  BY <1>1, <1>2, TailGoesOn
<1>5. ItemsFit(s) /\ Bare(s, Items, TaskProgram) /\ ItemsApart(s, TaskProgram)
  BY <1>1 DEF Doing, ItemsFit, Bare
<1>6. Done => Now' = Tail(s)
  BY <1>2, <1>3, <1>4 DEF Done
<1> QED BY <1>1, <1>2, <1>3, <1>4, <1>5, <1>6

\* What remains of what the kernel does once paging is on.
LEMMA AfterPagingStays ==
  ASSUME KernelInOrder, placement = 0, placement' = 0, tasks' = tasks,
         Now' = Now \/ GoesOn(Now', 1, Now, TaskProgram)
  PROVE  KernelInOrder'
<1>1. CASE tasks # <<>>
  BY <1>1 DEF KernelInOrder
<1>2. CASE tasks = <<>>
  <2>1. \A i \in DOMAIN Now : AfterPaging(Now[i])
    BY <1>2 DEF KernelInOrder
  <2>2. ASSUME NEW i \in DOMAIN Now' PROVE AfterPaging(Now'[i])
    <3>1. CASE Now' = Now
      BY <2>1, <3>1
    <3>2. CASE GoesOn(Now', 1, Now, TaskProgram)
      <4>1. i + 1 \in DOMAIN Now /\ (i + 1 # 1 => Now'[i] = Now[i + 1])
        BY <3>2 DEF GoesOn
      <4>2. DOMAIN Now' = 1 .. Len(Now')
        OBVIOUS
      <4>3. i + 1 # 1
        BY <4>2
      <4> QED BY <2>1, <4>1, <4>3
    <3> QED BY <3>1, <3>2
  <2> QED BY <1>2, <2>2 DEF KernelInOrder, AfterPaging
<1> QED BY <1>1, <1>2

\* Steps that give no page a frame, and take none away.
LEMMA QuietKeeps ==
  ASSUME Working, MapsFit, OrderFits,
         UNCHANGED <<placement, placed, directories, pages, kernel, tasks, frames>>,
         wand' = wand \/ \A p \in HeapPages : Home(p)' = Home(p),
         HeapKept \subseteq HeapKept',
         \/ Now' = Now
         \/ /\ Now \in Seq(Items) /\ Now' \in Seq(Items) /\ Now # <<>>
            /\ GoesOn(Now', 1, Now, TaskProgram)
            /\ Now[1].do \notin {"map", "identity_map", "copy"},
         KernelInOrder'
  PROVE  MapsFit' /\ OrderFits'
<1>1. \A d, p : FrameOf(d, p)' = FrameOf(d, p) /\ TableOf(d, p)' = TableOf(d, p)
  BY DEF FrameOf, TableOf
<1>2. MapsFit'
  <2>1. \A p \in HeapPages : Home(p)' = Home(p)
    <3>1. wand' = wand => \A p \in HeapPages : Home(p)' = Home(p)
      BY <1>1 DEF Home, FrameOf, TableOf
    <3> QED BY <3>1
  <2>2. KernelSeesTheSame(IdentityPages)
    BY <1>1 DEF KernelSeesTheSame, FrameOf, TableOf
  <2>3. FramesInRow'
    BY DEF MapsFit, FramesInRow
  <2> QED BY <2>1, <2>2, <2>3, MapsStay DEF Working
<1>3. TasksSeeTheSame
  BY <1>1 DEF TasksSeeTheSame, FrameOf, TableOf
<1>4. TasksInOrder'
  <2>1. CASE tasks = <<>>
    BY <2>1 DEF TasksInOrder
  <2>2. CASE tasks # <<>>
    <3>1. CASE Now' = Now
      <4>1. Now \in Seq(Items)
        <5>1. PICK s, rest : Doing(s, rest)
          BY DEF Working, TodoFits
        <5> QED BY <5>1, NowIs, DoingIs
      <4> QED BY <1>3, <3>1, <4>1, TasksStayInOrder DEF Working, OrderFits
    <3>2. CASE /\ Now \in Seq(Items) /\ Now' \in Seq(Items) /\ Now # <<>>
               /\ GoesOn(Now', 1, Now, TaskProgram)
               /\ Now[1].do \notin {"map", "identity_map", "copy"}
      <4>1. \A p \in TaskPages : ~Touches(Now[1], TaskProgram, p)
        BY <3>2 DEF Touches
      <4> QED BY <1>3, <3>2, <4>1, TasksStayInOrder DEF Working, OrderFits
    <3> QED BY <3>1, <3>2
  <2> QED BY <2>1, <2>2
<1> QED BY <1>2, <1>4 DEF OrderFits

\* Before it has a task the kernel is at a program without pages.
LEMMA KernelProgram ==
  tasks = <<>> => TaskProgram = Initial
BY DEF TaskProgram

\* The heap gives pages, and those that are kept stay so.
LEMMA HeapGives ==
  ASSUME AllocationFits, placement = 0, NEW n \in Nat \ {0}, NEW a \in Addresses(n),
         AllocAligned(n, a), others' = others
  PROVE  /\ placement' = placement /\ placed' = placed /\ heap \subseteq heap'
         /\ a \div PageSize \in HeapPages \ heap
         /\ wand' = wand \/ wand'.page = a \div PageSize => HeapKept \subseteq HeapKept'
<1>1. placement' = placement /\ placed' = placed /\ heap \subseteq heap'
  BY AllocAlignedTakes DEF AllocAligned
<1>2. a \div PageSize \in HeapPages \ heap
  BY AddressesAreNew
<1>3. ASSUME wand' = wand \/ wand'.page = a \div PageSize PROVE HeapKept \subseteq HeapKept'
  <2>1. CASE wand' = wand
    BY <1>1, <2>1 DEF HeapKept, Kept, HeapPages
  <2>2. CASE wand'.page = a \div PageSize
    BY <1>1, <1>2, <2>2 DEF HeapKept, Kept, HeapPages
  <2> QED BY <1>3, <2>1, <2>2
<1> QED BY <1>1, <1>2, <1>3

\* Stacks and arguments come once paging is on.
LEMMA PagingIsOn ==
  ASSUME Working, NEW what, Step(what),
         what \notin {"get_page", "identity_map", "map", "paging", "clone", "switch"}
  PROVE  placement = 0
<1>1. PICK rest : Doing(Now, rest) /\ Now # <<>> /\ Now[1].do = what
  BY NowAtHand
<1> QED BY <1>1, PlacementIs

\* A stack of the kernel.
LEMMA AllocateStackGoesOn ==
  ASSUME Working, MapsFit, OrderFits, AllocateStack
  PROVE  MapsFit' /\ OrderFits'
<1>1. /\ Step("stack") /\ Done
      /\ UNCHANGED <<directories, pages, kernel, tasks, frames, wand, others>>
  BY DEF AllocateStack, spaces, making
<1>2. /\ Now \in Seq(Items) /\ Now # <<>> /\ Now[1].do = "stack" /\ Now[1] = Head(todo)
      /\ Now[1] \in Items /\ Tail(Now) \in Seq(Items) /\ GoesOn(Tail(Now), 1, Now, TaskProgram)
      /\ Now' = Tail(Now)
  BY <1>1, NowAtHand
<1>3. placement = 0
  BY <1>1, PagingIsOn
<1>4. Head(todo).size \in Nat \ {0}
  <2>1. Now[1] \in KernelItem \/ Now[1] \in TaskItem \/ Now[1] \in DeviceItem
    BY <1>2 DEF Items
  <2>2. Now[1].size = TaskKernelStack
    BY <1>2, <2>1 DEF KernelItem, TaskItem, DeviceItem
  <2> QED BY <1>2, <2>2, MemoryAssumption
<1>5. PICK a \in Addresses(Head(todo).size) : AllocAligned(Head(todo).size, a)
  BY DEF AllocateStack
<1>6. placement' = placement /\ placed' = placed /\ HeapKept \subseteq HeapKept'
  BY <1>1, <1>3, <1>4, <1>5, HeapGives DEF Working
<1>7. KernelInOrder'
  BY <1>1, <1>2, <1>3, <1>6, AfterPagingStays, KernelProgram DEF OrderFits
<1> QED BY <1>1, <1>2, <1>6, <1>7, QuietKeeps

\* load_task_argv.
LEMMA LoadArgumentsGoesOn ==
  ASSUME Working, MapsFit, OrderFits, LoadArguments
  PROVE  MapsFit' /\ OrderFits'
<1>1. /\ Step("arguments") /\ Done
      /\ UNCHANGED <<placement, placed, heap, directories, pages, kernel, tasks, frames, wand, others>>
  BY DEF LoadArguments, spaces, making, allocation
<1>2. /\ Now \in Seq(Items) /\ Now # <<>> /\ Now[1].do = "arguments"
      /\ Tail(Now) \in Seq(Items) /\ GoesOn(Tail(Now), 1, Now, TaskProgram)
      /\ Now' = Tail(Now)
  BY <1>1, NowAtHand
<1>3. placement = 0
  BY <1>1, PagingIsOn
<1>4. HeapKept \subseteq HeapKept'
  BY <1>1 DEF HeapKept, Kept, HeapPages
<1>5. KernelInOrder'
  BY <1>1, <1>2, <1>3, AfterPagingStays, KernelProgram DEF OrderFits
<1> QED BY <1>1, <1>2, <1>4, <1>5, QuietKeeps

\* Between tasks nothing is at hand.
LEMMA NothingNow ==
  ASSUME NEW S, NEW r \in Seq(S), r = <<>> \/ r[1].do \in {"clone", "switch"}
  PROVE  SubSeq(r, 1, Extent(r)) = <<>>
<1>1. <<>> \in Seq(S) /\ <<>> \o r = r /\ \A i \in DOMAIN <<>> : <<>>[i].do \notin {"clone", "switch"}
  OBVIOUS
<1> QED BY <1>1, ExtentIs

\* The kernel is idle, and changes the heap or the directory it is in, or is told
\* to make a task.
LEMMA IdleGoesOn ==
  ASSUME Working, MapsFit, OrderFits, todo = <<>>,
         UNCHANGED <<placement, placed, directories, pages, kernel, tasks, frames, wand>>,
         HeapKept \subseteq HeapKept', Now' = Now
  PROVE  MapsFit' /\ OrderFits'
<1>1. tasks # <<>>
  BY IdleIs
<1>2. KernelInOrder'
  BY <1>1 DEF KernelInOrder
<1> QED BY <1>2, QuietKeeps

\* The kernel changes to the directory of a task.
LEMMA SwitchToGoesOn ==
  ASSUME Working, MapsFit, OrderFits, NEW i \in DOMAIN tasks, SwitchTo(i)
  PROVE  MapsFit' /\ OrderFits'
<1>1. /\ todo = <<>> /\ todo' = todo
      /\ UNCHANGED <<placement, placed, heap, directories, pages, kernel, tasks, frames, wand, others>>
  BY DEF SwitchTo, IsIdle, allocation, making
<1>2. HeapKept \subseteq HeapKept' /\ Now' = Now
  BY <1>1 DEF HeapKept, Kept, HeapPages, Now
<1> QED BY <1>1, <1>2, IdleGoesOn

\* A task is asked for.
LEMMA SpawnGoesOn ==
  ASSUME Working, MapsFit, OrderFits, NEW program \in Programs, Spawn(program)
  PROVE  MapsFit' /\ OrderFits'
<1>1. /\ todo = <<>> /\ todo' = MakeTask(program)
      /\ UNCHANGED <<placement, placed, heap, directories, pages, kernel, tasks, frames, wand, others>>
  BY DEF Spawn, IsIdle, allocation, making, spaces
<1>2. HeapKept \subseteq HeapKept'
  BY <1>1 DEF HeapKept, Kept, HeapPages
<1>3. Now = <<>>
  <2>1. <<>> \in Seq({})
    OBVIOUS
  <2> QED BY <1>1, <2>1, NothingNow DEF Now
<1>4. Now' = <<>>
  <2>1. program \in AllPrograms
    BY DEF AllPrograms
  <2>2. AfterClone(program) \in Seq(TodoItem)
    BY <2>1, MakeTaskIs
  <2>3. MakeTask(program) = <<[do |-> "clone", program |-> program]>> \o AfterClone(program)
    BY DEF MakeTask
  <2>4. MakeTask(program)[1].do \in {"clone", "switch"} \/ MakeTask(program) = <<>>
    BY <2>2, <2>3, LaterBegins
  <2>5. MakeTask(program) \in Seq(TodoItem)
    BY <2>1, MakeTaskIs
  <2>6. SubSeq(MakeTask(program), 1, Extent(MakeTask(program))) = <<>>
    BY <2>4, <2>5, NothingNow
  <2> QED BY <1>1, <2>6 DEF Now
<1> QED BY <1>1, <1>2, <1>3, <1>4, IdleGoesOn

\* The boot ends.
LEMMA SwitchToInitialGoesOn ==
  ASSUME Working, MapsFit, OrderFits, SwitchToInitial
  PROVE  MapsFit' /\ OrderFits'
<1>1. /\ Step("switch") /\ todo # <<>> /\ Head(todo).do = "switch" /\ todo' = Tail(todo)
      /\ UNCHANGED <<placement, placed, heap, directories, pages, kernel, tasks, frames, wand, others>>
  BY DEF SwitchToInitial, Step, allocation, making, Done
<1>2. tasks # <<>> /\ todo' = <<>>
  BY <1>1, SwitchIs
<1>3. Now' = <<>>
  <2>1. <<>> \in Seq({})
    OBVIOUS
  <2> QED BY <1>2, <2>1, NothingNow DEF Now
<1>4. Now = <<>>
  <2>1. PICK s, rest : Doing(s, rest)
    BY DEF Working, TodoFits
  <2>2. Now = s /\ todo = s \o rest /\ s \in Seq(Items)
    BY <2>1, NowIs, DoingIs DEF Doing
  <2>3. s # <<>> => Head(todo) = s[1] /\ s[1] \in Items
    BY <2>1, DoingIs
  <2>4. Items \subseteq KernelItem \cup TaskItem \cup DeviceItem
    BY DEF Items
  <2> QED BY <1>1, <2>2, <2>3, <2>4, ItemsStay
<1>5. HeapKept \subseteq HeapKept'
  BY <1>1 DEF HeapKept, Kept, HeapPages
<1>6. KernelInOrder'
  BY <1>1, <1>2 DEF KernelInOrder
<1> QED BY <1>1, <1>3, <1>4, <1>5, <1>6, QuietKeeps

\* The rest of the kernel takes a page of the heap.
LEMMA TakeOtherGoesOn ==
  ASSUME Working, MapsFit, OrderFits, TakeOther
  PROVE  MapsFit' /\ OrderFits'
<1>1. /\ todo = <<>> /\ todo' = todo
      /\ UNCHANGED <<placement, placed, directories, pages, kernel, tasks, frames, wand>>
  BY DEF TakeOther, IsIdle, making, spaces
<1>2. PICK p \in SmallestHoles(1) : heap' = heap \cup {p} /\ others' = others \cup {p}
  BY DEF TakeOther
<1>3. p \notin heap
  BY DEF SmallestHoles, Holes
<1>4. HeapKept \subseteq HeapKept' /\ Now' = Now
  BY <1>1, <1>2, <1>3 DEF HeapKept, Kept, HeapPages, Now
<1> QED BY <1>1, <1>4, IdleGoesOn

\* It gives one back, which was not kept.
LEMMA FreeOtherGoesOn ==
  ASSUME Working, MapsFit, OrderFits, NEW p \in others, FreeOther(p)
  PROVE  MapsFit' /\ OrderFits'
<1>1. /\ todo = <<>> /\ todo' = todo /\ heap' = heap \ {p} /\ others' = others \ {p}
      /\ UNCHANGED <<placement, placed, directories, pages, kernel, tasks, frames, wand>>
  BY DEF FreeOther, IsIdle, making, spaces
<1>2. HeapKept \subseteq HeapKept' /\ Now' = Now
  BY <1>1 DEF HeapKept, Kept, HeapPages, Now
<1> QED BY <1>1, <1>2, IdleGoesOn

\* A core is dumped, in pages of the heap that are kept by nothing.
LEMMA DumpCoreGoesOn ==
  ASSUME Working, MapsFit, OrderFits, NEW i \in DOMAIN tasks, DumpCore(i), halted' = "no"
  PROVE  MapsFit' /\ OrderFits'
<1>1. /\ todo = <<>> /\ todo' = todo /\ others' = others /\ \E S : heap' = heap \cup S
      /\ UNCHANGED <<placement, placed, directories, pages, kernel, tasks, frames, wand>>
  <2> DEFINE d == tasks[i].directory
             n == PagesFor(CoreSize(d))
  <2>1. IsIdle /\ ~Panic("no_hole")
    BY DEF DumpCore, Panic
  <2>2. /\ \E p \in SmallestHoles(2 + 2 * n), offset \in 0 .. PageSize - 1 :
             heap' = heap \cup (p + 2 + n .. p + 1 + 2 * n)
        /\ UNCHANGED <<placement, placed, spaces, frames, others, tasks, target, wand, todo, halted>>
    BY <2>1 DEF DumpCore
  <2> QED BY <2>1, <2>2 DEF IsIdle, spaces
<1>2. HeapKept \subseteq HeapKept' /\ Now' = Now
  BY <1>1 DEF HeapKept, Kept, HeapPages, Now
<1> QED BY <1>1, <1>2, IdleGoesOn

\* What is left, when the first thing is done, is what was behind it.
LEMMA ShiftIs ==
  ASSUME NEW S, NEW s \in Seq(S), s # <<>>, NEW u \in Seq(S), NEW program, GoesOn(u, 1, s, program)
  PROVE  /\ \A i \in DOMAIN u : i + 1 \in DOMAIN s /\ i + 1 # 1 /\ u[i] = s[i + 1]
         /\ \A j \in DOMAIN s : j # 1 => j - 1 \in DOMAIN u /\ u[j - 1] = s[j]
<1>1. /\ Len(s) \in Nat \ {0} /\ Len(u) = Len(s) - 1 /\ DOMAIN u = 1 .. Len(u)
      /\ DOMAIN s = 1 .. Len(s)
      /\ \A i \in DOMAIN u : i + 1 \in DOMAIN s /\ (i + 1 # 1 => u[i] = s[i + 1])
  BY DEF GoesOn
<1>2. \A i \in DOMAIN u : i + 1 # 1
  BY <1>1
<1>3. ASSUME NEW j \in DOMAIN s, j # 1 PROVE j - 1 \in DOMAIN u /\ u[j - 1] = s[j]
  <2>1. j - 1 \in DOMAIN u /\ (j - 1) + 1 = j
    BY <1>1, <1>3
  <2> QED BY <1>1, <1>3, <2>1
<1> QED BY <1>1, <1>2, <1>3

\* What the kernel is at before it has a task.
LEMMA KernelItemIs ==
  ASSUME Working, NEW what, Step(what), what \in {"get_page", "identity_map", "paging"}
  PROVE  /\ tasks = <<>> /\ target = kernel /\ Now[1] \in KernelItem /\ TaskProgram = Initial
         /\ (what # "paging" => PageAtHand = Now[1].page)
         /\ KernelInOrder => placement # 0 /\ BeforePaging(Now)
<1>1. Now[1] \in Items /\ Now[1].do = what /\ Now[1] = Head(todo) /\ 1 \in DOMAIN Now
  BY NowAtHand
<1>2. tasks = <<>>
  BY <1>1 DEF Items, TaskItem, DeviceItem
<1>3. Now[1] \in KernelItem
  BY <1>1, <1>2 DEF Items
<1>4. target = kernel
  BY <1>2 DEF Working, TasksFit
<1>5. what # "paging" => PageAtHand = Now[1].page
  BY <1>1 DEF PageAtHand
<1>6. ASSUME KernelInOrder PROVE placement # 0 /\ BeforePaging(Now)
  <2>1. ~AfterPaging(Now[1])
    BY <1>1 DEF AfterPaging
  <2> QED BY <1>1, <1>2, <1>6, <2>1 DEF KernelInOrder
<1> QED BY <1>2, <1>3, <1>4, <1>5, <1>6, KernelProgram

\* Paging stays ahead of the kernel's stack.
LEMMA PagingStaysAhead ==
  ASSUME NEW s, NEW k \in {0, 1}, NEW u, NEW S, s \in Seq(S), u \in Seq(S), NEW program,
         GoesOn(u, k, s, program), PagingAhead(s)
  PROVE  PagingAhead(u)
<1>1. DOMAIN u = 1 .. Len(u) /\ DOMAIN s = 1 .. Len(s) /\ k \in Nat
  OBVIOUS
<1>2. ASSUME NEW i \in DOMAIN u, NEW j \in DOMAIN u, i < j
      PROVE  /\ u[i].do = "paging" => AfterPaging(u[j])
             /\ u[i].do = "identity_map" => u[j].do # "get_page"
  <2>1. i + k \in DOMAIN s /\ s[i + k].do = u[i].do
    BY <1>2 DEF GoesOn
  <2>2. j + k # 1 /\ i + k < j + k
    BY <1>1, <1>2
  <2>3. j + k \in DOMAIN s /\ u[j] = s[j + k]
    BY <2>2 DEF GoesOn
  <2>4. PICK a, b : a = i + k /\ b = j + k
    OBVIOUS
  <2>5. a \in DOMAIN s /\ b \in DOMAIN s /\ a < b /\ s[a].do = u[i].do /\ s[b] = u[j]
    BY <2>1, <2>2, <2>3, <2>4
  <2>6. /\ s[a].do = "paging" => AfterPaging(s[b])
        /\ s[a].do = "identity_map" => s[b].do # "get_page"
    BY <2>5 DEF PagingAhead
  <2> QED BY <2>5, <2>6
<1> QED BY <1>2 DEF PagingAhead

\* The first loop of setPaging.
LEMMA GetPageGoesOn ==
  ASSUME Working, MapsFit, OrderFits, GetPage
  PROVE  MapsFit' /\ OrderFits'
<1>1. /\ Step("get_page") /\ Done /\ TableOf(target, PageAtHand) # 0
      /\ UNCHANGED <<placement, placed, heap, directories, pages, kernel, tasks, frames, wand, others>>
  BY DEF GetPage, OnPage, spaces, making, allocation
<1>2. /\ Now \in Seq(Items) /\ Now # <<>> /\ Now[1].do = "get_page"
      /\ Tail(Now) \in Seq(Items) /\ GoesOn(Tail(Now), 1, Now, TaskProgram)
      /\ Now' = Tail(Now)
  BY <1>1, NowAtHand
<1>3. /\ tasks = <<>> /\ TableOf(kernel, Now[1].page) # 0 /\ TaskProgram = Initial
      /\ placement # 0 /\ BeforePaging(Now)
  BY <1>1, KernelItemIs DEF OrderFits
<1>4. HeapKept \subseteq HeapKept'
  BY <1>1 DEF HeapKept, Kept, HeapPages
<1>5. /\ \A i \in DOMAIN Now' : i + 1 \in DOMAIN Now /\ i + 1 # 1 /\ Now'[i] = Now[i + 1]
      /\ \A j \in DOMAIN Now : j # 1 => j - 1 \in DOMAIN Now' /\ Now'[j - 1] = Now[j]
      /\ DOMAIN Now' \subseteq Nat
  BY <1>2, ShiftIs
<1>6. \A d, p : FrameOf(d, p)' = FrameOf(d, p) /\ TableOf(d, p)' = TableOf(d, p)
  BY <1>1 DEF FrameOf, TableOf
<1>7. MapsInRow(Now)'
  <2>1. ASSUME NEW i \in DOMAIN Now', Now'[i].do = "identity_map"
        PROVE  frames = 0 .. Now'[i].page - 1 /\ \A p \in frames : Identity(p)
    BY <1>3, <1>5, <2>1 DEF BeforePaging, MapsInRow
  <2> QED BY <1>1, <1>6, <2>1 DEF MapsInRow, Identity
<1>8. HasMapped(Now)'
  <2>1. ASSUME NEW j \in DOMAIN Now, Now[j].do = "identity_map", NoIdentity(Now') PROVE FALSE
    <3>1. j # 1
      BY <1>2, <2>1
    <3> QED BY <1>5, <2>1, <3>1 DEF NoIdentity
  <2>2. 1 \in DOMAIN Now
    BY <1>2
  <2>3. ~NoIdentity(Now)
    BY <1>2, <1>3, <2>2 DEF BeforePaging, HasMapped
  <2>4. ~NoIdentity(Now')
    BY <2>1, <2>3 DEF NoIdentity
  <2> QED BY <2>4 DEF HasMapped, NoIdentity
<1>9. HasTables(Now)'
  <2>1. ASSUME NEW p \in HeapPages, TableOf(kernel, p) = 0
        PROVE  \E i \in DOMAIN Now' : Now'[i].do = "get_page" /\ Now'[i].page = p
    <3>1. PICK j \in DOMAIN Now : Now[j].do = "get_page" /\ Now[j].page = p
      BY <1>3, <2>1 DEF BeforePaging, HasTables
    <3>2. j # 1
      BY <1>3, <2>1, <3>1
    <3> QED BY <1>5, <3>1, <3>2
  <2>2. \A p : TableOf(kernel, p)' = TableOf(kernel, p)
    BY <1>1, <1>6
  <2> QED BY <2>1, <2>2 DEF HasTables, HeapPages
<1>10. PagingAhead(Now)'
  <2>1. PagingAhead(Tail(Now))
    BY <1>2, <1>3, PagingStaysAhead DEF BeforePaging
  <2> QED BY <1>2, <2>1 DEF PagingAhead, AfterPaging
<1>11. HeapAhead(Now)'
  <2> DEFINE F == FramesOf(kernel)
  <2>1. F' = F /\ frames' = frames
    BY <1>1, <1>6 DEF FramesOf
  <2>2. InOrder(Now, Initial, HeapPairs, F, frames)
    BY <1>3 DEF BeforePaging, HeapAhead
  <2> HIDE DEF F
  <2>3. \A p : ~Touches(Now[1], Initial, p)
    BY <1>2 DEF Touches
  <2>4. HeapPairs \subseteq EveryPage /\ \A p \in HeapPairs : p + 1 \in EveryPage
    BY HeapPairsAre
  <2>5. InOrder(Tail(Now), Initial, HeapPairs, F, frames)
    BY <1>2, <1>3, <2>2, <2>3, <2>4, SkipKeepsOrder
  <2>6. InOrder(Now', Initial, HeapPairs, F', frames')
    BY <1>2, <2>1, <2>5
  <2> QED BY <2>6 DEF F, HeapAhead, InOrder, NotTouched, HeapPairs
<1>12. BeforePaging(Now)'
  BY <1>7, <1>8, <1>9, <1>10, <1>11 DEF BeforePaging
<1>13. KernelInOrder'
  BY <1>1, <1>3, <1>12 DEF KernelInOrder
<1> QED BY <1>1, <1>2, <1>4, <1>13, QuietKeeps

\* mapPhysicalMem has been asked for: what it will map is of a device.
LEMMA MapPhysicalMemGoesOn ==
  ASSUME Working, MapsFit, OrderFits, NEW s \in DevicePages, MapPhysicalMem(s)
  PROVE  MapsFit' /\ OrderFits'
<1>1. /\ todo = <<>>
      /\ todo' = [j \in DOMAIN s |-> [do |-> "device", page |-> s[j], frame |-> DeviceFrame + j]]
      /\ UNCHANGED <<placement, placed, heap, directories, pages, kernel, tasks, frames, wand, others>>
  BY DEF MapPhysicalMem, IsIdle, spaces, allocation
<1>2. tasks # <<>>
  BY <1>1, IdleIs
<1>3. HeapKept \subseteq HeapKept'
  BY <1>1 DEF HeapKept, Kept, HeapPages
<1>4. Now = <<>>
  <2>1. <<>> \in Seq({})
    OBVIOUS
  <2> QED BY <1>1, <2>1, NothingNow DEF Now
<1>5. Now' = todo' /\ \A j \in DOMAIN todo' : todo'[j].do = "device"
  <2> DEFINE S == {[do |-> "device", page |-> s[j], frame |-> DeviceFrame + j] : j \in DOMAIN s}
             items == [j \in DOMAIN s |-> [do |-> "device", page |-> s[j], frame |-> DeviceFrame + j]]
  <2>1. s \in Seq(Nat)
    BY LayoutAssumption
  <2>2. DOMAIN s = 1 .. Len(s) /\ Len(s) \in Nat
    BY <2>1
  <2>3. items \in [1 .. Len(s) -> S]
    BY <2>2
  <2>4. \A j \in DOMAIN items : items[j].do = "device"
    OBVIOUS
  <2> HIDE DEF items, S
  <2>5. items \in Seq(S)
    BY <2>2, <2>3, IsSequence
  <2>6. <<>> \in Seq(S) /\ items \o <<>> = items
    BY <2>5
  <2>7. \A j \in DOMAIN items : items[j].do \notin {"clone", "switch"}
    BY <2>4
  <2>8. SubSeq(items \o <<>>, 1, Extent(items \o <<>>)) = items
    BY <2>5, <2>6, <2>7, ExtentIs
  <2>9. todo' = items
    BY <1>1 DEF items
  <2> QED BY <2>4, <2>6, <2>8, <2>9 DEF Now
<1>6. \A d, p : FrameOf(d, p)' = FrameOf(d, p) /\ TableOf(d, p)' = TableOf(d, p)
  BY <1>1 DEF FrameOf, TableOf
<1>7. MapsFit'
  <2>1. \A p \in HeapPages : Home(p)' = Home(p)
    BY <1>1, <1>6 DEF Home, FrameOf, TableOf
  <2>2. KernelSeesTheSame(IdentityPages)
    BY <1>1, <1>6 DEF KernelSeesTheSame, FrameOf, TableOf
  <2>3. FramesInRow'
    BY <1>1 DEF MapsFit, FramesInRow
  <2> QED BY <1>1, <1>3, <2>1, <2>2, <2>3, MapsStay DEF Working
<1>8. ASSUME NEW i \in DOMAIN tasks PROVE TaskInOrder(tasks[i], AtHandOf(i))'
  <2> DEFINE program == tasks[i].program
             F == FramesOf(tasks[i].directory)
             u == AtHandOf(i)'
  <2>1. tasks' = tasks /\ frames' = frames
    BY <1>1
  <2>2. AtHandOf(i) = <<>>
    BY <1>4 DEF AtHandOf
  <2>3. \A j \in DOMAIN u : u[j].do = "device"
    BY <1>5, <2>1 DEF AtHandOf
  <2>4. TaskInOrder(tasks[i], <<>>)
    BY <2>2 DEF OrderFits, TasksInOrder
  <2>5. F' = F
    BY <1>6, <2>1 DEF FramesOf
  <2>6. CASE program.kind = "initial"
    <3>1. \A p \in TaskPages : FrameOf(tasks[i].directory, p)' = NoFrame
      BY <1>6, <2>1, <2>4, <2>6 DEF TaskInOrder, NoFrame
    <3> QED BY <2>1, <2>3, <2>6, <3>1 DEF TaskInOrder, NoFrame
  <2>7. CASE program.kind # "initial"
    <3> DEFINE P == PairsOf(program)
    <3>1. InOrder(<<>>, program, P, F, frames)
      BY <2>4, <2>7 DEF TaskInOrder
    <3> HIDE DEF F
    <3>2. ASSUME NEW j \in DOMAIN u, NEW p PROVE ~Touches(u[j], program, p)
      BY <2>3 DEF Touches
    <3> HIDE DEF u
    <3>3. InOrder(u, program, P, F, frames)
      <4>1. \A p \in P : F[p + 1] = F[p] + 1
        BY <3>1 DEF InOrder, NotTouched
      <4> QED BY <3>2, <4>1 DEF InOrder, NotTouched
    <3>4. TaskInOrder(tasks[i], AtHandOf(i))' <=> InOrder(u, program, P, F', frames')
      BY <2>1, <2>7 DEF TaskInOrder, InOrder, NotTouched, PairsOf, u, F
    <3> QED BY <2>1, <2>5, <3>3, <3>4
  <2> QED BY <2>6, <2>7
<1>9. OrderFits'
  BY <1>1, <1>2, <1>8 DEF OrderFits, TasksInOrder, KernelInOrder
<1> QED BY <1>7, <1>9

\* A page that the kernel has a table for is the same in every directory.
LEMMA KernelPageIs ==
  ASSUME SpacesFit, SharedTables, NEW d \in DOMAIN directories, NEW p \in EveryPage,
         TableOf(kernel, p) # 0
  PROVE  TableOf(d, p) = TableOf(kernel, p) /\ FrameOf(d, p) = FrameOf(kernel, p)
<1>1. p \div Entries \in AllTables
  BY EveryPageIs
<1>2. TableOf(d, p) = TableOf(kernel, p)
  BY <1>1 DEF SharedTables, TableOf
<1> QED BY <1>2 DEF FrameOf

\* What is done for a task, or for a device.
LEMMA TaskItemIs ==
  ASSUME Working, NEW what, Step(what),
         what \in {"take_wand", "copy", "put_wand_back", "arguments", "device"}
  PROVE  tasks # <<>> /\ placement = 0 /\ active \in DOMAIN directories
<1>1. Now[1] \in Items /\ Now[1].do = what
  BY NowAtHand
<1>2. tasks # <<>>
  BY <1>1 DEF Items, KernelItem
<1> QED BY <1>2 DEF Working, TasksFit

\* The wand borrows a page of the heap, whose frame it notes.
LEMMA TakeWandGoesOn ==
  ASSUME Working, MapsFit, OrderFits, TakeWand
  PROVE  MapsFit' /\ OrderFits' /\ KeepFrames
<1>1. /\ Step("take_wand") /\ Done
      /\ UNCHANGED <<directories, pages, kernel, tasks, frames, others>>
  BY DEF TakeWand, spaces
<1>2. /\ Now \in Seq(Items) /\ Now # <<>> /\ Now[1].do = "take_wand"
      /\ Tail(Now) \in Seq(Items) /\ GoesOn(Tail(Now), 1, Now, TaskProgram)
      /\ Now' = Tail(Now)
  BY <1>1, NowAtHand
<1>3. tasks # <<>> /\ placement = 0 /\ active \in DOMAIN directories
  BY <1>1, TaskItemIs
<1>4. wand = NoWand
  <2>1. PICK rest : Doing(Now, rest)
    BY <1>1, NowAtHand
  <2> QED BY <1>2, <2>1, WandChanges
<1>5. PICK a \in Addresses(PageSize) :
        /\ AllocAligned(PageSize, a)
        /\ wand' = [page |-> a \div PageSize, frame |-> FrameOf(active, a \div PageSize)]
  BY DEF TakeWand
<1>6. /\ placement' = placement /\ placed' = placed /\ a \div PageSize \in HeapPages
      /\ HeapKept \subseteq HeapKept' /\ wand'.page = a \div PageSize
      /\ wand'.frame = FrameOf(active, a \div PageSize)
  <2>1. PageSize \in Nat \ {0} /\ wand'.page = a \div PageSize
           /\ wand'.frame = FrameOf(active, a \div PageSize)
    BY <1>5, MemoryAssumption
  <2> QED BY <1>1, <1>3, <1>5, <2>1, HeapGives DEF Working
<1>7. ASSUME NEW p \in HeapPages PROVE Home(p)' = Home(p)
  <2>1. Home(p) = FrameOf(kernel, p)
    BY <1>4, HeapPairsAre DEF Home, NoWand
  <2>2. FrameOf(kernel, p)' = FrameOf(kernel, p)
    BY <1>1 DEF FrameOf, TableOf
  <2>3. FrameOf(active, p) = FrameOf(kernel, p)
    BY <1>3, HeapPairsAre, KernelPageIs DEF Working, MapsFit, KernelPaged
  <2> QED BY <1>6, <2>1, <2>2, <2>3 DEF Home
<1>8. KernelInOrder'
  BY <1>1, <1>3 DEF KernelInOrder
<1>9. KeepFrames
  BY <1>1, <1>7, FramesAreKept
<1> QED BY <1>1, <1>2, <1>6, <1>7, <1>8, <1>9, QuietKeeps

-----------------------------------------------------------------------------
(* Steps that give pages frames.                                           *)

\* The frames are taken in order, and the next is the first that is free.
LEMMA FreeIsNext ==
  ASSUME FramesInRow, FreeFrames # {}
  PROVE  /\ FreeFrame \in Nat /\ frames = 0 .. FreeFrame - 1
         /\ SetFrame(FreeFrame) = 0 .. FreeFrame
<1>1. PICK k \in Nat : frames = 0 .. k - 1
  BY DEF FramesInRow
<1>2. PICK f \in FreeFrames : TRUE
  OBVIOUS
<1> DEFINE n == Words * WordBits - 1
<1>3. FreeFrames = (0 .. n) \ (0 .. k - 1)
  BY <1>1 DEF FreeFrames
<1>8. n \in Int
  <2>1. Words \in Nat /\ WordBits \in Nat
    BY MemoryAssumption, QuotientAndRest DEF Words
  <2> QED BY <2>1, ProductOrder
<1> HIDE DEF n
<1>4. k \in FreeFrames /\ FreeFrames \subseteq Nat /\ \A g \in FreeFrames : k <= g
  <2>1. \A g \in FreeFrames : g \in 0 .. n /\ g \in Nat /\ k <= g
    BY <1>1, <1>3
  <2>2. f \in 0 .. n /\ k <= f /\ f \in Nat
    BY <2>1
  <2>3. k \in 0 .. n
    BY <1>1, <1>8, <2>2
  <2> QED BY <1>1, <1>3, <2>1, <2>3
<1>5. FreeFrame = CHOOSE x \in FreeFrames : \A y \in FreeFrames : x <= y
  BY DEF FreeFrame, Min
<1>6. FreeFrame \in FreeFrames /\ FreeFrame <= k
  BY <1>4, <1>5
<1>7. FreeFrame = k
  BY <1>1, <1>4, <1>6
<1> QED BY <1>1, <1>7 DEF SetFrame

\* Frames are numbers, after a step too.
LEMMA FramesAreNumbers ==
  ASSUME SpacesFit', NEW d \in DOMAIN directories', NEW p \in EveryPage
  PROVE  FrameOf(d, p)' \in Nat
<1>1. p \div Entries \in AllTables /\ p % Entries \in Positions
  BY EveryPageIs
<1>2. pages' \in [DOMAIN pages' -> [Positions -> Nat]]
  BY DEF SpacesFit
<1>3. directories'[d].tables \in [AllTables -> {0} \cup DOMAIN pages']
  BY DEF SpacesFit, Directory
<1>4. directories'[d].tables[p \div Entries] \in {0} \cup DOMAIN pages'
  BY <1>1, <1>3
<1>5. NoFrame \in Nat
  BY MemoryAssumption DEF NoFrame
<1> QED BY <1>1, <1>2, <1>4, <1>5 DEF FrameOf, TableOf

\* A page of the target gets a frame.
LEMMA MapsPage ==
  ASSUME Working, MapsFit, NEW page \in EveryPage, NEW f \in Nat, TableOf(target, page) # 0,
         Map(target, page, f), UNCHANGED <<directories, kernel, target>>
  PROVE  /\ SpacesFit' /\ target \in DOMAIN directories
         /\ \A d \in DOMAIN directories : \A p \in EveryPage : TableOf(d, p)' = TableOf(d, p)
         /\ \A d \in DOMAIN directories : \A p \in EveryPage :
              p # page => FrameOf(d, p)' = FrameOf(d, p)
         /\ FrameOf(target, page)' = f
         /\ TableOf(kernel, page) = 0 =>
              \A d \in DOMAIN directories \ {target} : FrameOf(d, page)' = FrameOf(d, page)
<1>1. page % Entries \in Positions /\ target \in DOMAIN directories
  BY EveryPageIs, TargetIs DEF Working
<1>2. pages' = [pages EXCEPT ![TableOf(target, page)][page % Entries] = f]
  BY DEF Map
<1>3. SpacesFit'
  BY <1>1, <1>2, MapKeepsSpaces DEF Working
<1>4. IsGiven(pages, pages', TableOf(target, page), page % Entries, f)
  <2>1. pages \in [DOMAIN pages -> [Positions -> Nat]]
    BY DEF Working, SpacesFit
  <2> QED BY <1>1, <1>2, <2>1, EntryChanges
<1>5. /\ \A d \in DOMAIN directories : \A p \in EveryPage : TableOf(d, p)' = TableOf(d, p)
      /\ \A d \in DOMAIN directories : \A p \in EveryPage :
           p # page \/ TableOf(d, p) # TableOf(target, page) => FrameOf(d, p)' = FrameOf(d, p)
      /\ \A d \in DOMAIN directories :
           TableOf(d, page) = TableOf(target, page) => FrameOf(d, page)' = f
      /\ TableOf(kernel, page) = 0 =>
           \A d \in DOMAIN directories \ {target} : TableOf(d, page) # TableOf(target, page)
  BY <1>1, <1>3, <1>4, MapChanges DEF Working, MapsFit
<1>6. ASSUME NEW d \in DOMAIN directories, NEW p \in EveryPage, p # page
      PROVE  FrameOf(d, p)' = FrameOf(d, p)
  BY <1>5, <1>6
<1>7. FrameOf(target, page)' = f
  <2>1. PICK o : o = target
    OBVIOUS
  <2>2. FrameOf(o, page)' = f
    BY <1>1, <1>5, <2>1
  <2> QED BY <1>1, <2>1, <2>2 DEF FrameOf
<1>8. ASSUME TableOf(kernel, page) = 0, NEW d \in DOMAIN directories \ {target}
      PROVE  FrameOf(d, page)' = FrameOf(d, page)
  BY <1>5, <1>8
<1> QED BY <1>1, <1>3, <1>5, <1>6, <1>7, <1>8

\* A page of the last task is mapped: its pages are still in order.
LEMMA TaskMapKeepsOrder ==
  ASSUME Working, SpacesFit', TasksInOrder, tasks # <<>>, UNCHANGED <<tasks, directories>>,
         NEW k \in {0, 1}, Now \in Seq(Items), Now' \in Seq(Items), Now # <<>>,
         GoesOn(Now', k, Now, TaskProgram), Now[1].do # "device", ItemsApart(Now, TaskProgram),
         NEW page \in EveryPage, IsMapped(Now, Now', k, TaskProgram, page),
         NEW f \in Nat, frames = 0 .. f - 1, frames' = 0 .. f, FrameOf(target, page)' = f,
         target' = target,
         \A i \in DOMAIN tasks : \A p \in TaskPages :
           i # Len(tasks) \/ p # page =>
             FrameOf(tasks[i].directory, p)' = FrameOf(tasks[i].directory, p)
  PROVE  TasksInOrder'
<1>1. ASSUME NEW i \in DOMAIN tasks PROVE TaskInOrder(tasks[i], AtHandOf(i))'
  <2> DEFINE d == tasks[i].directory
             program == tasks[i].program
             P == PairsOf(program)
             F == FramesOf(d)
             G == FramesOf(d)'
             u == AtHandOf(i)'
  <2>1. /\ program \in TaskPrograms /\ tasks[i]' = tasks[i] /\ d \in DOMAIN directories
        /\ d \in DOMAIN directories'
    BY TaskIs DEF Working
  <2>2. TaskInOrder(tasks[i], AtHandOf(i))
    BY DEF TasksInOrder
  <2>3. program.kind # "initial" =>
          /\ P \subseteq EveryPage
          /\ \A p \in P : p \in TaskPages /\ p + 1 \in TaskPages /\ p + 1 \in EveryPage
    <3>1. program.kind # "initial" => program \in AllPrograms
      BY <2>1 DEF TaskPrograms, Initial
    <3> QED BY <3>1, PairsAre
  <2>4. program.kind # "initial" =>
          (TaskInOrder(tasks[i], AtHandOf(i))' <=> InOrder(u, program, P, G, frames'))
    BY <2>1 DEF TaskInOrder, InOrder, NotTouched, PairsOf
  <2>5. CASE i # Len(tasks)
    <3>1. AtHandOf(i) = <<>> /\ u = <<>>
      BY <2>5 DEF AtHandOf
    <3>2. \A p \in TaskPages : FrameOf(d, p)' = FrameOf(d, p)
      BY <2>5
    <3>3. CASE program.kind = "initial"
      <4>1. \A p \in TaskPages : FrameOf(d, p)' = NoFrame
        BY <2>2, <3>2, <3>3 DEF TaskInOrder
      <4> QED BY <2>1, <3>1, <3>3, <4>1 DEF TaskInOrder, NoFrame
    <3>4. CASE program.kind # "initial"
      <4>1. InOrder(<<>>, program, P, F, frames)
        BY <2>2, <3>1, <3>4 DEF TaskInOrder
      <4>2. \A p \in P : G[p] = F[p] /\ G[p + 1] = F[p + 1]
        BY <2>3, <3>2, <3>4 DEF FramesOf
      <4> HIDE DEF F, G, P
      <4>3. InOrder(<<>>, program, P, G, frames')
        BY <4>1, <4>2 DEF InOrder, NotTouched
      <4> QED BY <2>4, <3>1, <3>4, <4>3
    <3> QED BY <3>3, <3>4
  <2>6. CASE i = Len(tasks)
    <3>1. AtHandOf(i) = Now /\ u = Now'
      BY <2>6 DEF AtHandOf
    <3>2. d = target /\ program = TaskProgram
      BY <2>6, ProgramIs DEF Working, TasksFit, TaskProgram
    <3>3. program.kind # "initial"
      <4>1. 1 \in DOMAIN Now
        OBVIOUS
      <4> QED BY <2>2, <3>1, <4>1 DEF TaskInOrder
    <3>4. InOrder(Now, program, P, F, 0 .. f - 1)
      BY <2>2, <3>1, <3>3 DEF TaskInOrder
    <3>5. F \in [EveryPage -> Nat]
      <4>1. \A p \in EveryPage : FrameOf(d, p) \in Nat
        BY <2>1, FrameIs DEF Working
      <4> QED BY <4>1 DEF FramesOf
    <3>6. G \in [EveryPage -> Nat]
      <4>1. \A p \in EveryPage : FrameOf(d, p)' \in Nat
        <5>1. PICK e : e = d
          OBVIOUS
        <5>2. \A p \in EveryPage : FrameOf(e, p)' \in Nat
          BY <2>1, <5>1, FramesAreNumbers
        <5>3. d' = e
          BY <2>1, <5>1
        <5> QED BY <5>2, <5>3
      <4> QED BY <4>1 DEF FramesOf
    <3>7. G[page] = f
      BY <2>1, <3>2 DEF FramesOf
    <3>8. \A p \in P : /\ p # page => G[p] = F[p]
                       /\ p + 1 # page => G[p + 1] = F[p + 1]
      BY <2>3, <3>3 DEF FramesOf
    <3>9. P \subseteq EveryPage /\ \A p \in P : p + 1 \in EveryPage
      BY <2>3, <3>3
    <3> HIDE DEF F, G, P
    <3>10. GoesOn(Now', k, Now, program) /\ ItemsApart(Now, program)
           /\ IsMapped(Now, Now', k, program, page)
      BY <3>2
    <3>11. InOrder(Now', program, P, G, 0 .. f)
      <4>1. PICK a, b, prog : a = Now /\ b = Now' /\ prog = program
        OBVIOUS
      <4>2. /\ a \in Seq(Items) /\ a # <<>> /\ b \in Seq(Items) /\ GoesOn(b, k, a, prog)
            /\ ItemsApart(a, prog) /\ IsMapped(a, b, k, prog, page)
            /\ InOrder(a, prog, P, F, 0 .. f - 1)
        BY <3>4, <3>10, <4>1
      <4>3. PairsIn(P)
        BY <3>9 DEF PairsIn
      <4>4. GetsFrame(F, G, P, page, f)
        BY <3>5, <3>6, <3>7, <3>8 DEF GetsFrame
      <4>5. InOrder(b, prog, P, G, 0 .. f)
        BY <4>2, <4>3, <4>4, MapKeepsOrder
      <4> QED BY <4>1, <4>5
    <3> QED BY <2>4, <3>1, <3>3, <3>11
  <2> QED BY <2>5, <2>6
<1> QED BY <1>1 DEF TasksInOrder

\* What maps a page maps no other.
LEMMA MapIsMapped ==
  ASSUME NEW s, NEW u, NEW program, s[1].do = "map", s[1].page \in EveryPage
  PROVE  /\ IsMapped(s, u, 1, program, s[1].page)
         /\ \A p : Touches(s[1], program, p) <=> p = s[1].page
<1>1. \A p : Touches(s[1], program, p) <=> p = s[1].page
  BY DEF Touches
<1> DEFINE page == s[1].page
<1>2. page \in Nat
  BY EveryPageIs
<1>3. \A p \in EveryPage : p \in Nat
  BY EveryPageIs
<1> HIDE DEF page
<1>4. \A p : Touches(s[1], program, p) <=> p = page
  BY <1>1 DEF page
<1>5. Touches(s[1], program, page)
  BY <1>4
<1>6. \A p \in EveryPage : Touches(s[1], program, p) => page <= p
  BY <1>2, <1>4
<1>7. \A p \in EveryPage : page <= p /\ Touches(s[1], program, p + 1) => Touches(s[1], program, p)
  <2>1. ASSUME NEW p \in EveryPage, page <= p, p + 1 = page PROVE FALSE
    BY <1>2, <1>3, <2>1
  <2> QED BY <1>4, <2>1
<1>8. IsMapped(s, u, 1, program, page)
  BY <1>4, <1>5, <1>6, <1>7 DEF IsMapped
<1> QED BY <1>1, <1>8 DEF page

\* What is below the end of the identity mapping is a page of it.
LEMMA BelowIdentityEnd ==
  ASSUME placement \in Nat, PlacementFits, NEW p \in Nat, p * PageSize < IdentityEnd
  PROVE  p \in IdentityPages
<1>1. PICK n \in ModuleSizes : placement + HeapObject <= PlacementEnd(n)
  BY PlacementIsLow
<1>2. placement + HeapObject <= HeapStart * PageSize
  BY PlacementIsLow
<1>3. /\ PageSize \in Nat \ {0} /\ HeapStart \in Nat /\ HeapObject \in Nat
      /\ PlacementEnd(n) \in Nat
  BY MemoryAssumption, IdentityPagesAre
<1> DEFINE e == PlacementEnd(n)
           h == HeapStart * PageSize
           b == p * PageSize
<1>4. h \in Nat /\ b \in Nat /\ e \in Nat
  BY <1>3, ProductOrder
<1>5. b < placement + HeapObject /\ placement + HeapObject <= e /\ placement + HeapObject <= h
  BY <1>1, <1>2 DEF IdentityEnd
<1> HIDE DEF e, h, b
<1>6. b < e /\ b < h
  BY <1>3, <1>4, <1>5
<1>7. ASSUME HeapStart <= p PROVE FALSE
  <2>1. h <= b
    BY <1>3, <1>7, ProductOrder DEF h, b
  <2> QED BY <1>4, <1>6, <2>1
<1>8. p \in 0 .. HeapStart - 1 /\ p * PageSize < PlacementEnd(n)
  BY <1>3, <1>6, <1>7 DEF b, e
<1> QED BY <1>8 DEF IdentityPages

\* Frames of the kernel, before and after a page of it is mapped.
LEMMA KernelFramesAre ==
  ASSUME Working, SpacesFit', kernel' = kernel, NEW page \in EveryPage,
         \A p \in EveryPage : p # page => FrameOf(kernel, p)' = FrameOf(kernel, p),
         NEW f, FrameOf(kernel, page)' = f, NEW F, F = FramesOf(kernel), NEW G, G = FramesOf(kernel)'
  PROVE  GetsFrame(F, G, HeapPairs, page, f) /\ PairsIn(HeapPairs)
<1>1. kernel \in DOMAIN directories /\ kernel \in DOMAIN directories'
  BY DEF Working, SpacesFit
<1>2. \A p \in EveryPage : FrameOf(kernel, p) \in Nat
  BY <1>1, FrameIs DEF Working
<1>3. \A p \in EveryPage : FrameOf(kernel, p)' \in Nat
  <2>1. PICK d : d = kernel
    OBVIOUS
  <2>2. \A p \in EveryPage : FrameOf(d, p)' \in Nat
    BY <1>1, <2>1, FramesAreNumbers
  <2>3. kernel' = d
    BY <2>1
  <2> QED BY <2>2, <2>3
<1>4. F \in [EveryPage -> Nat] /\ G \in [EveryPage -> Nat] /\ G[page] = f
  BY <1>2, <1>3 DEF FramesOf
<1>5. HeapPairs \subseteq EveryPage /\ \A p \in HeapPairs : p + 1 \in EveryPage
  BY HeapPairsAre
<1>6. \A p \in EveryPage : p # page => G[p] = F[p]
  BY DEF FramesOf
<1>7. \A p \in HeapPairs : (p # page => G[p] = F[p]) /\ (p + 1 # page => G[p + 1] = F[p + 1])
  BY <1>5, <1>6
<1> QED BY <1>4, <1>5, <1>7 DEF GetsFrame, PairsIn

\* Before paging, a page of the kernel is mapped: what is ahead is still in order.
LEMMA KernelMapKeepsOrder ==
  ASSUME Working, SpacesFit', tasks = <<>>, UNCHANGED <<tasks, kernel>>, HeapAhead(Now),
         NEW k \in {0, 1}, Now \in Seq(Items), Now' \in Seq(Items), Now # <<>>,
         GoesOn(Now', k, Now, TaskProgram), ItemsApart(Now, TaskProgram),
         NEW page \in EveryPage, IsMapped(Now, Now', k, TaskProgram, page),
         NEW f \in Nat, frames = 0 .. f - 1, frames' = 0 .. f, FrameOf(kernel, page)' = f,
         \A p \in EveryPage : p # page => FrameOf(kernel, p)' = FrameOf(kernel, p)
  PROVE  HeapAhead(Now)'
<1>1. PICK a, b, F, G, P : a = Now /\ b = Now' /\ F = FramesOf(kernel) /\ G = FramesOf(kernel)'
                             /\ P = HeapPairs
  OBVIOUS
<1>2. GetsFrame(F, G, P, page, f) /\ PairsIn(P)
  BY <1>1, KernelFramesAre
<1>3. /\ a \in Seq(Items) /\ a # <<>> /\ b \in Seq(Items) /\ GoesOn(b, k, a, Initial)
      /\ ItemsApart(a, Initial) /\ IsMapped(a, b, k, Initial, page)
  BY <1>1, KernelProgram
<1>4. InOrder(a, Initial, P, F, 0 .. f - 1)
  BY <1>1 DEF HeapAhead
<1>5. InOrder(b, Initial, P, G, 0 .. f)
  BY <1>2, <1>3, <1>4, MapKeepsOrder
<1>6. InOrder(Now', Initial, HeapPairs, FramesOf(kernel)', frames')
  BY <1>1, <1>5
<1> QED BY <1>6 DEF HeapAhead, InOrder, NotTouched, HeapPairs

\* A page that the kernel maps for itself, before paging or behind.
LEMMA KernelPageGoesOn ==
  ASSUME Working, MapsFit, OrderFits, MapPage, tasks = <<>>
  PROVE  MapsFit' /\ OrderFits' /\ KeepFrames
<1>17. PICK page, f : page = PageAtHand /\ f = FreeFrame
  OBVIOUS
<1>1. /\ Step("map") /\ Done /\ TableOf(target, page) # 0 /\ FreeFrames # {}
      /\ frames' = SetFrame(f) /\ Map(target, page, f)
      /\ UNCHANGED <<placement, placed, heap, directories, kernel, active, others, tasks, cores,
                     target, halted, wand>>
  BY <1>17 DEF MapPage, OnPage, AllocAnyFrame, allocation
<1>2. /\ Now \in Seq(Items) /\ Now # <<>> /\ Now[1].do = "map" /\ Now[1] \in Items
      /\ Tail(Now) \in Seq(Items) /\ GoesOn(Tail(Now), 1, Now, TaskProgram)
      /\ Now' = Tail(Now) /\ ItemsApart(Now, TaskProgram) /\ ItemsFit(Now)
  BY <1>1, NowAtHand
<1>3. PICK rest : Doing(Now, rest)
  BY <1>1, NowAtHand
<1>4. page \in EveryPage /\ page = Now[1].page
  BY <1>2, <1>3, <1>17, PageIs DEF Working
<1>5. f \in Nat /\ frames = 0 .. f - 1 /\ frames' = 0 .. f
  BY <1>1, <1>17, FreeIsNext DEF MapsFit
<1>6. target = kernel /\ kernel \in DOMAIN directories
  BY DEF Working, TasksFit, SpacesFit
<1>7. /\ SpacesFit'
      /\ \A d \in DOMAIN directories : \A p \in EveryPage : TableOf(d, p)' = TableOf(d, p)
      /\ \A d \in DOMAIN directories : \A p \in EveryPage :
           p # page => FrameOf(d, p)' = FrameOf(d, p)
      /\ FrameOf(target, page)' = f
  BY <1>1, <1>4, <1>5, MapsPage
<1>8. /\ \A p \in EveryPage : TableOf(kernel, p)' = TableOf(kernel, p)
      /\ \A p \in EveryPage : p # page => FrameOf(kernel, p)' = FrameOf(kernel, p)
      /\ FrameOf(kernel, page)' = f
  <2>1. PICK d : d = kernel
    OBVIOUS
  <2>2. /\ \A p \in EveryPage : TableOf(d, p)' = TableOf(d, p)
        /\ \A p \in EveryPage : p # page => FrameOf(d, p)' = FrameOf(d, p)
    BY <1>6, <1>7, <2>1
  <2>3. kernel' = d /\ target' = d /\ target = d
    BY <1>1, <1>6, <2>1
  <2> QED BY <1>7, <2>1, <2>2, <2>3
<1>9. Now[1] \in KernelItem /\ page \in HeapPages \cup ToSet(KernelStack)
  <2>1. Now[1] \in KernelItem
    BY <1>2 DEF Items
  <2> QED BY <1>2, <1>4, <2>1 DEF KernelItem
<1>10. page \notin IdentityPages
  <2>1. IdentityPages \subseteq 0 .. HeapStart - 1 /\ ToSet(KernelStack) \subseteq HeapEnd .. Tables * Entries - 1
        /\ HeapStart < HeapEnd /\ HeapStart \in Nat /\ HeapEnd \in Nat
    BY IdentityPagesAre, LayoutAssumption, MemoryAssumption
  <2>2. page \in Nat /\ page >= HeapStart
    BY <1>4, <1>9, <2>1, EveryPageIs DEF HeapPages
  <2> QED BY <2>1, <2>2
<1>11. HeapKept \subseteq HeapKept'
  BY <1>1 DEF HeapKept, Kept, HeapPages
<1>12. FramesInRow'
  <2>1. f + 1 \in Nat /\ frames' = 0 .. (f + 1) - 1
    BY <1>5
  <2> QED BY <2>1 DEF FramesInRow
<1>13. KernelSeesTheSame(IdentityPages)
  BY <1>8, <1>10, EveryPageIs DEF KernelSeesTheSame
<1>14. TasksInOrder'
  BY <1>1 DEF TasksInOrder
<1>18. TasksKeepFrames /\ frames \subseteq frames'
  <2>1. DOMAIN tasks = {} /\ frames \subseteq frames'
    BY <1>5
  <2> QED BY <2>1 DEF TasksKeepFrames
<1>15. CASE placement # 0
  <2>1. MapsFit'
    BY <1>1, <1>11, <1>12, <1>15, MapsStay DEF Working
  <2>2. BeforePaging(Now)
    BY <1>15 DEF OrderFits, KernelInOrder
  <2>3. NoIdentity(Now)
    <3>1. IdentityFits(Now, frames)
      BY <1>2 DEF ItemsFit
    <3>2. ASSUME NEW i \in DOMAIN Now, Now[i].do = "identity_map" PROVE FALSE
      <4>1. i # 1 /\ i \in Nat \ {0}
        BY <1>2, <3>2
      <4>2. 1 \in 1 .. i - 1
        BY <4>1
      <4>3. Now[1].do = "get_page"
        BY <3>1, <3>2, <4>2 DEF IdentityFits
      <4> QED BY <1>2, <4>3
    <3> QED BY <3>2 DEF NoIdentity
  <2>4. /\ \A i \in DOMAIN Now' : i + 1 \in DOMAIN Now /\ i + 1 # 1 /\ Now'[i] = Now[i + 1]
        /\ \A j \in DOMAIN Now : j # 1 => j - 1 \in DOMAIN Now' /\ Now'[j - 1] = Now[j]
    BY <1>2, ShiftIs
  <2>5. MapsInRow(Now)'
    <3>1. \A i \in DOMAIN Now' : Now'[i].do # "identity_map"
      BY <2>3, <2>4 DEF NoIdentity
    <3> QED BY <3>1 DEF MapsInRow
  <2>6. HasMapped(Now)'
    <3>1. /\ \A p \in EveryPage : p * PageSize < IdentityEnd => Identity(p)
          /\ \A i \in DOMAIN Now : Now[i].do # "get_page"
      BY <2>2, <2>3 DEF BeforePaging, HasMapped
    <3>2. \A i \in DOMAIN Now' : Now'[i].do # "get_page"
      BY <2>4, <3>1
    <3>3. ASSUME NEW p \in EveryPage, p * PageSize < IdentityEnd PROVE Identity(p)'
      <4>1. p # page
        <5>1. p \in IdentityPages
          <6>1. placement \in Nat /\ PlacementFits
            BY <1>3, <1>15, PlacementIs DEF Working, AllocationFits
          <6> QED BY <3>3, <6>1, EveryPageIs, BelowIdentityEnd
        <5> QED BY <1>10, <5>1
      <4> QED BY <1>8, <3>1, <3>3, <4>1 DEF Identity
    <3> QED BY <1>1, <3>2, <3>3 DEF HasMapped, IdentityEnd
  <2>7. HasTables(Now)'
    <3>1. \A p \in HeapPages : TableOf(kernel, p) # 0
      BY <2>2, <2>3 DEF BeforePaging, HasMapped, HasTables
    <3>2. \A p \in HeapPages : TableOf(kernel, p)' # 0
      BY <1>8, <3>1, HeapPairsAre
    <3> QED BY <3>2 DEF HasTables, HeapPages
  <2>8. PagingAhead(Now)'
    <3>1. PagingAhead(Tail(Now))
      BY <1>2, <2>2, PagingStaysAhead DEF BeforePaging
    <3> QED BY <1>2, <3>1 DEF PagingAhead, AfterPaging
  <2>9. HeapAhead(Now)'
    <3>1. IsMapped(Now, Now', 1, TaskProgram, page)
      BY <1>2, <1>4, MapIsMapped
    <3>2. HeapAhead(Now)
      BY <2>2 DEF BeforePaging
    <3> QED BY <1>1, <1>2, <1>4, <1>5, <1>7, <1>8, <3>1, <3>2, KernelMapKeepsOrder
  <2>10. KernelInOrder'
    BY <1>1, <1>15, <2>5, <2>6, <2>7, <2>8, <2>9 DEF KernelInOrder, BeforePaging
  <2>11. HeapKeepsFrames
    <3>1. ASSUME NEW p \in HeapPages, FrameOf(kernel, p) \in frames
          PROVE  FrameOf(kernel, p)' \in frames'
      <4>1. p \in EveryPage /\ f \in frames' /\ frames \subseteq frames'
        BY <1>5, HeapPairsAre
      <4> QED BY <1>8, <3>1, <4>1
    <3> QED BY <1>15, <3>1 DEF HeapKeepsFrames
  <2> QED BY <1>14, <1>18, <2>1, <2>10, <2>11 DEF OrderFits, KeepFrames
<1>16. CASE placement = 0
  <2>1. AfterPaging(Now[1])
    <3>1. 1 \in DOMAIN Now
      BY <1>2
    <3> QED BY <1>16, <3>1 DEF OrderFits, KernelInOrder
  <2>2. page \notin HeapPages
    <3>1. page \in ToSet(KernelStack)
      BY <1>2, <1>4, <2>1 DEF AfterPaging
    <3>2. ToSet(KernelStack) \subseteq HeapEnd .. Tables * Entries - 1 /\ HeapEnd \in Nat /\ HeapStart \in Nat
      BY LayoutAssumption, MemoryAssumption
    <3> QED BY <3>1, <3>2 DEF HeapPages
  <2>3. \A p \in HeapPages : Home(p)' = Home(p)
    BY <1>1, <1>8, <2>2, HeapPairsAre DEF Home
  <2>4. MapsFit'
    BY <1>1, <1>11, <1>12, <1>13, <2>3, MapsStay DEF Working
  <2>5. KernelInOrder'
    BY <1>1, <1>2, <1>16, AfterPagingStays DEF OrderFits
  <2>6. HeapKeepsFrames
    BY <1>16, <2>3 DEF HeapKeepsFrames
  <2> QED BY <1>14, <1>18, <2>4, <2>5, <2>6 DEF OrderFits, KeepFrames
<1> QED BY <1>15, <1>16

\* A page of the last task is in no other directory.
LEMMA TaskPageIs ==
  ASSUME Working, MapsFit, tasks # <<>>, NEW i \in DOMAIN tasks
  PROVE  /\ tasks[i].directory \in DOMAIN directories \ {kernel}
         /\ i = Len(tasks) => tasks[i].directory = target
         /\ i # Len(tasks) => tasks[i].directory \in DOMAIN directories \ {target}
<1>1. tasks[i].directory \in DOMAIN directories \ {kernel}
  BY TaskIs DEF Working
<1>2. target = tasks[Len(tasks)].directory /\ Len(tasks) \in DOMAIN tasks
  BY ProgramIs DEF Working, TasksFit
<1>3. ASSUME i # Len(tasks), tasks[i].directory = target PROVE FALSE
  BY <1>2, <1>3 DEF MapsFit, DirectoriesFit
<1> QED BY <1>1, <1>2, <1>3

\* A page of a task gets the first free frame.
LEMMA TaskPageGoesOn ==
  ASSUME Working, MapsFit, OrderFits, MapPage, tasks # <<>>
  PROVE  MapsFit' /\ OrderFits' /\ KeepFrames
<1>0. PICK page, f : page = PageAtHand /\ f = FreeFrame
  OBVIOUS
<1>1. /\ Step("map") /\ Done /\ TableOf(target, page) # 0 /\ FreeFrames # {}
      /\ frames' = SetFrame(f) /\ Map(target, page, f)
      /\ UNCHANGED <<placement, placed, heap, directories, kernel, active, others, tasks, cores,
                     target, halted, wand>>
  BY <1>0 DEF MapPage, OnPage, AllocAnyFrame, allocation
<1>2. /\ Now \in Seq(Items) /\ Now # <<>> /\ Now[1].do = "map" /\ Now[1] \in Items
      /\ Tail(Now) \in Seq(Items) /\ GoesOn(Tail(Now), 1, Now, TaskProgram)
      /\ Now' = Tail(Now) /\ ItemsApart(Now, TaskProgram)
  BY <1>1, NowAtHand
<1>3. PICK rest : Doing(Now, rest)
  BY <1>1, NowAtHand
<1>4. page \in EveryPage /\ page = Now[1].page
  BY <1>0, <1>2, <1>3, PageIs DEF Working
<1>5. f \in Nat /\ frames = 0 .. f - 1 /\ frames' = 0 .. f
  BY <1>0, <1>1, FreeIsNext DEF MapsFit
<1>6. /\ SpacesFit'
      /\ \A d \in DOMAIN directories : \A p \in EveryPage : TableOf(d, p)' = TableOf(d, p)
      /\ \A d \in DOMAIN directories : \A p \in EveryPage :
           p # page => FrameOf(d, p)' = FrameOf(d, p)
      /\ FrameOf(target, page)' = f
      /\ TableOf(kernel, page) = 0 =>
           \A d \in DOMAIN directories \ {target} : FrameOf(d, page)' = FrameOf(d, page)
  BY <1>1, <1>4, <1>5, MapsPage
<1>7. page \in TaskPages
  <2>1. Now[1] \in TaskItem \/ Now[1] \in DeviceItem
    BY <1>2 DEF Items
  <2>2. page \in ToSet(TaskStack) \cup ToSet(TaskHeap)
    BY <1>2, <1>4, <2>1 DEF TaskItem, DeviceItem
  <2> QED BY <2>2 DEF TaskPages
<1>8. page \notin KernelPages /\ TableOf(kernel, page) = 0
  BY <1>7, TaskPagesAre DEF Working
<1>9. ASSUME NEW i \in DOMAIN tasks, NEW p \in TaskPages, i # Len(tasks) \/ p # page
      PROVE  FrameOf(tasks[i].directory, p)' = FrameOf(tasks[i].directory, p)
  <2>1. PICK d : d = tasks[i].directory
    OBVIOUS
  <2>2. d \in DOMAIN directories /\ (i # Len(tasks) => d \in DOMAIN directories \ {target})
    BY <2>1, TaskPageIs
  <2>3. p \in EveryPage
    BY EveryPageIs
  <2>4. FrameOf(d, p)' = FrameOf(d, p)
    BY <1>6, <1>8, <1>9, <2>2, <2>3
  <2> QED BY <1>1, <2>1, <2>4
<1>10. TasksInOrder'
  <2>1. IsMapped(Now, Now', 1, TaskProgram, page)
    BY <1>2, <1>4, MapIsMapped
  <2>2. Now[1].do # "device"
    BY <1>2
  <2> QED BY <1>1, <1>2, <1>4, <1>5, <1>6, <1>9, <2>1, <2>2, TaskMapKeepsOrder DEF OrderFits
<1>11. KernelSeesTheSame(KernelPages)
  <2>1. PICK d : d = kernel
    OBVIOUS
  <2>2. d \in DOMAIN directories /\ kernel' = d
    BY <1>1, <2>1 DEF Working, SpacesFit
  <2>3. \A p \in KernelPages : p \in EveryPage /\ p # page
    BY <1>8, EveryPageIs
  <2>4. \A p \in KernelPages : TableOf(d, p)' = TableOf(d, p) /\ FrameOf(d, p)' = FrameOf(d, p)
    BY <1>6, <2>2, <2>3
  <2> QED BY <2>1, <2>2, <2>4 DEF KernelSeesTheSame
<1>12. MapsFit'
  <2>1. HeapKept \subseteq HeapKept'
    BY <1>1 DEF HeapKept, Kept, HeapPages
  <2>2. FramesInRow'
    <3>1. f + 1 \in Nat /\ frames' = 0 .. (f + 1) - 1
      BY <1>5
    <3> QED BY <3>1 DEF FramesInRow
  <2>3. \A p \in HeapPages : Home(p)' = Home(p)
    BY <1>1, <1>11, EveryPageIs DEF KernelSeesTheSame, Home
  <2>4. KernelSeesTheSame(IdentityPages)
    BY <1>11, EveryPageIs DEF KernelSeesTheSame
  <2> QED BY <1>1, <2>1, <2>2, <2>3, <2>4, MapsStay DEF Working
<1>13. KernelInOrder'
  BY <1>1 DEF KernelInOrder
<1>14. HeapKeepsFrames /\ frames \subseteq frames'
  <2>1. \A p \in HeapPages : FrameOf(kernel, p)' = FrameOf(kernel, p)
    BY <1>11, EveryPageIs DEF KernelSeesTheSame
  <2>2. frames \subseteq frames'
    BY <1>5
  <2> QED BY <1>1, <2>1, <2>2 DEF HeapKeepsFrames, Home
<1>15. ASSUME NEW i \in DOMAIN tasks, NEW p \in TaskPages, HasFrame(tasks[i].directory, p)
       PROVE  FrameOf(tasks[i].directory, p)' = FrameOf(tasks[i].directory, p)
  <2>1. i = Len(tasks) => tasks[i].directory = target
    BY TaskPageIs
  <2>2. IsUnmapped(target, page)
    BY <1>0 DEF MapPage, AllocAnyFrame
  <2>4. i # Len(tasks) \/ p # page
    BY <1>15, <2>1, <2>2 DEF HasFrame, IsUnmapped
  <2> QED BY <1>9, <2>4
<1> QED BY <1>10, <1>12, <1>13, <1>14, <1>15 DEF OrderFits, KeepFrames, TasksKeepFrames

\* allocAnyFrame.
LEMMA MapPageGoesOn ==
  ASSUME Working, MapsFit, OrderFits, MapPage
  PROVE  MapsFit' /\ OrderFits' /\ KeepFrames
BY KernelPageGoesOn, TaskPageGoesOn

\* A page of a device is neither the kernel's nor in a segment, a heap or a stack.
LEMMA MapDeviceGoesOn ==
  ASSUME Working, MapsFit, OrderFits, MapDevice
  PROVE  MapsFit' /\ OrderFits' /\ KeepFrames
<1>0. PICK page, f : page = PageAtHand /\ f = Head(todo).frame
  OBVIOUS
<1>1. /\ Step("device") /\ Done /\ TableOf(target, page) # 0 /\ Map(target, page, f)
      /\ UNCHANGED <<placement, placed, heap, directories, kernel, active, others, tasks, cores,
                     target, wand, frames>>
  BY <1>0 DEF MapDevice, OnPage, allocation, making
<1>2. /\ Now \in Seq(Items) /\ Now # <<>> /\ Now[1].do = "device" /\ Now[1] \in Items
      /\ Tail(Now) \in Seq(Items) /\ GoesOn(Tail(Now), 1, Now, TaskProgram)
      /\ Now' = Tail(Now) /\ Now[1] = Head(todo)
  BY <1>1, NowAtHand
<1>3. PICK rest : Doing(Now, rest)
  BY <1>1, NowAtHand
<1>4. page \in EveryPage /\ page \in Devices /\ tasks # <<>>
  BY <1>0, <1>2, <1>3, PageIs DEF Working
<1>5. f \in Nat
  <2>1. Now[1] \in TaskItem \/ Now[1] \in DeviceItem
    BY <1>2, <1>4 DEF Items
  <2>2. Now[1].frame \in Nat
    BY <1>2, <2>1 DEF TaskItem, DeviceItem
  <2> QED BY <1>0, <1>2, <2>2
<1>6. page \notin KernelPages \cup TaskPages
  BY <1>4, ProgramsAssumption DEF Devices
<1>7. \A d \in DOMAIN directories : \A p \in EveryPage :
        TableOf(d, p)' = TableOf(d, p) /\ (p # page => FrameOf(d, p)' = FrameOf(d, p))
  BY <1>1, <1>4, <1>5, MapsPage
<1>8. TasksSeeTheSame
  <2>1. ASSUME NEW i \in DOMAIN tasks, NEW p \in TaskPages
        PROVE  FrameOf(tasks[i].directory, p)' = FrameOf(tasks[i].directory, p)
    <3>1. PICK d : d = tasks[i].directory
      OBVIOUS
    <3>2. d \in DOMAIN directories /\ p \in EveryPage /\ p # page
      BY <1>4, <1>6, <3>1, TaskPageIs, EveryPageIs
    <3>3. FrameOf(d, p)' = FrameOf(d, p)
      BY <1>7, <3>2
    <3> QED BY <1>1, <3>1, <3>3
  <2> QED BY <2>1 DEF TasksSeeTheSame
<1>9. KernelSeesTheSame(KernelPages)
  <2>1. PICK d : d = kernel
    OBVIOUS
  <2>2. d \in DOMAIN directories /\ kernel' = d
    BY <1>1, <2>1 DEF Working, SpacesFit
  <2>3. \A p \in KernelPages : p \in EveryPage /\ p # page
    BY <1>6, EveryPageIs
  <2>4. \A p \in KernelPages : TableOf(d, p)' = TableOf(d, p) /\ FrameOf(d, p)' = FrameOf(d, p)
    BY <1>7, <2>2, <2>3
  <2> QED BY <2>1, <2>2, <2>4 DEF KernelSeesTheSame
<1>10. MapsFit'
  <2>1. HeapKept \subseteq HeapKept'
    BY <1>1 DEF HeapKept, Kept, HeapPages
  <2>2. FramesInRow'
    BY <1>1 DEF MapsFit, FramesInRow
  <2>3. \A p \in HeapPages : Home(p)' = Home(p)
    BY <1>1, <1>9, EveryPageIs DEF KernelSeesTheSame, Home
  <2>4. KernelSeesTheSame(IdentityPages)
    BY <1>9, EveryPageIs DEF KernelSeesTheSame
  <2> QED BY <1>1, <2>1, <2>2, <2>3, <2>4, MapsStay DEF Working
<1>11. TasksInOrder'
  <2>1. \A p \in TaskPages : ~Touches(Now[1], TaskProgram, p)
    BY <1>2 DEF Touches
  <2>2. tasks # <<>> => Now \in Seq(Items) /\ Now' \in Seq(Items)
    BY <1>2
  <2>3. Now # <<>> /\ GoesOn(Now', 1, Now, TaskProgram)
    BY <1>2
  <2> QED BY <1>1, <1>8, <2>1, <2>2, <2>3, TasksStayInOrder DEF Working, OrderFits
<1>12. KernelInOrder'
  BY <1>1, <1>4 DEF KernelInOrder
<1>13. KeepFrames
  <2>1. \A p \in HeapPages : FrameOf(kernel, p)' = FrameOf(kernel, p)
    BY <1>9, EveryPageIs DEF KernelSeesTheSame
  <2> QED BY <1>1, <1>8, <2>1, SameFramesAreKept
<1> QED BY <1>10, <1>11, <1>12, <1>13 DEF OrderFits

\* The frame that a page of a directory has in some tables.
FrameIn(pgs, d, p) == Frame(pgs, TableOf(d, p), p)

\* An entry changes, between two steps.
LEMMA EntryOfPage ==
  ASSUME SpacesFit, TablesApart, NEW pgs, DOMAIN pgs = DOMAIN pages, NEW new,
         NEW o \in DOMAIN directories, NEW page \in EveryPage, TableOf(o, page) # 0, NEW f,
         IsGiven(pgs, new, TableOf(o, page), page % Entries, f),
         NEW d \in DOMAIN directories, NEW p \in EveryPage
  PROVE  FrameIn(new, d, p) =
           IF p = page /\ TableOf(d, p) = TableOf(o, page) THEN f ELSE FrameIn(pgs, d, p)
<1>0. PICK table, mine : table = TableOf(o, page) /\ mine = TableOf(d, p)
  OBVIOUS
<1>1. /\ page \div Entries \in AllTables /\ page % Entries \in Positions /\ table \in DOMAIN pgs
      /\ p \div Entries \in AllTables /\ mine \in {0} \cup DOMAIN pgs /\ table # 0
  BY <1>0, EveryPageIs, FrameIs
<1>2. ASSUME p # page \/ mine # table PROVE FrameIn(new, d, p) = FrameIn(pgs, d, p)
  <2>1. ASSUME mine # 0, mine = table, p % Entries = page % Entries PROVE FALSE
    <3>1. directories[d].tables[p \div Entries] = directories[o].tables[page \div Entries]
      BY <1>0, <2>1 DEF TableOf
    <3>2. directories[d].tables[p \div Entries] # 0
      BY <1>0, <2>1 DEF TableOf
    <3>3. p \div Entries = page \div Entries
      BY <1>1, <3>1, <3>2 DEF TablesApart
    <3>4. p = page
      BY <2>1, <3>3, PlacesOfPages
    <3> QED BY <1>2, <2>1, <3>4
  <2>2. mine = 0 \/ mine # table \/ p % Entries # page % Entries
    BY <2>1
  <2>3. IsGiven(pgs, new, table, page % Entries, f)
    BY <1>0
  <2>4. SameFrame(pgs, new, mine, p)
    BY <1>1, <2>2, <2>3, OtherPagesStay
  <2> QED BY <1>0, <2>4 DEF SameFrame, FrameIn
<1>3. ASSUME p = page, mine = table PROVE FrameIn(new, d, p) = f
  <2>1. <<table, page % Entries>> \in (DOMAIN pgs) \X Positions
    BY <1>1
  <2>2. new[table][page % Entries] = f
    BY <1>0, <2>1 DEF IsGiven
  <2> QED BY <1>0, <1>1, <1>3, <2>2 DEF FrameIn, Frame
<1> QED BY <1>0, <1>2, <1>3

\* What the wand borrows is a page of the heap, which every directory has.
LEMMA WandIs ==
  ASSUME Working, MapsFit, NEW what, Step(what), what \in {"copy", "put_wand_back"}
  PROVE  /\ wand # NoWand /\ wand.page \in HeapPages /\ wand.page \in EveryPage
         /\ wand.frame \in Nat /\ wand.page \notin IdentityPages
         /\ \A p \in TaskPages : p # wand.page
         /\ TableOf(kernel, wand.page) # 0
         /\ \A d \in DOMAIN directories : TableOf(d, wand.page) = TableOf(kernel, wand.page)
<1>1. Now \in Seq(Items) /\ Now # <<>> /\ Now[1].do = what
  BY NowAtHand
<1>2. PICK rest : Doing(Now, rest)
  BY NowAtHand
<1>3. wand # NoWand
  <2>1. WandFits(Now, wand)
    BY <1>2 DEF Doing, ItemsFit
  <2>2. Tail(Now) \in Seq(Items) /\ GoesOn(Tail(Now), 1, Now, TaskProgram) /\ 1 \in {0, 1}
    BY <1>1, TailGoesOn
  <2> QED BY <1>1, <2>1, <2>2, WandGoesOn
<1>4. wand.page \in HeapPages /\ wand.frame \in Nat
  BY <1>3 DEF Working, AllocationFits
<1>5. wand.page \in EveryPage /\ wand.page \in KernelPages
  BY <1>4, EveryPageIs
<1>6. wand.page \notin IdentityPages
  BY <1>4, IdentityPagesAre, MemoryAssumption DEF HeapPages
<1>7. \A p \in TaskPages : p # wand.page
  BY <1>5, TaskPagesAre DEF Working
<1>8. TableOf(kernel, wand.page) # 0
  BY <1>4, TaskItemIs DEF MapsFit, KernelPaged
<1>9. \A d \in DOMAIN directories : TableOf(d, wand.page) = TableOf(kernel, wand.page)
  BY <1>5, <1>8, KernelPageIs DEF Working, MapsFit
<1> QED BY <1>3, <1>4, <1>5, <1>6, <1>7, <1>8, <1>9

\* The wand's page gets its frame back.
LEMMA PutWandBackGoesOn ==
  ASSUME Working, MapsFit, OrderFits, PutWandBack
  PROVE  MapsFit' /\ OrderFits' /\ KeepFrames
<1>0. PICK w, f : w = wand.page /\ f = wand.frame
  OBVIOUS
<1>1. /\ Step("put_wand_back") /\ Done
      /\ pages' = [pages EXCEPT ![TableOf(active, w)][w % Entries] = f]
      /\ heap' = heap \ {w} /\ wand' = NoWand
      /\ UNCHANGED <<placement, placed, directories, kernel, active, others, tasks, frames>>
  BY <1>0 DEF PutWandBack, Map
<1>2. /\ Now \in Seq(Items) /\ Now # <<>> /\ Now[1].do = "put_wand_back"
      /\ Tail(Now) \in Seq(Items) /\ GoesOn(Tail(Now), 1, Now, TaskProgram)
      /\ Now' = Tail(Now)
  BY <1>1, NowAtHand
<1>3. /\ w \in HeapPages /\ w \in EveryPage /\ f \in Nat /\ w \notin IdentityPages
      /\ \A p \in TaskPages : p # w
      /\ TableOf(kernel, w) # 0
      /\ \A d \in DOMAIN directories : TableOf(d, w) = TableOf(kernel, w)
  BY <1>0, <1>1, WandIs
<1>4. tasks # <<>> /\ placement = 0 /\ active \in DOMAIN directories
  BY <1>1, TaskItemIs
<1>5. w % Entries \in Positions /\ pages \in [DOMAIN pages -> [Positions -> Nat]]
      /\ kernel \in DOMAIN directories
  BY <1>3, EveryPageIs DEF Working, SpacesFit
<1>6. IsGiven(pages, pages', TableOf(active, w), w % Entries, f)
  BY <1>1, <1>3, <1>5, EntryChanges
<1>7. ASSUME NEW d \in DOMAIN directories, NEW p \in EveryPage
      PROVE  /\ TableOf(d, p)' = TableOf(d, p)
             /\ FrameOf(d, p)' = IF p = w THEN f ELSE FrameOf(d, p)
  <2>1. TableOf(active, w) # 0 /\ TableOf(active, w) = TableOf(d, w)
    BY <1>3, <1>4
  <2>2. FrameIn(pages', d, p) = IF p = w /\ TableOf(d, p) = TableOf(active, w) THEN f ELSE FrameIn(pages, d, p)
    BY <1>3, <1>4, <1>6, <2>1, EntryOfPage DEF Working
  <2>3. FrameIn(pages', d, p) = IF p = w THEN f ELSE FrameIn(pages, d, p)
    BY <2>1, <2>2
  <2>4. TableOf(d, p)' = TableOf(d, p)
    BY <1>1 DEF TableOf
  <2> QED BY <2>3, <2>4 DEF FrameIn, Frame, FrameOf
<1>8. ASSUME NEW p \in EveryPage
      PROVE  /\ TableOf(kernel, p)' = TableOf(kernel, p)
             /\ FrameOf(kernel, p)' = IF p = w THEN f ELSE FrameOf(kernel, p)
  <2>1. PICK d : d = kernel
    OBVIOUS
  <2> QED BY <1>1, <1>5, <1>7, <2>1
<1>9. \A p \in HeapPages : Home(p)' = Home(p)
  <2>1. ASSUME NEW p \in HeapPages PROVE Home(p)' = Home(p)
    <3>1. p \in EveryPage /\ p # 0
      BY HeapPairsAre
    <3>2. Home(p)' = FrameOf(kernel, p)'
      BY <1>1, <3>1 DEF Home, NoWand
    <3> QED BY <1>0, <1>8, <3>1, <3>2 DEF Home
  <2> QED BY <2>1
<1>10. KernelSeesTheSame(IdentityPages)
  BY <1>3, <1>8, EveryPageIs DEF KernelSeesTheSame
<1>11. HeapKept \subseteq HeapKept'
  <2>1. 0 \notin HeapPages /\ wand'.page = 0
    BY <1>1, HeapPairsAre DEF NoWand
  <2> QED BY <1>0, <1>1, <2>1 DEF HeapKept, Kept, HeapPages
<1>12. FramesInRow'
  BY <1>1 DEF MapsFit, FramesInRow
<1>13. MapsFit'
  BY <1>1, <1>9, <1>10, <1>11, <1>12, MapsStay DEF Working
<1>14. TasksSeeTheSame
  <2>1. ASSUME NEW i \in DOMAIN tasks, NEW p \in TaskPages
        PROVE  FrameOf(tasks[i].directory, p)' = FrameOf(tasks[i].directory, p)
    <3>1. PICK d : d = tasks[i].directory
      OBVIOUS
    <3>2. d \in DOMAIN directories /\ p \in EveryPage /\ p # w
      BY <1>3, <1>4, <3>1, TaskPageIs, EveryPageIs
    <3>3. FrameOf(d, p)' = FrameOf(d, p)
      BY <1>7, <3>2
    <3> QED BY <1>1, <3>1, <3>3
  <2> QED BY <2>1 DEF TasksSeeTheSame
<1>15. TasksInOrder'
  <2>1. \A p \in TaskPages : ~Touches(Now[1], TaskProgram, p)
    BY <1>2 DEF Touches
  <2>2. tasks # <<>> => Now \in Seq(Items) /\ Now' \in Seq(Items)
    BY <1>2
  <2>3. Now # <<>> /\ GoesOn(Now', 1, Now, TaskProgram)
    BY <1>2
  <2> QED BY <1>1, <1>14, <2>1, <2>2, <2>3, TasksStayInOrder DEF Working, OrderFits
<1>16. KernelInOrder'
  BY <1>1, <1>4 DEF KernelInOrder
<1>17. KeepFrames
  BY <1>1, <1>4, <1>9, <1>14 DEF KeepFrames, TasksKeepFrames, TasksSeeTheSame, HeapKeepsFrames
<1> QED BY <1>13, <1>15, <1>16, <1>17 DEF OrderFits

\* What is left of a copy once a part of it is done: nothing, or the next part.
IsCopied(s, u, k, program) ==
  LET g == program.segments[s[1].segment]
  IN  /\ k = 1 => s[1].copied + CopyLength(g, s[1].copied) = g.memsz
      /\ k = 0 => IsNextCopy(u[1], s[1], program)

\* A part of a copy gives one page a frame, and the next part is on the next page.
LEMMA CopyIsMapped ==
  ASSUME NEW program \in TaskPrograms, NEW s, NEW u, NEW k \in {0, 1},
         s[1] \in TaskItem, s[1].do = "copy", CopyFits(s[1], program), IsCopied(s, u, k, program),
         NEW page, page = (program.segments[s[1].segment].virt + s[1].copied) \div PageSize,
         page + 1 \in EveryPage \/ k = 1
  PROVE  IsMapped(s, u, k, program, page)
<1>0. PICK item, g : item = s[1] /\ g = program.segments[s[1].segment]
  OBVIOUS
<1> DEFINE copied == item.copied + CopyLength(g, item.copied)
           last == (g.virt + g.memsz - 1) \div PageSize
<1>1. PageSize \in Nat \ {0}
  BY MemoryAssumption
<1>2. /\ g.virt \in Nat /\ g.memsz \in Nat \ {0} /\ item.copied \in Nat /\ item.copied < g.memsz
  BY <1>0, CopyIs
<1>3. page \in Nat /\ last \in Nat /\ page <= last /\ page = (g.virt + item.copied) \div PageSize
  <2>1. /\ g.virt + item.copied \in Nat /\ g.virt + g.memsz - 1 \in Nat
        /\ g.virt + item.copied <= g.virt + g.memsz - 1
    BY <1>2
  <2> QED BY <1>0, <1>1, <2>1, QuotientOrder, QuotientAndRest
<1>4. \A p \in EveryPage : p \in Nat
  BY EveryPageIs
<1>5. \A p : Touches(s[1], program, p) <=> page <= p /\ p <= last
  BY <1>0 DEF Touches
<1>6. /\ CopyLength(g, item.copied) \in Nat /\ copied <= g.memsz
      /\ copied # g.memsz => (g.virt + copied) \div PageSize = page + 1
  BY <1>2, <1>3, CopyLengthIs
<1>7. CASE k = 1
  <2>1. copied = g.memsz
    BY <1>0, <1>7 DEF IsCopied
  <2>2. last = page
    <3> DEFINE n == CopyLength(g, item.copied)
               r == (g.virt + item.copied) % PageSize
               a == PageSize - r
               b == g.memsz - item.copied
    <3>1. r \in 0 .. PageSize - 1 /\ g.virt + item.copied = page * PageSize + r
      <4>1. g.virt + item.copied \in Nat
        BY <1>2
      <4> QED BY <1>1, <1>3, <4>1, QuotientAndRest
    <3>2. a \in Nat /\ b \in Nat /\ n = Min({a, b})
      BY <1>1, <1>2, <3>1 DEF CopyLength
    <3>3. n <= a
      <4> HIDE DEF n, a, b
      <4>1. \E x \in {a, b} : \A y \in {a, b} : x <= y
        BY <3>2
      <4>2. n \in {a, b} /\ \A y \in {a, b} : n <= y
        BY <3>2, <4>1 DEF Min
      <4> QED BY <4>2
    <3> DEFINE m == page * PageSize
               z == g.memsz - 1 - item.copied + r
    <3>4. m \in Nat
      BY <1>1, <1>3, ProductOrder
    <3>5. z \in 0 .. PageSize - 1 /\ g.virt + g.memsz - 1 = m + z
      <4> HIDE DEF m, r, n
      <4>1. m \in Nat /\ r \in Nat /\ g.virt + item.copied = m + r /\ n <= PageSize - r
            /\ item.copied + n = g.memsz /\ n \in Nat /\ r < PageSize
        BY <1>1, <1>6, <2>1, <3>1, <3>3, <3>4 DEF m, n
      <4> QED BY <1>1, <1>2, <4>1
    <3> HIDE DEF m, z
    <3>6. (page * PageSize + z) \div PageSize = page
      BY <1>1, <1>3, <3>5, QuotientIs
    <3> QED BY <3>5, <3>6 DEF m
  <2> HIDE DEF last
  <2>3. \A p \in EveryPage : Touches(s[1], program, p) <=> p = page
    BY <1>3, <1>4, <1>5, <2>2
  <2>4. Touches(s[1], program, page)
    BY <1>3, <1>5
  <2>5. \A p \in EveryPage : page <= p /\ Touches(s[1], program, p + 1) => Touches(s[1], program, p)
    BY <1>3, <1>4, <1>5
  <2>6. k # 0
    BY <1>7
  <2>7. \A p \in EveryPage : Touches(s[1], program, p) => page <= p
    BY <1>5
  <2> QED BY <2>3, <2>4, <2>5, <2>6, <2>7, Zenon DEF IsMapped
<1>8. CASE k = 0
  <2>1. PICK h : h = u[1]
    OBVIOUS
  <2>2. copied # g.memsz /\ h = [item EXCEPT !.copied = copied]
    BY <1>0, <1>8, <2>1 DEF IsCopied, IsNextCopy
  <2>3. item = [do |-> "copy", segment |-> item.segment, copied |-> item.copied]
    BY <1>0 DEF TaskItem
  <2> HIDE DEF copied
  <2>4. h = [do |-> "copy", segment |-> item.segment, copied |-> copied]
    BY <2>2, <2>3
  <2>5. \A p : Touches(h, program, p) <=> page + 1 <= p /\ p <= last
    <3>1. \A p : Touches(h, program, p) <=> (g.virt + copied) \div PageSize <= p /\ p <= last
      BY <1>0, <2>4 DEF Touches
    <3> QED BY <1>6, <2>2, <3>1
  <2>6. page + 1 <= last
    <3>1. copied \in Nat /\ copied < g.memsz
      BY <1>2, <1>6, <2>2 DEF copied
    <3>2. /\ g.virt + copied \in Nat /\ g.virt + g.memsz - 1 \in Nat
          /\ g.virt + copied <= g.virt + g.memsz - 1
      BY <1>2, <3>1
    <3>3. (g.virt + copied) \div PageSize <= (g.virt + g.memsz - 1) \div PageSize
      BY <1>1, <3>2, QuotientOrder
    <3> QED BY <1>6, <2>2, <3>3
  <2> HIDE DEF last
  <2>7. \A p \in EveryPage : Touches(h, program, p) <=> Touches(s[1], program, p) /\ p # page
    BY <1>3, <1>4, <1>5, <2>5
  <2>8. Touches(s[1], program, page) /\ Touches(h, program, page + 1)
    BY <1>3, <1>5, <2>5, <2>6
  <2>9. \A p \in EveryPage : page <= p /\ Touches(s[1], program, p + 1) => Touches(s[1], program, p)
    BY <1>3, <1>4, <1>5
  <2>10. \A p \in EveryPage : Touches(s[1], program, p) => page <= p
    BY <1>5
  <2>11. k # 1
    BY <1>8
  <2>12. \A p \in EveryPage : /\ Touches(s[1], program, p) => page <= p
                              /\ page <= p /\ Touches(s[1], program, p + 1) =>
                                   Touches(s[1], program, p)
    BY <2>9, <2>10
  <2>13. /\ \A p \in EveryPage : Touches(u[1], program, p) <=> Touches(s[1], program, p) /\ p # page
         /\ Touches(u[1], program, page + 1)
    BY <2>1, <2>7, <2>8, Zenon
  <2> QED BY <2>8, <2>11, <2>12, <2>13, Zenon DEF IsMapped
<1> QED BY <1>7, <1>8

\* A part of a copy is done, and the next is at hand, or what follows the copy.
LEMMA CopyPartIs ==
  ASSUME Working, CopyPart, NEW page, page = PageAtHand
  PROVE  \E k \in {0, 1} : /\ Now' \in Seq(Items) /\ GoesOn(Now', k, Now, TaskProgram)
                           /\ IsMapped(Now, Now', k, TaskProgram, page)
                           /\ IsCopied(Now, Now', k, TaskProgram)
<1>0. PICK program, item, s, u : program = Last(tasks).program /\ item = Head(todo) /\ s = Now /\ u = Now'
  OBVIOUS
<1> DEFINE g == program.segments[item.segment]
           copied == item.copied + CopyLength(g, item.copied)
           h == [item EXCEPT !.copied = copied]
<1>1. Step("copy") /\ IF copied = g.memsz THEN Done ELSE todo' = <<h>> \o Tail(todo)
  BY <1>0, Zenon DEF CopyPart, OnPage
<1>2. PICK rest : Doing(s, rest) /\ todo = s \o rest
  BY <1>0, <1>1, NowAtHand
<1>3. /\ s \in Seq(Items) /\ s # <<>> /\ s[1].do = "copy" /\ s[1] \in Items /\ s[1] = item
      /\ 1 \in DOMAIN s /\ Bare(s, Items, TaskProgram)
      /\ Tail(s) \in Seq(Items) /\ GoesOn(Tail(s), 1, s, TaskProgram)
      /\ Done => u = Tail(s)
  BY <1>0, <1>1, NowAtHand
<1>4. /\ page \in EveryPage /\ tasks # <<>> /\ TaskProgram = program
      /\ page = (g.virt + item.copied) \div PageSize
  BY <1>0, <1>2, <1>3, PageIs DEF Working
<1>5. program \in TaskPrograms /\ item \in TaskItem /\ CopyFits(item, program) /\ item.do = "copy"
  <2>1. item \notin DeviceItem
    BY <1>3 DEF DeviceItem
  <2>2. item \in TaskItem
    BY <1>3, <1>4, <2>1 DEF Items
  <2>3. CopyFits(item, program)
    BY <1>3, <1>4 DEF Bare
  <2> QED BY <1>3, <1>4, <2>2, <2>3, ProgramIs DEF Working
<1>6. CASE copied = g.memsz
  <2>1. u = Tail(s)
    BY <1>1, <1>3, <1>6
  <2>2. IsCopied(s, u, 1, program)
    BY <1>3, <1>6 DEF IsCopied
  <2>3. IsMapped(s, u, 1, program, page)
    BY <1>3, <1>4, <1>5, <2>2, CopyIsMapped
  <2>4. /\ u \in Seq(Items) /\ GoesOn(u, 1, s, TaskProgram) /\ IsMapped(s, u, 1, TaskProgram, page)
        /\ IsCopied(s, u, 1, TaskProgram)
    BY <1>3, <1>4, <2>1, <2>2, <2>3
  <2> QED BY <1>0, <2>4
<1>7. CASE copied # g.memsz
  <2>1. IsNextCopy(h, item, program)
    BY <1>7 DEF IsNextCopy
  <2>2. todo' = <<h>> \o Tail(todo)
    BY <1>1, <1>7
  <2>3. (g.virt + copied) \div PageSize = page + 1 /\ h.segment = item.segment /\ h.copied = copied
    <3>1. g.virt \in Nat /\ g.memsz \in Nat /\ item.copied \in Nat /\ item.copied < g.memsz
      BY <1>5, CopyIs
    <3>2. item = [do |-> "copy", segment |-> item.segment, copied |-> item.copied]
      BY <1>5 DEF TaskItem
    <3>3. h.segment = item.segment /\ h.copied = copied
      BY <3>2
    <3> QED BY <1>4, <1>7, <3>1, <3>3, CopyLengthIs
  <2> HIDE DEF h, copied
  <2>4. /\ h \in TaskItem /\ h.do = "copy" /\ CopyFits(h, program)
        /\ \A p \in EveryPage : Touches(h, program, p) => Touches(item, program, p)
    BY <1>5, <2>1, NextCopyIs
  <2>5. page + 1 \in EveryPage
    <3>1. (g.virt + h.copied) \div PageSize \in SegmentPages(program.segments[h.segment])
          /\ SegmentPages(program.segments[h.segment]) \subseteq TaskPages
      BY <1>5, <2>3, <2>4, CopyIs
    <3> QED BY <2>3, <3>1, EveryPageIs
  <2>6. h \in Items
    BY <1>4, <2>4 DEF Items
  <2>7. /\ <<h>> \o Tail(s) \in Seq(Items) /\ GoesOn(<<h>> \o Tail(s), 0, s, program)
        /\ (<<h>> \o Tail(s))[1] = h
    BY <1>3, <1>5, <2>4, <2>6, HeadGoesOn
  <2>8. todo' = (<<h>> \o Tail(s)) \o rest
    <3>1. /\ s \in Seq(TodoItem) /\ rest \in Seq(TodoItem) /\ h \in TodoItem
      BY <1>2, <2>4, DoingIs DEF TodoItem
    <3> QED BY <1>2, <1>3, <2>2, <3>1, HeadReplaced
  <2>9. u = <<h>> \o Tail(s)
    BY <1>0, <1>2, <2>7, <2>8, NowIs
  <2>10. IsCopied(s, u, 0, program)
    BY <1>3, <2>1, <2>7, <2>9 DEF IsCopied
  <2>11. IsMapped(s, u, 0, program, page)
    BY <1>3, <1>4, <1>5, <2>5, <2>10, CopyIsMapped
  <2>12. /\ u \in Seq(Items) /\ GoesOn(u, 0, s, TaskProgram) /\ IsMapped(s, u, 0, TaskProgram, page)
         /\ IsCopied(s, u, 0, TaskProgram)
    BY <1>4, <2>7, <2>9, <2>10, <2>11
  <2> QED BY <1>0, <2>12
<1> QED BY <1>6, <1>7

\* A part of an image is copied: a page of the task gets a frame, and the wand's too.
LEMMA CopyPartGoesOn ==
  ASSUME Working, MapsFit, OrderFits, CopyPart
  PROVE  MapsFit' /\ OrderFits' /\ KeepFrames
<1>0. PICK page, f, w : page = PageAtHand /\ f = FreeFrame /\ w = wand.page
  OBVIOUS
<1> DEFINE given == [pages EXCEPT ![TableOf(target, page)][page % Entries] = f]
<1>1. /\ Step("copy") /\ TableOf(target, page) # 0 /\ FreeFrames # {}
      /\ frames' = SetFrame(f)
      /\ pages' = [given EXCEPT ![TableOf(active, w)][w % Entries] = f]
      /\ UNCHANGED <<placement, placed, heap, directories, kernel, active, others, tasks, cores,
                     target, halted, wand>>
  BY <1>0, Zenon DEF CopyPart, OnPage, AllocAnyFrame, allocation
<1>2. /\ Now \in Seq(Items) /\ Now # <<>> /\ Now[1].do = "copy" /\ Now[1] \in Items
      /\ ItemsApart(Now, TaskProgram)
  BY <1>1, NowAtHand
<1>3. PICK k \in {0, 1} : /\ Now' \in Seq(Items) /\ GoesOn(Now', k, Now, TaskProgram)
                          /\ IsMapped(Now, Now', k, TaskProgram, page)
  BY <1>0, CopyPartIs
<1>4. /\ page \in EveryPage /\ page \in TaskPages /\ tasks # <<>>
  <2>1. PICK rest : Doing(Now, rest)
    BY <1>1, NowAtHand
  <2> QED BY <1>0, <1>2, <2>1, PageIs DEF Working
<1>5. f \in Nat /\ frames = 0 .. f - 1 /\ frames' = 0 .. f
  BY <1>0, <1>1, FreeIsNext DEF MapsFit
<1>6. /\ w \in HeapPages /\ w \in EveryPage /\ w \notin IdentityPages /\ w # page
      /\ \A p \in TaskPages : p # w
      /\ TableOf(kernel, w) # 0
      /\ \A d \in DOMAIN directories : TableOf(d, w) = TableOf(kernel, w)
  <2>1. /\ w \in HeapPages /\ w \in EveryPage /\ w \notin IdentityPages
        /\ \A p \in TaskPages : p # w
        /\ TableOf(kernel, w) # 0
        /\ \A d \in DOMAIN directories : TableOf(d, w) = TableOf(kernel, w)
    BY <1>0, <1>1, WandIs
  <2> QED BY <1>4, <2>1
<1>7. placement = 0 /\ active \in DOMAIN directories /\ target \in DOMAIN directories
      /\ kernel \in DOMAIN directories
  BY <1>1, TaskItemIs, TargetIs DEF Working, SpacesFit
<1>8. /\ page % Entries \in Positions /\ w % Entries \in Positions
      /\ pages \in [DOMAIN pages -> [Positions -> Nat]]
      /\ page \notin KernelPages /\ TableOf(kernel, page) = 0
  BY <1>4, <1>6, EveryPageIs, TaskPagesAre DEF Working, SpacesFit
<1>9. IsGiven(pages, given, TableOf(target, page), page % Entries, f)
  BY <1>5, <1>8, EntryChanges
<1> HIDE DEF given
<1>10. DOMAIN given = DOMAIN pages /\ given \in [DOMAIN given -> [Positions -> Nat]]
  BY <1>9 DEF IsGiven
<1>11. IsGiven(given, pages', TableOf(active, w), w % Entries, f)
  BY <1>1, <1>5, <1>8, <1>10, EntryChanges
<1>12. ASSUME NEW d \in DOMAIN directories, NEW p \in EveryPage
       PROVE  /\ TableOf(d, p)' = TableOf(d, p)
              /\ FrameOf(d, p)' = IF p = w THEN f
                                  ELSE IF p = page /\ TableOf(d, p) = TableOf(target, page) THEN f
                                  ELSE FrameOf(d, p)
  <2>1. TableOf(active, w) # 0 /\ TableOf(active, w) = TableOf(d, w)
    BY <1>6, <1>7
  <2>2. FrameIn(given, d, p) = IF p = page /\ TableOf(d, p) = TableOf(target, page) THEN f
                               ELSE FrameIn(pages, d, p)
    BY <1>1, <1>4, <1>7, <1>9, EntryOfPage DEF Working
  <2>3. FrameIn(pages', d, p) = IF p = w /\ TableOf(d, p) = TableOf(active, w) THEN f
                                ELSE FrameIn(given, d, p)
    BY <1>6, <1>7, <1>10, <1>11, <2>1, EntryOfPage DEF Working
  <2>4. FrameIn(pages', d, p) = IF p = w THEN f ELSE FrameIn(given, d, p)
    BY <2>1, <2>3
  <2>5. TableOf(d, p)' = TableOf(d, p)
    BY <1>1 DEF TableOf
  <2>6. FrameIn(pages, d, p) = FrameOf(d, p) /\ FrameIn(pages', d, p) = FrameOf(d, p)'
    BY <2>5 DEF FrameIn, Frame, FrameOf
  <2> QED BY <2>2, <2>4, <2>5, <2>6
<1>13. ASSUME NEW d \in DOMAIN directories \ {target} PROVE TableOf(d, page) # TableOf(target, page)
  <2>1. d \in DOMAIN directories /\ d # target /\ page \div Entries \in AllTables
    BY <1>4, EveryPageIs
  <2> QED BY <1>1, <1>7, <1>8, <2>1 DEF MapsFit, SharedTables, TableOf
<1>14. FrameOf(target, page)' = f
  <2>1. PICK d : d = target
    OBVIOUS
  <2>2. FrameOf(d, page)' = f
    BY <1>4, <1>7, <1>12, <2>1
  <2> QED BY <1>1, <2>1, <2>2
<1>15. ASSUME NEW i \in DOMAIN tasks, NEW p \in TaskPages, i # Len(tasks) \/ p # page
       PROVE  FrameOf(tasks[i].directory, p)' = FrameOf(tasks[i].directory, p)
  <2>1. PICK d : d = tasks[i].directory
    OBVIOUS
  <2>2. d \in DOMAIN directories /\ (i # Len(tasks) => d \in DOMAIN directories \ {target})
    BY <1>4, <2>1, TaskPageIs
  <2>3. p \in EveryPage /\ p # w
    BY <1>6, EveryPageIs
  <2>4. ~(p = page /\ TableOf(d, p) = TableOf(target, page))
    BY <1>13, <1>15, <2>2
  <2>5. FrameOf(d, p)' = FrameOf(d, p)
    BY <1>12, <2>2, <2>3, <2>4
  <2> QED BY <1>1, <2>1, <2>5
<1>16. SpacesFit'
  <2>1. DOMAIN pages' = DOMAIN pages /\ pages' \in [DOMAIN pages' -> [Positions -> Nat]]
    BY <1>10, <1>11 DEF IsGiven
  <2> QED BY <1>1, <2>1 DEF Working, SpacesFit
<1>17. TasksInOrder'
  <2>1. Now[1].do # "device"
    BY <1>2
  <2> QED BY <1>1, <1>2, <1>3, <1>4, <1>5, <1>14, <1>15, <1>16, <2>1, TaskMapKeepsOrder DEF OrderFits
<1>18. ASSUME NEW p \in KernelPages
       PROVE  /\ TableOf(kernel, p)' = TableOf(kernel, p)
              /\ p # w => FrameOf(kernel, p)' = FrameOf(kernel, p)
  <2>1. PICK d : d = kernel
    OBVIOUS
  <2>2. d \in DOMAIN directories /\ kernel' = d /\ p \in EveryPage /\ p # page
    BY <1>1, <1>7, <1>8, <2>1, EveryPageIs
  <2>3. TableOf(d, p)' = TableOf(d, p) /\ (p # w => FrameOf(d, p)' = FrameOf(d, p))
    BY <1>12, <2>2
  <2> QED BY <2>1, <2>2, <2>3
<1>22. \A p \in HeapPages : Home(p)' = Home(p)
  <2>1. ASSUME NEW p \in HeapPages PROVE Home(p)' = Home(p)
    <3>1. p \in KernelPages /\ wand' = wand
      BY <1>1, EveryPageIs
    <3>2. CASE p = w
      BY <1>0, <3>1, <3>2 DEF Home
    <3>3. CASE p # w
      <4>1. FrameOf(kernel, p)' = FrameOf(kernel, p)
        BY <1>18, <3>1, <3>3
      <4> QED BY <1>0, <3>1, <3>3, <4>1 DEF Home
    <3> QED BY <3>2, <3>3
  <2> QED BY <2>1
<1>19. MapsFit'
  <2>1. HeapKept \subseteq HeapKept'
    BY <1>1 DEF HeapKept, Kept, HeapPages
  <2>2. FramesInRow'
    <3>1. f + 1 \in Nat /\ frames' = 0 .. (f + 1) - 1
      BY <1>5
    <3> QED BY <3>1 DEF FramesInRow
  <2>4. KernelSeesTheSame(IdentityPages)
    BY <1>6, <1>18, EveryPageIs DEF KernelSeesTheSame
  <2> QED BY <1>1, <1>22, <2>1, <2>2, <2>4, MapsStay DEF Working
<1>20. KernelInOrder'
  BY <1>1, <1>4 DEF KernelInOrder
<1>21. HeapKeepsFrames /\ frames \subseteq frames'
  <2>1. frames \subseteq frames'
    BY <1>5
  <2> QED BY <1>7, <1>22, <2>1 DEF HeapKeepsFrames
<1>23. ASSUME NEW i \in DOMAIN tasks, NEW p \in TaskPages, HasFrame(tasks[i].directory, p)
       PROVE  FrameOf(tasks[i].directory, p)' = FrameOf(tasks[i].directory, p)
  <2>1. i = Len(tasks) => tasks[i].directory = target
    BY <1>4, TaskPageIs
  <2>2. IsUnmapped(target, page)
    BY <1>0, Zenon DEF CopyPart, AllocAnyFrame
  <2>3. i # Len(tasks) \/ p # page
    BY <1>23, <2>1, <2>2 DEF HasFrame, IsUnmapped
  <2> QED BY <1>15, <2>3
<1> QED BY <1>17, <1>19, <1>20, <1>21, <1>23 DEF OrderFits, KeepFrames, TasksKeepFrames

-----------------------------------------------------------------------------
(* setPaging.                                                              *)

\* What an iteration of the second loop leaves: the next, or what follows the loop.
IsNextIdentity(s, u, k) ==
  /\ k = 0 => u[1].do = "identity_map" /\ u[1].page = s[1].page + 1
  /\ k = 1 => ~((s[1].page + 1) * PageSize < IdentityEnd)

\* An iteration maps its page to itself, and is followed by the next or is the last.
LEMMA IdentityMapIs ==
  ASSUME Working, placement # 0, IdentityMap, halted' = "no"
  PROVE  /\ PageAtHand = Now[1].page /\ Map(target, PageAtHand, PageAtHand)
         /\ frames' = frames \cup {PageAtHand}
         /\ \E k \in {0, 1} : /\ Now' \in Seq(Items) /\ GoesOn(Now', k, Now, TaskProgram)
                              /\ IsNextIdentity(Now, Now', k)
<1>0. PICK page, item, s, u : page = PageAtHand /\ item = Head(todo) /\ s = Now /\ u = Now'
  OBVIOUS
<1> DEFINE next == [item EXCEPT !.page = page + 1]
<1>1. Step("identity_map")
  BY DEF IdentityMap, OnPage
<1>2. /\ Map(target, page, page) /\ frames' = frames \cup {page}
      /\ IF next.page * PageSize < IdentityEnd THEN todo' = <<next>> \o Tail(todo) ELSE Done
  <2>1. ~Panic("frame_out_of_range")
    BY DEF Panic
  <2> QED BY <1>0, <2>1 DEF IdentityMap, SetFrame
<1>3. PICK rest : Doing(s, rest) /\ todo = s \o rest
  BY <1>0, <1>1, NowAtHand
<1>4. /\ s \in Seq(Items) /\ s # <<>> /\ s[1].do = "identity_map" /\ s[1] \in Items /\ s[1] = item
      /\ Tail(s) \in Seq(Items) /\ GoesOn(Tail(s), 1, s, TaskProgram)
      /\ Done => u = Tail(s)
  BY <1>0, <1>1, NowAtHand
<1>5. /\ tasks = <<>> /\ s[1] \in KernelItem /\ page = s[1].page
  BY <1>0, <1>1, KernelItemIs
<1>6. item = [do |-> "identity_map", page |-> page] /\ page \in IdentityPages /\ page \in Nat
  <2>1. item = [do |-> "identity_map", page |-> page] /\ page \in IdentityPages
    BY <1>4, <1>5 DEF KernelItem
  <2> QED BY <2>1, EveryPageIs
<1>7. next = [do |-> "identity_map", page |-> page + 1]
  BY <1>6
<1> HIDE DEF next
<1>8. CASE ~(next.page * PageSize < IdentityEnd)
  <2>1. u = Tail(s)
    BY <1>2, <1>4, <1>8
  <2>2. IsNextIdentity(s, u, 1)
    BY <1>5, <1>7, <1>8 DEF IsNextIdentity
  <2>3. u \in Seq(Items) /\ GoesOn(u, 1, s, TaskProgram) /\ IsNextIdentity(s, u, 1)
    BY <1>4, <2>1, <2>2
  <2> QED BY <1>0, <1>2, <1>5, <2>3
<1>9. CASE next.page * PageSize < IdentityEnd
  <2>1. page + 1 \in IdentityPages
    <3>1. placement \in Nat /\ PlacementFits
      BY <1>3, PlacementIs DEF Working, AllocationFits
    <3>2. page + 1 \in Nat /\ (page + 1) * PageSize < IdentityEnd
      BY <1>6, <1>7, <1>9
    <3> QED BY <3>1, <3>2, BelowIdentityEnd
  <2>2. next \in Items /\ next \in TodoItem /\ next.do = s[1].do
    <3>1. next \in KernelItem
      BY <1>7, <2>1 DEF KernelItem
    <3> QED BY <1>4, <1>5, <1>7, <3>1 DEF Items, TodoItem
  <2>3. \A p \in EveryPage : Touches(next, TaskProgram, p) => Touches(s[1], TaskProgram, p)
    <3>1. ASSUME NEW p \in EveryPage, Touches(next, TaskProgram, p)
          PROVE  page <= p /\ p \in IdentityPages
      <4>1. next.do = "identity_map" /\ next.page = page + 1
        BY <1>7
      <4>2. page + 1 <= p /\ p \in IdentityPages /\ p \in Nat
        BY <3>1, <4>1, EveryPageIs DEF Touches
      <4> QED BY <1>6, <4>2
    <3> QED BY <1>4, <1>5, <3>1 DEF Touches
  <2>4. /\ <<next>> \o Tail(s) \in Seq(Items) /\ GoesOn(<<next>> \o Tail(s), 0, s, TaskProgram)
        /\ (<<next>> \o Tail(s))[1] = next
    BY <1>4, <2>2, <2>3, HeadGoesOn
  <2>5. todo' = (<<next>> \o Tail(s)) \o rest
    <3>1. s \in Seq(TodoItem) /\ rest \in Seq(TodoItem)
      BY <1>3, DoingIs
    <3>2. todo' = <<next>> \o Tail(todo)
      BY <1>2, <1>9
    <3> QED BY <1>3, <1>4, <2>2, <3>1, <3>2, HeadReplaced
  <2>6. u = <<next>> \o Tail(s)
    BY <1>0, <1>3, <2>4, <2>5, NowIs
  <2>7. IsNextIdentity(s, u, 0)
    BY <1>5, <1>7, <2>4, <2>6 DEF IsNextIdentity
  <2>8. u \in Seq(Items) /\ GoesOn(u, 0, s, TaskProgram) /\ IsNextIdentity(s, u, 0)
    BY <2>4, <2>6, <2>7
  <2> QED BY <1>0, <1>2, <1>5, <2>8
<1> QED BY <1>8, <1>9

\* A page is mapped to itself, and is the next frame.
LEMMA IdentityMapGoesOn ==
  ASSUME Working, MapsFit, OrderFits, IdentityMap, halted' = "no"
  PROVE  MapsFit' /\ OrderFits' /\ KeepFrames
<1>0. PICK page, s, u : page = PageAtHand /\ s = Now /\ u = Now'
  OBVIOUS
<1>1. /\ Step("identity_map") /\ TableOf(target, page) # 0
      /\ UNCHANGED <<placement, placed, heap, tasks, cores, target, wand, directories, kernel, active,
                     others>>
  <2>1. ~Panic("frame_out_of_range")
    BY DEF Panic
  <2> QED BY <1>0, <2>1 DEF IdentityMap, OnPage, allocation, making
<1>2. /\ tasks = <<>> /\ target = kernel /\ s[1] \in KernelItem /\ TaskProgram = Initial
      /\ placement # 0 /\ BeforePaging(Now)
  BY <1>0, <1>1, KernelItemIs DEF OrderFits
<1>3. /\ s \in Seq(Items) /\ s # <<>> /\ s[1].do = "identity_map" /\ ItemsFit(s) /\ 1 \in DOMAIN s
  BY <1>0, <1>1, NowAtHand
<1>4. /\ page = s[1].page /\ Map(target, page, page) /\ frames' = frames \cup {page}
  BY <1>0, <1>2, IdentityMapIs
<1>5. PICK k \in {0, 1} : u \in Seq(Items) /\ GoesOn(u, k, s, Initial) /\ IsNextIdentity(s, u, k)
  BY <1>0, <1>2, IdentityMapIs
<1>6. page \in IdentityPages /\ page \in EveryPage /\ page \in Nat
  <2>1. page \in IdentityPages
    BY <1>2, <1>3, <1>4 DEF KernelItem
  <2> QED BY <2>1, EveryPageIs
<1>7. frames = 0 .. page - 1 /\ (\A p \in frames : Identity(p)) /\ frames' = 0 .. page
  <2>1. frames = 0 .. page - 1 /\ \A p \in frames : Identity(p)
    BY <1>0, <1>2, <1>3, <1>4 DEF BeforePaging, MapsInRow
  <2> QED BY <1>4, <1>6, <2>1
<1>8. /\ \A d \in DOMAIN directories : \A p \in EveryPage : TableOf(d, p)' = TableOf(d, p)
      /\ \A d \in DOMAIN directories : \A p \in EveryPage : p # page => FrameOf(d, p)' = FrameOf(d, p)
      /\ FrameOf(target, page)' = page
  BY <1>1, <1>4, <1>6, MapsPage
<1>9. /\ \A p \in EveryPage : TableOf(kernel, p)' = TableOf(kernel, p)
      /\ \A p \in EveryPage : p # page => FrameOf(kernel, p)' = FrameOf(kernel, p)
      /\ FrameOf(kernel, page)' = page
  <2>1. PICK d : d = kernel
    OBVIOUS
  <2>2. d \in DOMAIN directories /\ kernel' = d /\ target' = d /\ target = d
    BY <1>1, <1>2, <2>1 DEF Working, SpacesFit
  <2>3. /\ \A p \in EveryPage : TableOf(d, p)' = TableOf(d, p)
        /\ \A p \in EveryPage : p # page => FrameOf(d, p)' = FrameOf(d, p)
    BY <1>8, <2>2
  <2> QED BY <1>8, <2>1, <2>2, <2>3
<1>10. TableOf(kernel, page) # 0 /\ \A p \in frames' : Identity(p)'
  <2>1. TableOf(kernel, page) # 0
    BY <1>1, <1>2
  <2>2. ASSUME NEW p \in 0 .. page PROVE Identity(p)'
    <3>1. p \in EveryPage
      <4>1. page \in 0 .. Tables * Entries - 1 /\ Tables * Entries \in Nat
        BY <1>6, MemoryAssumption, ProductOrder DEF EveryPage
      <4> QED BY <1>6, <4>1 DEF EveryPage
    <3>2. CASE p = page
      BY <1>9, <2>1, <3>1, <3>2 DEF Identity
    <3>3. CASE p # page
      <4>1. p \in frames
        BY <1>6, <1>7, <3>3
      <4>2. Identity(p)
        BY <1>7, <4>1
      <4> QED BY <1>9, <3>1, <3>3, <4>2 DEF Identity
    <3> QED BY <3>2, <3>3
  <2> QED BY <1>7, <2>1, <2>2
<1>11. /\ DOMAIN u = 1 .. Len(u) /\ DOMAIN s = 1 .. Len(s) /\ Len(u) = Len(s) - k /\ Len(s) \in Nat \ {0}
       /\ Len(u) \in Nat
       /\ \A i \in DOMAIN u : i + k \in DOMAIN s /\ (i + k # 1 => u[i] = s[i + k])
  BY <1>3, <1>5 DEF GoesOn
<1>12. MapsInRow(u)'
  <2>1. ASSUME NEW i \in DOMAIN u, u[i].do = "identity_map"
        PROVE  u[i].page = page + 1
    <3>1. CASE i + k # 1
      <4>1. i + k \in DOMAIN s /\ s[i + k].do = "identity_map" /\ 1 \in 1 .. (i + k) - 1
        BY <1>11, <2>1, <3>1
      <4>2. s[1].do = "get_page"
        BY <1>3, <4>1 DEF ItemsFit, IdentityFits
      <4> QED BY <1>3, <4>2
    <3>2. CASE i + k = 1
      <4>1. i = 1 /\ k = 0
        BY <1>11, <3>2
      <4> QED BY <1>4, <1>5, <4>1 DEF IsNextIdentity
    <3> QED BY <3>1, <3>2
  <2>2. ASSUME NEW i \in DOMAIN u, u[i].do = "identity_map"
        PROVE  frames' = 0 .. u[i].page - 1
    <3>1. u[i].page = page + 1
      BY <2>1, <2>2
    <3>2. (page + 1) - 1 = page
      BY <1>6
    <3> QED BY <1>7, <3>1, <3>2
  <2> QED BY <1>10, <2>2 DEF MapsInRow
<1>13. HasMapped(u)'
  <2>1. ASSUME NoIdentity(u), k = 0 PROVE FALSE
    <3>1. 1 \in DOMAIN u
      BY <1>11, <2>1
    <3> QED BY <1>5, <2>1, <3>1 DEF NoIdentity, IsNextIdentity
  <2>2. ASSUME k = 1, NEW p \in EveryPage, p * PageSize < IdentityEnd PROVE Identity(p)'
    <3>1. ~((page + 1) * PageSize < IdentityEnd) /\ p \in Nat /\ PageSize \in Nat \ {0}
          /\ IdentityEnd \in Nat
      <4>1. placement \in Nat /\ HeapObject \in Nat
        BY MemoryAssumption DEF Working, AllocationFits
      <4> QED BY <1>4, <1>5, <2>2, <4>1, EveryPageIs, MemoryAssumption DEF IsNextIdentity, IdentityEnd
    <3>2. ASSUME page + 1 <= p PROVE FALSE
      <4> DEFINE a == (page + 1) * PageSize
                 b == p * PageSize
      <4>1. a <= b /\ a \in Nat /\ b \in Nat
        BY <1>6, <3>1, <3>2, ProductOrder
      <4>2. b < IdentityEnd /\ ~(a < IdentityEnd)
        BY <2>2, <3>1
      <4> HIDE DEF a, b
      <4> QED BY <3>1, <4>1, <4>2
    <3>3. p \in 0 .. page
      BY <1>6, <3>1, <3>2
    <3> QED BY <1>7, <1>10, <3>3
  <2>3. ASSUME k = 1, NEW i \in DOMAIN u PROVE u[i].do # "get_page"
    <3>1. i + 1 \in DOMAIN s /\ u[i] = s[i + 1] /\ 1 < i + 1
      BY <1>11, <2>3
    <3> QED BY <1>0, <1>2, <1>3, <3>1 DEF BeforePaging, PagingAhead
  <2>4. IdentityEnd' = IdentityEnd
    BY <1>1 DEF IdentityEnd
  <2> QED BY <2>1, <2>2, <2>3, <2>4 DEF HasMapped, NoIdentity
<1>14. HasTables(u)'
  <2>1. ASSUME NEW p \in HeapPages, TableOf(kernel, p) = 0
        PROVE  \E i \in DOMAIN u : u[i].do = "get_page" /\ u[i].page = p
    <3>1. PICK j \in DOMAIN s : s[j].do = "get_page" /\ s[j].page = p
      BY <1>0, <1>2, <2>1 DEF BeforePaging, HasTables
    <3>2. j # 1
      BY <1>3, <3>1
    <3>3. j - k \in DOMAIN u /\ (j - k) + k = j
      BY <1>11, <3>2
    <3>4. u[j - k] = s[j]
      BY <1>11, <3>2, <3>3
    <3> QED BY <3>1, <3>3, <3>4
  <2>2. \A p \in HeapPages : TableOf(kernel, p)' = TableOf(kernel, p)
    BY <1>9, HeapPairsAre
  <2> QED BY <2>1, <2>2 DEF HasTables, HeapPages
<1>15. PagingAhead(u)'
  <2>1. PagingAhead(s)
    BY <1>0, <1>2 DEF BeforePaging
  <2>2. PagingAhead(u)
    BY <1>3, <1>5, <2>1, PagingStaysAhead
  <2> QED BY <2>2 DEF PagingAhead, AfterPaging
<1>16. HeapAhead(u)'
  <2>1. PICK F, G : F = FramesOf(kernel) /\ G = FramesOf(kernel)'
    OBVIOUS
  <2>2. ASSUME NEW p \in HeapPages PROVE G[p] = F[p] /\ ~Touches(s[1], Initial, p)
    <3>1. p \in EveryPage /\ p \notin IdentityPages
      <4>1. p \in EveryPage /\ IdentityPages \subseteq 0 .. HeapStart - 1 /\ HeapStart \in Nat
        BY HeapPairsAre, IdentityPagesAre, MemoryAssumption
      <4>2. p \notin 0 .. HeapStart - 1
        BY <4>1 DEF HeapPages
      <4> QED BY <4>1, <4>2
    <3>2. p # page
      BY <1>6, <3>1
    <3>3. G[p] = F[p]
      BY <1>9, <2>1, <3>1, <3>2 DEF FramesOf
    <3>4. ~Touches(s[1], Initial, p)
      BY <1>3, <3>1 DEF Touches
    <3> QED BY <3>3, <3>4
  <2>3. /\ HeapPairs \subseteq EveryPage /\ (\A p \in HeapPairs : p + 1 \in EveryPage)
        /\ \A p \in HeapPairs : ~Touches(s[1], Initial, p) /\ ~Touches(s[1], Initial, p + 1)
        /\ \A p \in HeapPairs : G[p] = F[p] /\ G[p + 1] = F[p + 1]
    BY <2>2, HeapPairsAre
  <2>4. InOrder(s, Initial, HeapPairs, F, frames)
    BY <1>0, <1>2, <2>1 DEF BeforePaging, HeapAhead
  <2>5. InOrder(u, Initial, HeapPairs, G, frames')
    BY <1>3, <1>5, <2>3, <2>4, SkipKeepsOrder
  <2> QED BY <2>1, <2>5 DEF HeapAhead, InOrder, NotTouched, HeapPairs
<1>17. BeforePaging(Now)'
  <2>1. Now' = u
    BY <1>0
  <2>2. MapsInRow(Now)' /\ HasMapped(Now)' /\ HasTables(Now)' /\ PagingAhead(Now)'
    BY <1>12, <1>13, <1>14, <1>15, <2>1 DEF MapsInRow, HasMapped, NoIdentity, HasTables, PagingAhead, AfterPaging
  <2>3. HeapAhead(Now)'
    BY <1>16, <2>1 DEF HeapAhead, InOrder, NotTouched, HeapPairs
  <2> QED BY <2>2, <2>3 DEF BeforePaging
<1>18. MapsFit'
  <2>1. HeapKept \subseteq HeapKept'
    BY <1>1 DEF HeapKept, Kept, HeapPages
  <2>2. FramesInRow'
    <3>1. page + 1 \in Nat /\ frames' = 0 .. (page + 1) - 1
      BY <1>6, <1>7
    <3> QED BY <3>1 DEF FramesInRow
  <2> QED BY <1>1, <1>2, <2>1, <2>2, MapsStay DEF Working
<1>19. OrderFits'
  BY <1>1, <1>2, <1>17 DEF OrderFits, KernelInOrder, TasksInOrder
<1>20. KeepFrames
  <2>1. \A p \in HeapPages : FrameOf(kernel, p)' = FrameOf(kernel, p)
    <3>1. \A p \in HeapPages : p \in EveryPage /\ p # page
      <4>1. IdentityPages \subseteq 0 .. HeapStart - 1 /\ HeapStart \in Nat
        BY IdentityPagesAre, MemoryAssumption
      <4> QED BY <1>6, <4>1, HeapPairsAre DEF HeapPages
    <3> QED BY <1>9, <3>1
  <2>2. TasksSeeTheSame /\ frames \subseteq frames'
    <3>1. DOMAIN tasks = {}
      BY <1>2
    <3> QED BY <1>4, <3>1 DEF TasksSeeTheSame
  <2> QED BY <1>1, <2>1, <2>2, SameFramesAreKept
<1> QED BY <1>18, <1>19, <1>20

\* Where the identity mapping is neither at hand nor behind a table, it is over.
LEMMA IdentityIsOver ==
  ASSUME NEW S, NEW s \in Seq(S), s # <<>>, NEW marked, IdentityFits(s, marked),
         s[1].do \notin {"get_page", "identity_map"}
  PROVE  NoIdentity(s)
<1>1. ASSUME NEW i \in DOMAIN s, s[i].do = "identity_map" PROVE FALSE
  <2>1. i # 1 /\ i \in Nat \ {0}
    BY <1>1
  <2>2. 1 \in 1 .. i - 1
    BY <2>1
  <2>3. s[1].do = "get_page"
    BY <1>1, <2>2 DEF IdentityFits
  <2> QED BY <2>3
<1> QED BY <1>1 DEF NoIdentity

\* The directories stay, and so does where they say that things are.
LEMMA AllSayWhereStays ==
  ASSUME ReachGrows, AllSayWhere, directories' = directories
  PROVE  AllSayWhere'
<1>1. ASSUME NEW d \in DOMAIN directories PROVE SaysWhere(directories[d], d)'
  <2>1. PICK directory : directory = directories[d]
    OBVIOUS
  <2>2. SaysWhere(directory, d)
    BY <2>1 DEF AllSayWhere
  <2>3. SaysWhere(directory, d)'
    BY <2>2, SaysWhereStays
  <2>4. directory = directories'[d]
    BY <2>1
  <2> QED BY <2>3, <2>4
<1> QED BY <1>1 DEF AllSayWhere

\* Before paging the heap is not used, nor is the wand.
LEMMA HeapIsNew ==
  ASSUME AllocationFits, placement # 0
  PROVE  heap = {} /\ HeapKept = {} /\ wand = NoWand /\ \A p \in HeapPages : Home(p) = FrameOf(kernel, p)
<1>1. heap = {} /\ wand = NoWand
  BY DEF AllocationFits
<1>2. HeapKept = {}
  BY <1>1 DEF HeapKept, Kept
<1>3. \A p \in HeapPages : Home(p) = FrameOf(kernel, p)
  BY <1>1, HeapPairsAre DEF Home, NoWand
<1> QED BY <1>1, <1>2, <1>3

\* Paging is on: what was placed is mapped to itself, and the heap is in order.
LEMMA SetPagingGoesOn ==
  ASSUME Working, MapsFit, OrderFits, SetPaging
  PROVE  MapsFit' /\ OrderFits'
<1>0. PICK s, u : s = Now /\ u = Now'
  OBVIOUS
<1>1. /\ Step("paging") /\ Done /\ placed' = IdentityEnd /\ placement' = 0
      /\ UNCHANGED <<tasks, cores, target, wand, frames, directories, pages, kernel, heap, others>>
  BY DEF SetPaging, IdentityEnd, making
<1>2. tasks = <<>> /\ placement # 0 /\ BeforePaging(s)
  BY <1>0, <1>1, KernelItemIs DEF OrderFits
<1>3. /\ s \in Seq(Items) /\ s # <<>> /\ s[1].do = "paging" /\ ItemsFit(s) /\ 1 \in DOMAIN s
      /\ u \in Seq(Items) /\ GoesOn(u, 1, s, TaskProgram)
  BY <1>0, <1>1, NowAtHand
<1>4. PICK rest : Doing(s, rest)
  BY <1>0, <1>1, NowAtHand
<1>5. \A i \in DOMAIN u : i + 1 \in DOMAIN s /\ 1 < i + 1 /\ u[i] = s[i + 1]
  <2>1. \A i \in DOMAIN u : i \in Nat \ {0}
    BY <1>3
  <2> QED BY <1>3, <2>1, ShiftIs
<1>6. NoIdentity(s)
  BY <1>3, IdentityIsOver DEF ItemsFit
<1>7. /\ \A p \in EveryPage : p * PageSize < IdentityEnd => Identity(p)
      /\ \A p \in HeapPages : TableOf(kernel, p) # 0
  BY <1>2, <1>6 DEF BeforePaging, HasMapped, HasTables
<1>8. \A i \in DOMAIN s : i # 1 => AfterPaging(s[i])
  <2>1. \A i \in DOMAIN s : i # 1 => 1 < i
    BY <1>3
  <2> QED BY <1>2, <1>3, <2>1 DEF BeforePaging, PagingAhead
<1>9. placement \in Nat /\ placed = placement /\ HeapObject \in Nat /\ PlacementFits
  BY <1>2, <1>4, PlacementIs, MemoryAssumption DEF Working, AllocationFits, MapsFit, PlacedFits
<1>10. placed' \in Nat /\ placed <= placed' /\ \E n \in ModuleSizes : placed' <= PlacementEnd(n)
  BY <1>1, <1>9, PlacementIsLow DEF IdentityEnd
<1>11. \A d, p : FrameOf(d, p)' = FrameOf(d, p) /\ TableOf(d, p)' = TableOf(d, p)
  BY <1>1 DEF FrameOf, TableOf
<1>12. HeapKept = {} /\ wand = NoWand /\ \A p \in HeapPages : Home(p) = FrameOf(kernel, p)
  BY <1>2, HeapIsNew DEF Working
<1>13. ASSUME NEW p \in HeapPairs PROVE Home(p + 1)' = Home(p)' + 1
  <2>1. PICK F : F = FramesOf(kernel)
    OBVIOUS
  <2>2. p \in HeapPages /\ p + 1 \in HeapPages /\ p \in EveryPage /\ p + 1 \in EveryPage
    BY HeapPairsAre
  <2>3. ASSUME NEW i \in DOMAIN s, NEW q \in HeapPages PROVE ~Touches(s[i], Initial, q)
    <3>1. CASE i = 1
      BY <1>3, <3>1 DEF Touches
    <3>2. CASE i # 1
      <4>1. AfterPaging(s[i])
        BY <1>8, <3>2
      <4>2. ToSet(KernelStack) \subseteq HeapEnd .. Tables * Entries - 1 /\ HeapEnd \in Nat /\ HeapStart \in Nat
        BY LayoutAssumption, MemoryAssumption
      <4>3. q \notin ToSet(KernelStack)
        BY <4>2 DEF HeapPages
      <4> QED BY <4>1, <4>3 DEF AfterPaging, Touches
    <3> QED BY <3>1, <3>2
  <2>4. NotTouched(s, Initial, p) /\ ~Touches(s[1], Initial, p + 1)
    BY <1>3, <2>2, <2>3 DEF NotTouched
  <2>5. InOrder(s, Initial, HeapPairs, F, frames)
    BY <1>2, <2>1 DEF BeforePaging, HeapAhead
  <2>6. F[p + 1] = F[p] + 1
    BY <2>4, <2>5 DEF InOrder
  <2>7. FrameOf(kernel, p + 1) = FrameOf(kernel, p) + 1
    BY <2>1, <2>2, <2>6 DEF FramesOf
  <2>8. wand' = NoWand /\ p # 0 /\ p + 1 # 0 /\ kernel' = kernel
    BY <1>1, <1>12, <2>2, HeapPairsAre
  <2>9. FrameOf(kernel, p + 1)' = FrameOf(kernel, p)' + 1
    BY <1>11, <2>7, <2>8
  <2> QED BY <2>8, <2>9 DEF Home, NoWand
<1>14. KernelPaged'
  <2>1. \A p \in EveryPage : p * PageSize < placed' => Identity(p)'
    BY <1>1, <1>7, <1>11 DEF Identity
  <2>2. \A p \in HeapPages : TableOf(kernel, p)' # 0
    BY <1>1, <1>7, <1>11
  <2> QED BY <1>13, <2>1, <2>2 DEF KernelPaged, HeapPairs, HeapPages
<1>15. ReachGrows
  <2>1. ASSUME NEW a, Reach(a) PROVE Reach(a)' /\ Means(a)' = Means(a)
    <3>1. a \in Nat /\ a < placed
      BY <1>12, <2>1 DEF Reach
    <3>2. a < placed'
      BY <1>9, <1>10, <3>1
    <3> QED BY <3>1, <3>2 DEF Reach, Means
  <2> QED BY <2>1 DEF ReachGrows
<1>16. MapsFit'
  <2>1. AllSayWhere'
    BY <1>1, <1>15, AllSayWhereStays DEF MapsFit
  <2>2. PlacedFits'
    BY <1>1, <1>10 DEF PlacedFits
  <2>3. DirectoriesFit' /\ SharedTables' /\ FramesInRow'
    BY <1>1 DEF MapsFit, DirectoriesFit, SharedTables, FramesInRow
  <2> QED BY <1>14, <2>1, <2>2, <2>3 DEF MapsFit
<1>17. OrderFits'
  <2>1. ASSUME NEW i \in DOMAIN u PROVE AfterPaging(u[i])
    <3>1. i + 1 \in DOMAIN s /\ i + 1 # 1 /\ u[i] = s[i + 1]
      <4>1. i + 1 \in DOMAIN s /\ 1 < i + 1 /\ u[i] = s[i + 1]
        BY <1>5
      <4> QED BY <4>1
    <3> QED BY <1>8, <3>1
  <2>2. \A i \in DOMAIN Now' : AfterPaging(Now'[i])
    BY <1>0, <2>1
  <2>3. KernelInOrder'
    BY <1>1, <2>2 DEF KernelInOrder, AfterPaging
  <2>4. TasksInOrder'
    BY <1>1, <1>2 DEF TasksInOrder
  <2> QED BY <2>3, <2>4 DEF OrderFits
<1> QED BY <1>16, <1>17

-----------------------------------------------------------------------------
(* Steps that make tables.                                                 *)

\* The page at hand gets a table: what that does to the directories, and to the
\* tables that were there.
TableMade(page, a) ==
  LET mine(d, t) == d = target /\ t = page \div Entries
  IN  /\ DOMAIN directories' = DOMAIN directories
      /\ \A d \in DOMAIN directories :
           /\ directories'[d].physicalAddr = directories[d].physicalAddr
           /\ \A t \in AllTables :
                /\ directories'[d].tables[t] = IF mine(d, t) THEN a ELSE directories[d].tables[t]
                /\ directories'[d].physicals[t] =
                     IF mine(d, t) THEN Physical(a) ELSE directories[d].physicals[t]
      /\ \A b \in DOMAIN pages : pages'[b] = pages[b]
      /\ pages'[a] = [e \in Positions |-> NoFrame]

\* A directory with another table.
LEMMA WithTableIs ==
  ASSUME NEW directory, NEW T, NEW t \in AllTables, NEW a,
         directory \in Directory(T), NEW new, new = WithTable(directory, t, a)
  PROVE  /\ new.physicalAddr = directory.physicalAddr
         /\ \A u \in AllTables :
              /\ new.tables[u] = IF u = t THEN a ELSE directory.tables[u]
              /\ new.physicals[u] = IF u = t THEN Physical(a) ELSE directory.physicals[u]
<1> DEFINE g == directory.tables
           h == directory.physicals
           x == directory.physicalAddr
           phys == Physical(a)
           g2 == [g EXCEPT ![t] = a]
           h2 == [h EXCEPT ![t] = phys]
<1>1. directory = [tables |-> g, physicals |-> h, physicalAddr |-> x]
  BY DEF Directory
<1>2. g \in [AllTables -> {0} \cup T] /\ h \in [AllTables -> Nat]
  BY DEF Directory
<1> HIDE DEF g, h, x, phys
<1>3. new = [tables |-> g2, physicals |-> h2, physicalAddr |-> x]
  <2>1. new = [directory EXCEPT !.tables = g2, !.physicals = h2]
    BY DEF WithTable, g, h, phys
  <2> HIDE DEF g2, h2
  <2> DEFINE mid == [directory EXCEPT !.tables = g2]
  <2>2. mid = [tables |-> g2, physicals |-> h, physicalAddr |-> x]
    BY <1>1
  <2>3. new = [mid EXCEPT !.physicals = h2]
    BY <2>1
  <2> HIDE DEF mid
  <2> QED BY <2>2, <2>3
<1>4. \A u \in AllTables : /\ g2[u] = IF u = t THEN a ELSE g[u]
                           /\ h2[u] = IF u = t THEN phys ELSE h[u]
  BY <1>2
<1> HIDE DEF g2, h2
<1>5. new.tables = g2 /\ new.physicals = h2 /\ new.physicalAddr = x
  BY <1>3
<1> QED BY <1>4, <1>5 DEF g, h, x, phys

\* A table has been made for the page at hand.
LEMMA TableIsMade ==
  ASSUME Working, MakeTable
  PROVE  \E a \in Addresses(PageSize) :
           /\ AllocAligned(PageSize, a) /\ TableMade(PageAtHand, a)
           /\ a \in Nat \ {0} /\ a \notin DOMAIN pages \cup DOMAIN directories
           /\ a = (a \div PageSize) * PageSize
           /\ placement # 0 => a >= placement
           /\ placement = 0 => a \div PageSize \in HeapPages \ heap
<1> DEFINE page == PageAtHand
           t == page \div Entries
<1>1. PICK a \in Addresses(PageSize) :
        /\ AllocAligned(PageSize, a)
        /\ pages' = With(pages, a, [e \in Positions |-> NoFrame])
        /\ directories' = [directories EXCEPT ![target] = WithTable(@, t, a)]
  BY DEF MakeTable, Positions
<1>2. PageSize \in Nat \ {0}
  BY MemoryAssumption
<1>3. /\ a \in Nat \ {0} /\ a \notin DOMAIN pages \cup DOMAIN directories
      /\ a = (a \div PageSize) * PageSize
      /\ placement # 0 => a >= placement
      /\ placement = 0 => a \div PageSize \in HeapPages \ heap
  BY <1>1, <1>2, AddressesAreNew DEF Working
<1>4. PICK what \in {"get_page", "identity_map", "map", "copy", "device"} : Step(what)
  BY DEF MakeTable, NeedsTable
<1>5. PICK s, rest : Doing(s, rest) /\ s # <<>> /\ s[1].do = what /\ Head(todo) = s[1]
  BY <1>4, StepIs
<1>6. t \in AllTables /\ target \in DOMAIN directories
  BY <1>5, PageIs, EveryPageIs, TargetIs DEF Working
<1> HIDE DEF page, t
<1>7. \A d \in DOMAIN directories :
        directories[d] \in Directory(DOMAIN pages)
  BY DEF Working, SpacesFit
<1>8. /\ DOMAIN directories' = DOMAIN directories
      /\ \A d \in DOMAIN directories \ {target} : directories'[d] = directories[d]
      /\ directories'[target] = WithTable(directories[target], t, a)
  BY <1>1, <1>6
<1>9. ASSUME NEW d \in DOMAIN directories, NEW u \in AllTables
      PROVE  /\ directories'[d].physicalAddr = directories[d].physicalAddr
             /\ directories'[d].tables[u] =
                  IF d = target /\ u = t THEN a ELSE directories[d].tables[u]
             /\ directories'[d].physicals[u] =
                  IF d = target /\ u = t THEN Physical(a) ELSE directories[d].physicals[u]
  <2>1. CASE d # target
    BY <1>8, <2>1
  <2>2. CASE d = target
    <3>1. PICK directory, new : directory = directories[d] /\ new = directories'[d]
      OBVIOUS
    <3>2. new = WithTable(directory, t, a)
      BY <1>8, <2>2, <3>1
    <3>3. directory \in Directory(DOMAIN pages)
      BY <1>7, <3>1
    <3>4. /\ new.physicalAddr = directory.physicalAddr
          /\ new.tables[u] = IF u = t THEN a ELSE directory.tables[u]
          /\ new.physicals[u] = IF u = t THEN Physical(a) ELSE directory.physicals[u]
      BY <1>6, <3>2, <3>3, WithTableIs
    <3> QED BY <2>2, <3>1, <3>4
  <2> QED BY <2>1, <2>2
<1>10. \A d \in DOMAIN directories : directories'[d].physicalAddr = directories[d].physicalAddr
  BY <1>6, <1>9
<1>11. /\ \A b \in DOMAIN pages : pages'[b] = pages[b]
       /\ pages'[a] = [e \in Positions |-> NoFrame]
  BY <1>1, <1>3 DEF With
<1>12. TableMade(PageAtHand, a)
  BY <1>8, <1>9, <1>10, <1>11 DEF TableMade, page, t
<1> QED BY <1>1, <1>3, <1>12

\* The pages behind a new table have no frame, as before; so all pages have the
\* frames that they had.
LEMMA FramesOfTables ==
  ASSUME SpacesFit, NEW page \in EveryPage, NEW a, TableMade(page, a), a # 0,
         target \in DOMAIN directories, TableOf(target, page) = 0,
         NEW d \in DOMAIN directories, NEW p \in EveryPage
  PROVE  /\ FrameOf(d, p)' = FrameOf(d, p)
         /\ TableOf(d, p) # 0 => TableOf(d, p)' = TableOf(d, p)
<1> DEFINE t == page \div Entries
           u == p \div Entries
           x == p % Entries
<1>1. u \in AllTables /\ t \in AllTables /\ x \in Positions
  BY EveryPageIs
<1>2. directories[d].tables[u] \in {0} \cup DOMAIN pages /\ directories[target].tables[t] = 0
  BY <1>1, FrameIs DEF TableOf
<1>3. directories'[d].tables[u] = IF d = target /\ u = t THEN a ELSE directories[d].tables[u]
  BY <1>1 DEF TableMade
<1>4. (\A b \in DOMAIN pages : pages'[b] = pages[b]) /\ pages'[a] = [e \in Positions |-> NoFrame]
  BY DEF TableMade
<1>5. /\ FrameOf(d, p)' = (IF directories'[d].tables[u] = 0 THEN NoFrame
                           ELSE pages'[directories'[d].tables[u]][x])
      /\ FrameOf(d, p) = (IF directories[d].tables[u] = 0 THEN NoFrame
                          ELSE pages[directories[d].tables[u]][x])
      /\ TableOf(d, p) = directories[d].tables[u] /\ TableOf(d, p)' = directories'[d].tables[u]
  BY DEF FrameOf, TableOf, NoFrame
<1> HIDE DEF t, u, x
<1>6. CASE d = target /\ u = t
  <2>1. directories'[d].tables[u] = a /\ directories[d].tables[u] = 0
    BY <1>2, <1>3, <1>6
  <2>2. pages'[a][x] = NoFrame
    BY <1>1, <1>4
  <2> QED BY <1>5, <2>1, <2>2
<1>7. CASE ~(d = target /\ u = t)
  BY <1>2, <1>3, <1>4, <1>5, <1>7
<1> QED BY <1>6, <1>7

\* What is at hand gets tables; every page of the kernel keeps its frame.
LEMMA PagedStays ==
  ASSUME UNCHANGED <<placement, placed, kernel, wand>>, KernelPaged,
         \A p \in EveryPage : /\ FrameOf(kernel, p)' = FrameOf(kernel, p)
                              /\ TableOf(kernel, p) # 0 => TableOf(kernel, p)' # 0
  PROVE  KernelPaged'
<1>1. CASE placement # 0
  BY <1>1 DEF KernelPaged
<1>2. CASE placement = 0
  <2>1. /\ \A p \in EveryPage : p * PageSize < placed => Identity(p)
        /\ \A p \in HeapPages : TableOf(kernel, p) # 0
        /\ \A p \in HeapPairs : Home(p + 1) = Home(p) + 1
    BY <1>2 DEF KernelPaged
  <2>2. ASSUME NEW p \in EveryPage, p * PageSize < placed PROVE Identity(p)'
    BY <2>1, <2>2 DEF Identity
  <2>3. \A p \in HeapPages : TableOf(kernel, p)' # 0
    BY <2>1, HeapPairsAre
  <2>4. \A p \in EveryPage : Home(p)' = Home(p)
    BY DEF Home
  <2>5. \A p \in HeapPairs : Home(p + 1)' = Home(p)' + 1
    <3>1. ASSUME NEW p \in HeapPairs PROVE Home(p + 1)' = Home(p)' + 1
      <4>1. p \in EveryPage /\ p + 1 \in EveryPage
        BY HeapPairsAre
      <4>2. PICK q : q = p + 1
        OBVIOUS
      <4>3. Home(q)' = Home(q) /\ Home(p)' = Home(p) /\ Home(q) = Home(p) + 1
        BY <2>1, <2>4, <4>1, <4>2
      <4> QED BY <4>2, <4>3
    <3> QED BY <3>1
  <2> QED BY <2>2, <2>3, <2>5 DEF KernelPaged, HeapPairs, HeapPages
<1> QED BY <1>1, <1>2

\* Where a table is allocated: below what is placed next, or in the heap, where it stays.
LEMMA TableReached ==
  ASSUME Working, PlacedFits, NEW a \in Addresses(PageSize), AllocAligned(PageSize, a),
         a \in Nat, a = (a \div PageSize) * PageSize, placement # 0 => a >= placement,
         placement = 0 => a \div PageSize \in HeapPages \ heap,
         UNCHANGED <<kernel, wand, others>>,
         \A p \in EveryPage : FrameOf(kernel, p)' = FrameOf(kernel, p)
  PROVE  Reach(a)' /\ Means(a)' = Physical(a) /\ ReachGrows /\ PlacedFits'
<1> DEFINE q == a \div PageSize
<1>0. PageSize \in Nat \ {0} /\ placed \in Nat /\ placement \in Nat /\ AllocationFits
  BY MemoryAssumption DEF PlacedFits, Working, AllocationFits
<1>1. CASE placement # 0
  <2>1. placement' = a + PageSize /\ placed' = a + PageSize /\ placed = placement
    BY <1>1 DEF AllocAligned, PlacedFits
  <2>2. placed' \in Nat /\ a < placed' /\ placed <= placed'
    BY <1>0, <1>1, <2>1
  <2>3. HeapKept = {}
    BY <1>0, <1>1, HeapIsNew
  <2>4. ASSUME NEW b, Reach(b) PROVE Reach(b)' /\ Means(b)' = Means(b)
    <3>1. b \in Nat /\ b < placed
      BY <2>3, <2>4 DEF Reach
    <3>2. b < placed'
      BY <1>0, <2>2, <3>1
    <3> QED BY <3>1, <3>2 DEF Reach, Means
  <2>5. Reach(a)' /\ Means(a)' = a
    BY <2>2 DEF Reach, Means
  <2>6. placement' # 0
    BY <1>0, <2>1
  <2>7. PlacedFits'
    BY <2>1, <2>2, <2>6 DEF PlacedFits
  <2>8. Physical(a) = a
    BY <1>1 DEF Physical
  <2> QED BY <2>4, <2>5, <2>7, <2>8 DEF ReachGrows
<1>2. CASE placement = 0
  <2>1. placement' = placement /\ placed' = placed /\ HeapKept \subseteq HeapKept' /\ q \in HeapPages \ heap
    BY <1>0, <1>2, HeapGives
  <2>2. ASSUME NEW p \in HeapPages PROVE Home(p)' = Home(p)
    <3>1. p \in EveryPage
      BY HeapPairsAre
    <3> QED BY <3>1 DEF Home
  <2>3. ReachGrows
    BY <1>0, <2>1, <2>2, ReachStays
  <2>4. q \in EveryPage /\ q \in Nat /\ q >= HeapStart /\ q # 0 /\ HeapStart \in Nat
    BY <2>1, HeapPairsAre, MemoryAssumption, LayoutAssumption, SMTT(30) DEF HeapPages
  <2>5. ~(a < placed')
    <3>1. PICK n \in ModuleSizes : placed <= PlacementEnd(n)
      BY <1>2 DEF PlacedFits
    <3>2. PlacementEnd(n) <= HeapStart * PageSize /\ PlacementEnd(n) \in Nat
      BY LayoutAssumption, IdentityPagesAre
    <3>3. HeapStart * PageSize <= q * PageSize /\ HeapStart * PageSize \in Nat /\ q * PageSize \in Nat
      BY <1>0, <2>4, ProductOrder
    <3>4. a = q * PageSize
      OBVIOUS
    <3> DEFINE e == PlacementEnd(n)
               h == HeapStart * PageSize
               b == q * PageSize
    <3>5. placed <= e /\ e <= h /\ h <= b /\ a = b /\ e \in Nat /\ h \in Nat /\ b \in Nat
      BY <3>1, <3>2, <3>3, <3>4
    <3> HIDE DEF e, h, b
    <3>6. placed <= a
      BY <1>0, <3>5
    <3> QED BY <1>0, <2>1, <3>6
  <2>6. q \in HeapKept'
    <3>1. q \in heap'
      <4>1. q \in heap'
        BY <1>0, <1>2, AllocAlignedTakes
      <4> QED BY <4>1
    <3>2. q \notin others
      BY <2>1 DEF Working, AllocationFits
    <3>3. q # wand.page
      <4>1. CASE wand = NoWand
        BY <2>4, <4>1 DEF NoWand
      <4>2. CASE wand # NoWand
        BY <2>1, <4>2 DEF Working, AllocationFits
      <4> QED BY <4>1, <4>2
    <3> QED BY <2>1, <3>1, <3>2, <3>3 DEF HeapKept, Kept, HeapPages
  <2>7. Reach(a)'
    BY <2>6 DEF Reach
  <2>8. Means(a)' = Physical(a)
    <3>1. Means(a)' = PhysAddr(a)'
      BY <2>5 DEF Means
    <3>2. PhysAddr(a)' = PhysAddr(a)
      BY <2>4 DEF PhysAddr
    <3> QED BY <1>2, <3>1, <3>2 DEF Physical
  <2>9. PlacedFits'
    BY <2>1 DEF PlacedFits, PlacementEnd, Aligned
  <2> QED BY <2>3, <2>7, <2>8, <2>9
<1> QED BY <1>1, <1>2

\* The tables of the kernel are in every directory: a table is made for the kernel
\* before there are others, or for a page that is not the kernel's.
LEMMA TablesStayShared ==
  ASSUME Working, DirectoriesFit, SharedTables, NEW page \in EveryPage, NEW a, TableMade(page, a),
         a \notin DOMAIN pages, a # 0, TableOf(target, page) = 0, kernel' = kernel
  PROVE  SharedTables'
<1> DEFINE mine(d, t) == d = target /\ t = page \div Entries
<1>1. /\ DOMAIN directories' = DOMAIN directories
      /\ \A d \in DOMAIN directories : \A t \in AllTables :
           directories'[d].tables[t] = IF mine(d, t) THEN a ELSE directories[d].tables[t]
  BY DEF TableMade
<1>2. /\ kernel \in DOMAIN directories /\ target \in DOMAIN directories
      /\ \A d \in DOMAIN directories : \A t \in AllTables :
           directories[d].tables[t] # a
  <2>1. \A d \in DOMAIN directories : \A t \in AllTables :
          directories[d].tables[t] \in {0} \cup DOMAIN pages
    BY DEF Working, SpacesFit, Directory
  <2> QED BY <2>1, TargetIs DEF Working, SpacesFit
<1>3. \A t : mine(target, t) => directories[target].tables[t] = 0
  BY DEF TableOf
<1>4. CASE tasks = <<>>
  <2>1. \A d \in DOMAIN directories : d = kernel
    BY <1>4 DEF DirectoriesFit
  <2> QED BY <1>1, <2>1 DEF SharedTables
<1>5. CASE tasks # <<>>
  <2>1. target # kernel
    <3>1. Len(tasks) \in DOMAIN tasks /\ Last(tasks) = tasks[Len(tasks)]
      BY <1>5, ProgramIs DEF Working
    <3> QED BY <1>5, <3>1 DEF Working, TasksFit
  <2>2. \A t \in AllTables : directories'[kernel].tables[t] = directories[kernel].tables[t]
    BY <1>1, <1>2, <2>1
  <2>3. ASSUME NEW d \in DOMAIN directories, NEW e \in DOMAIN directories, NEW t \in AllTables
        PROVE  /\ directories'[kernel].tables[t] # 0 =>
                    directories'[d].tables[t] = directories'[kernel].tables[t]
               /\ d # e /\ directories'[d].tables[t] = directories'[e].tables[t] =>
                    directories'[d].tables[t] = 0 \/ directories'[kernel].tables[t] # 0
    <3>1. /\ directories[kernel].tables[t] # 0 =>
               directories[d].tables[t] = directories[kernel].tables[t]
          /\ d # e /\ directories[d].tables[t] = directories[e].tables[t] =>
               directories[d].tables[t] = 0 \/ directories[kernel].tables[t] # 0
      BY DEF SharedTables
    <3>2. /\ directories'[d].tables[t] = IF mine(d, t) THEN a ELSE directories[d].tables[t]
          /\ directories'[e].tables[t] = IF mine(e, t) THEN a ELSE directories[e].tables[t]
          /\ directories'[kernel].tables[t] = directories[kernel].tables[t]
      BY <1>1, <2>2
    <3>3. /\ mine(d, t) => d = target /\ directories[d].tables[t] = 0
          /\ mine(e, t) => e = target /\ directories[e].tables[t] = 0
      BY <1>3
    <3>4. directories[d].tables[t] # a /\ directories[e].tables[t] # a
      BY <1>2
    <3> HIDE DEF mine
    <3> QED BY <3>1, <3>2, <3>3, <3>4
  <2> QED BY <1>1, <2>3 DEF SharedTables
<1> QED BY <1>4, <1>5

\* The directories say where they and their tables are, the new one too.
LEMMA TablesSayWhere ==
  ASSUME AllSayWhere, ReachGrows, NEW page \in EveryPage, NEW a, TableMade(page, a),
         Reach(a)', Means(a)' = Physical(a)
  PROVE  AllSayWhere'
<1>1. ASSUME NEW d \in DOMAIN directories PROVE SaysWhere(directories[d], d)'
  <2> DEFINE mine(t) == d = target /\ t = page \div Entries
  <2>1. /\ directories'[d].physicalAddr = directories[d].physicalAddr
        /\ \A t \in AllTables :
             /\ directories'[d].tables[t] = IF mine(t) THEN a ELSE directories[d].tables[t]
             /\ directories'[d].physicals[t] =
                  IF mine(t) THEN Physical(a) ELSE directories[d].physicals[t]
    BY DEF TableMade
  <2>2. /\ Reach(d + PageSize) /\ directories[d].physicalAddr = Means(d + PageSize)
        /\ \A t \in AllTables :
             directories[d].tables[t] # 0 =>
               /\ Reach(directories[d].tables[t])
               /\ directories[d].physicals[t] = Means(directories[d].tables[t])
    BY DEF AllSayWhere, SaysWhere
  <2>3. \A b : Reach(b) => Reach(b)' /\ Means(b)' = Means(b)
    BY DEF ReachGrows
  <2>4. PICK directory : directory = directories'[d]
    OBVIOUS
  <2>5. Reach(d + PageSize)' /\ directory.physicalAddr = Means(d + PageSize)'
    BY <2>1, <2>2, <2>3, <2>4
  <2>6. ASSUME NEW t \in AllTables, directory.tables[t] # 0
        PROVE  Reach(directory.tables[t])' /\ directory.physicals[t] = Means(directory.tables[t])'
    <3>1. PICK b : b = directory.tables[t]
      OBVIOUS
    <3>2. Reach(b)' /\ directory.physicals[t] = Means(b)'
      <4>1. CASE mine(t)
        <5>1. b = a /\ directory.physicals[t] = Physical(a)
          BY <2>1, <2>4, <3>1, <4>1
        <5> QED BY <5>1
      <4>2. CASE ~mine(t)
        <5>1. b = directories[d].tables[t] /\ directory.physicals[t] = directories[d].physicals[t]
          BY <2>1, <2>4, <3>1, <4>2
        <5>2. Reach(b) /\ directories[d].physicals[t] = Means(b)
          BY <2>2, <2>6, <3>1, <5>1
        <5> QED BY <2>3, <5>1, <5>2
      <4> QED BY <4>1, <4>2
    <3> QED BY <3>1, <3>2
  <2>7. SaysWhere(directory, d)'
    BY <2>5, <2>6 DEF SaysWhere
  <2> QED BY <2>4, <2>7
<1>2. DOMAIN directories' = DOMAIN directories
  BY DEF TableMade
<1> QED BY <1>1, <1>2 DEF AllSayWhere

\* Before paging a table is made for a page of the heap, or for one that will be
\* mapped to itself; what is at hand stays in order.
LEMMA TableKeepsOrder ==
  ASSUME Working, MakeTable, tasks = <<>>, placement # 0, BeforePaging(Now),
         \A p \in EveryPage : /\ FrameOf(kernel, p)' = FrameOf(kernel, p)
                              /\ TableOf(kernel, p) # 0 => TableOf(kernel, p)' # 0
  PROVE  BeforePaging(Now)'
<1>0. PICK s : s = Now
  OBVIOUS
<1>1. /\ TableOf(kernel, PageAtHand) = 0
      /\ UNCHANGED <<tasks, frames, kernel, todo>>
  BY DEF MakeTable, NeedsTable, making, Working, TasksFit
<1>2. PICK what \in {"get_page", "identity_map", "map", "copy", "device"} : Step(what)
  BY DEF MakeTable, NeedsTable
<1>3. /\ s \in Seq(Items) /\ s # <<>> /\ s[1].do = what /\ s[1] \in Items /\ 1 \in DOMAIN s
      /\ \E rest : Doing(s, rest)
  BY <1>0, <1>2, NowAtHand
<1>4. Now' = s
  BY <1>0, <1>1 DEF Now
<1>5. Items = KernelItem /\ s[1] \in KernelItem
  BY <1>3 DEF Items
<1>6. /\ MapsInRow(s) /\ HasMapped(s) /\ HasTables(s) /\ PagingAhead(s) /\ HeapAhead(s)
  BY <1>0 DEF BeforePaging
<1>7. \A p \in EveryPage : Identity(p) => Identity(p)'
  BY DEF Identity
<1>8. ~NoIdentity(s)
  <2>1. ASSUME NoIdentity(s) PROVE FALSE
    <3>1. \A i \in DOMAIN s : s[i].do # "get_page" /\ s[i].do # "identity_map"
      BY <1>6, <2>1 DEF HasMapped, NoIdentity
    <3>2. PICK rest : Doing(s, rest)
      BY <1>3
    <3>3. s[1].do = "map" /\ s[1].page < HeapEnd
      <4>1. s[1].do = "paging" \/ (s[1].do \in {"get_page", "identity_map", "map"} /\ s[1].page < HeapEnd)
        BY <3>2, PlacementIs
      <4> QED BY <1>3, <3>1, <4>1
    <3>4. s[1].page \in HeapPages
      <4>1. s[1].page \in HeapPages \cup ToSet(KernelStack)
        BY <1>5, <3>3 DEF KernelItem
      <4>2. ToSet(KernelStack) \subseteq HeapEnd .. Tables * Entries - 1 /\ HeapEnd \in Nat
        BY LayoutAssumption, MemoryAssumption
      <4> QED BY <3>3, <4>1, <4>2
    <3>5. PageAtHand = s[1].page
      BY <3>2, <1>3, <3>3, PageIs DEF Working
    <3> QED BY <1>1, <1>6, <3>1, <3>4, <3>5 DEF HasTables
  <2> QED BY <2>1
<1>9. MapsInRow(s)'
  <2>1. ASSUME NEW i \in DOMAIN s, s[i].do = "identity_map"
        PROVE  frames' = 0 .. s[i].page - 1 /\ \A p \in frames' : Identity(p)'
    <3>1. frames = 0 .. s[i].page - 1 /\ \A p \in frames : Identity(p)
      BY <1>6, <2>1 DEF MapsInRow
    <3>2. s[i] \in KernelItem
      BY <1>3, <1>5
    <3>3. s[i].page \in EveryPage
      <4>1. s[i].page \in IdentityPages
        BY <2>1, <3>2 DEF KernelItem
      <4> QED BY <4>1, EveryPageIs
    <3>4. frames \subseteq EveryPage
      <4>1. Tables * Entries \in Nat
        BY MemoryAssumption, ProductOrder
      <4> DEFINE z == Tables * Entries
      <4> HIDE DEF z
      <4>2. z \in Nat /\ s[i].page \in 0 .. z - 1
        BY <3>3, <4>1 DEF EveryPage, z
      <4>3. frames \subseteq 0 .. z - 1
        BY <3>1, <4>2
      <4> QED BY <4>3 DEF EveryPage, z
    <3> QED BY <1>1, <1>7, <3>1, <3>4
  <2> QED BY <2>1 DEF MapsInRow
<1>10. HasMapped(s)'
  BY <1>8 DEF HasMapped, NoIdentity
<1>11. HasTables(s)'
  <2>1. ASSUME NEW p \in HeapPages
        PROVE  TableOf(kernel, p)' # 0 \/ \E i \in DOMAIN s : s[i].do = "get_page" /\ s[i].page = p
    <3>1. p \in EveryPage
      BY HeapPairsAre
    <3> QED BY <1>6, <3>1 DEF HasTables
  <2> QED BY <2>1 DEF HasTables, HeapPages
<1>12. PagingAhead(s)'
  BY <1>6 DEF PagingAhead, AfterPaging
<1>13. HeapAhead(s)'
  <2>1. FramesOf(kernel)' = FramesOf(kernel)
    BY DEF FramesOf
  <2> QED BY <1>1, <1>6, <2>1 DEF HeapAhead, InOrder, NotTouched, HeapPairs
<1> QED BY <1>4, <1>9, <1>10, <1>11, <1>12, <1>13
   DEF BeforePaging, MapsInRow, HasMapped, HasTables, PagingAhead, HeapAhead, InOrder, NotTouched, HeapPairs

\* A table is made: nothing that was reached moves.
LEMMA MakeTableGoesOn ==
  ASSUME Working, MapsFit, OrderFits, MakeTable
  PROVE  MapsFit' /\ OrderFits' /\ KeepFrames
<1>1. PICK a \in Addresses(PageSize) :
        /\ AllocAligned(PageSize, a) /\ TableMade(PageAtHand, a)
        /\ a \in Nat \ {0} /\ a \notin DOMAIN pages \cup DOMAIN directories
        /\ a = (a \div PageSize) * PageSize
        /\ placement # 0 => a >= placement
        /\ placement = 0 => a \div PageSize \in HeapPages \ heap
  BY TableIsMade
<1>2. /\ TableOf(target, PageAtHand) = 0
      /\ UNCHANGED <<tasks, cores, target, wand, frames, kernel, active, others, memory, todo, halted>>
  BY DEF MakeTable, NeedsTable, making
<1>3. PICK what \in {"get_page", "identity_map", "map", "copy", "device"} : Step(what)
  BY DEF MakeTable, NeedsTable
<1>4. PICK s, rest : Doing(s, rest) /\ s # <<>> /\ s[1].do = what /\ Head(todo) = s[1]
  BY <1>3, StepIs
<1>5. PICK page \in EveryPage : page = PageAtHand
  BY <1>4, PageIs DEF Working
<1>6. TableMade(page, a) /\ TableOf(target, page) = 0
  BY <1>1, <1>2, <1>5
<1>7. target \in DOMAIN directories /\ kernel \in DOMAIN directories /\ SpacesFit
  BY TargetIs DEF Working, SpacesFit
<1>8. \A d \in DOMAIN directories : \A p \in EveryPage :
        /\ FrameOf(d, p)' = FrameOf(d, p)
        /\ TableOf(d, p) # 0 => TableOf(d, p)' = TableOf(d, p)
  BY <1>1, <1>6, <1>7, FramesOfTables
<1>9. \A p \in EveryPage : /\ FrameOf(kernel, p)' = FrameOf(kernel, p)
                           /\ TableOf(kernel, p) # 0 => TableOf(kernel, p)' # 0
  <2>1. PICK d : d = kernel
    OBVIOUS
  <2>2. \A p \in EveryPage : /\ FrameOf(d, p)' = FrameOf(d, p)
                             /\ TableOf(d, p) # 0 => TableOf(d, p)' = TableOf(d, p)
    BY <1>7, <1>8, <2>1
  <2>3. kernel' = d
    BY <1>2, <2>1
  <2> QED BY <2>1, <2>2, <2>3
<1>10. Reach(a)' /\ Means(a)' = Physical(a) /\ ReachGrows /\ PlacedFits'
  BY <1>1, <1>2, <1>9, TableReached DEF MapsFit
<1>11. AllSayWhere'
  BY <1>6, <1>10, TablesSayWhere DEF MapsFit
<1>12. SharedTables'
  BY <1>1, <1>2, <1>6, TablesStayShared DEF MapsFit
<1>13. DirectoriesFit' /\ FramesInRow'
  <2>1. DOMAIN directories' = DOMAIN directories
    BY <1>1 DEF TableMade
  <2> QED BY <1>2, <2>1 DEF MapsFit, DirectoriesFit, FramesInRow
<1>14. placement = 0 => placement' = 0 /\ placed' = placed
  BY <1>1 DEF AllocAligned
<1>15. placement # 0 => placement' # 0
  <2>1. placement # 0 => placement' = a + PageSize
    BY <1>1 DEF AllocAligned
  <2> QED BY <1>1, <2>1, MemoryAssumption
<1>16. KernelPaged'
  <2>1. CASE placement = 0
    BY <1>2, <1>9, <1>14, <2>1, PagedStays DEF MapsFit
  <2>2. CASE placement # 0
    BY <1>15, <2>2 DEF KernelPaged
  <2> QED BY <2>1, <2>2
<1>17. Now' = Now
  BY <1>2 DEF Now
<1>18. KernelInOrder'
  <2>1. CASE tasks # <<>>
    BY <1>2, <2>1 DEF KernelInOrder
  <2>2. CASE tasks = <<>> /\ placement # 0
    <3>1. BeforePaging(Now)
      BY <2>2 DEF OrderFits, KernelInOrder
    <3>2. BeforePaging(Now)'
      BY <1>9, <2>2, <3>1, TableKeepsOrder
    <3> QED BY <1>15, <2>2, <3>2 DEF KernelInOrder
  <2>3. CASE tasks = <<>> /\ placement = 0
    BY <1>2, <1>14, <1>17, <2>3, AfterPagingStays DEF OrderFits
  <2> QED BY <2>1, <2>2, <2>3
<1>20. TasksSeeTheSame
  <2>1. ASSUME NEW i \in DOMAIN tasks, NEW p \in TaskPages
        PROVE  FrameOf(tasks[i].directory, p)' = FrameOf(tasks[i].directory, p)
    <3>1. PICK d : d = tasks[i].directory
      OBVIOUS
    <3>2. d \in DOMAIN directories /\ p \in EveryPage /\ tasks'[i].directory = d
      BY <1>2, <3>1, TaskIs, EveryPageIs DEF Working
    <3>3. FrameOf(d, p)' = FrameOf(d, p)
      BY <1>8, <3>2
    <3> QED BY <3>1, <3>2, <3>3
  <2> QED BY <2>1 DEF TasksSeeTheSame
<1>19. TasksInOrder'
  <2>2. Now \in Seq(Items) /\ Now' \in Seq(Items)
    BY <1>4, <1>17, NowIs, DoingIs
  <2> QED BY <1>2, <1>17, <1>20, <2>2, TasksStayInOrder DEF Working, OrderFits
<1>21. KeepFrames
  <2>1. \A p \in HeapPages : FrameOf(kernel, p)' = FrameOf(kernel, p)
    BY <1>9, HeapPairsAre
  <2> QED BY <1>2, <1>20, <2>1, SameFramesAreKept
<1> QED BY <1>10, <1>11, <1>12, <1>13, <1>16, <1>18, <1>19, <1>21 DEF MapsFit, OrderFits

-----------------------------------------------------------------------------
(* Pages that follow each other.                                           *)

\* A page gets its frame right before the next one does.
Leads(s, program, p) ==
  \E i \in DOMAIN s : Touches(s[i], program, p) /\ Follows(s, program, p, i)

\* Where all do, in what is still to be done, the pages are in order whatever
\* frames they have.
LEMMA LeadsInOrder ==
  ASSUME NEW s, NEW program, ItemsApart(s, program), NEW P, P \subseteq EveryPage,
         \A p \in P : Leads(s, program, p), NEW F, NEW marked
  PROVE  InOrder(s, program, P, F, marked)
<1>1. ASSUME NEW p \in P
      PROVE  /\ \A i \in DOMAIN s : Touches(s[i], program, p) => Follows(s, program, p, i)
             /\ ~NotTouched(s, program, p)
  <2>1. p \in EveryPage
    OBVIOUS
  <2>2. PICK j \in DOMAIN s : Touches(s[j], program, p) /\ Follows(s, program, p, j)
    BY DEF Leads
  <2>3. ASSUME NEW i \in DOMAIN s, Touches(s[i], program, p) PROVE Follows(s, program, p, i)
    <3>1. i = j
      BY <2>1, <2>2, <2>3 DEF ItemsApart
    <3> QED BY <2>2, <3>1
  <2> QED BY <2>2, <2>3 DEF NotTouched
<1> QED BY <1>1 DEF InOrder

\* What is done before and behind does not matter to it.
LEMMA LeadsConcat ==
  ASSUME NEW S, NEW a \in Seq(S), NEW b \in Seq(S), NEW program, NEW p,
         Leads(a, program, p) \/ Leads(b, program, p)
  PROVE  Leads(a \o b, program, p)
<1> DEFINE c == a \o b
<1>1. /\ c \in Seq(S) /\ Len(c) = Len(a) + Len(b) /\ Len(a) \in Nat /\ Len(b) \in Nat
      /\ DOMAIN a = 1 .. Len(a) /\ DOMAIN b = 1 .. Len(b) /\ DOMAIN c = 1 .. Len(c)
      /\ \A i \in 1 .. Len(a) : c[i] = a[i]
      /\ \A i \in 1 .. Len(b) : c[Len(a) + i] = b[i]
  BY ConcatAt
<1> HIDE DEF c
<1>2. CASE Leads(a, program, p)
  <2>1. PICK i \in DOMAIN a : Touches(a[i], program, p) /\ Follows(a, program, p, i)
    BY <1>2 DEF Leads
  <2>2. i \in DOMAIN c /\ c[i] = a[i]
    BY <1>1, <2>1
  <2>3. i + 1 \in DOMAIN a => i + 1 \in DOMAIN c /\ c[i + 1] = a[i + 1]
    BY <1>1, <2>1
  <2>4. Follows(c, program, p, i)
    BY <2>1, <2>2, <2>3 DEF Follows
  <2> QED BY <2>1, <2>2, <2>4 DEF Leads, c
<1>3. CASE Leads(b, program, p)
  <2>1. PICK i \in DOMAIN b : Touches(b[i], program, p) /\ Follows(b, program, p, i)
    BY <1>3 DEF Leads
  <2>2. PICK j : j = Len(a) + i
    OBVIOUS
  <2>3. j \in DOMAIN c /\ c[j] = b[i]
    BY <1>1, <2>1, <2>2
  <2>4. i + 1 \in DOMAIN b => j + 1 \in DOMAIN c /\ c[j + 1] = b[i + 1]
    <3>1. ASSUME i + 1 \in DOMAIN b PROVE j + 1 = Len(a) + (i + 1)
      BY <1>1, <2>1, <2>2
    <3> QED BY <1>1, <2>1, <3>1
  <2>5. Follows(c, program, p, j)
    BY <2>1, <2>3, <2>4 DEF Follows
  <2> QED BY <2>1, <2>3, <2>5 DEF Leads, c
<1> QED BY <1>2, <1>3

\* A call for each page of a sequence.
LEMMA OnPagesIsSequence ==
  ASSUME NEW what, NEW s \in Seq(Nat), NEW items, [do : {what}, page : ToSet(s)] \subseteq items
  PROVE  /\ OnPages(what, s) \in Seq(items) /\ DOMAIN OnPages(what, s) = DOMAIN s
         /\ \A i \in DOMAIN s : OnPages(what, s)[i] = [do |-> what, page |-> s[i]]
<1> DEFINE c == OnPages(what, s)
<1>1. Len(s) \in Nat /\ DOMAIN s = 1 .. Len(s) /\ \A i \in DOMAIN s : s[i] \in ToSet(s)
  BY DEF ToSet
<1>2. c = [i \in 1 .. Len(s) |-> [do |-> what, page |-> s[i]]]
  BY <1>1 DEF OnPages
<1>3. \A i \in 1 .. Len(s) : [do |-> what, page |-> s[i]] \in items
  BY <1>1
<1>4. c \in [1 .. Len(s) -> items]
  BY <1>2, <1>3
<1>5. c \in Seq(items)
  BY <1>1, <1>4, IsSequence
<1> QED BY <1>1, <1>2, <1>5

\* What follows in value follows in place.
LEMMA NextIndex ==
  ASSUME NEW b \in Nat, NEW i \in Nat, NEW j \in Nat, b + (j - 1) = b + (i - 1) + 1
  PROVE  j = i + 1
OBVIOUS

\* Pages that follow each other are mapped one after the other.
LEMMA OnPagesLead ==
  ASSUME NEW s \in Seq(Nat), \A i \in DOMAIN s : s[i] = s[1] + (i - 1), NEW program,
         NEW p, {p, p + 1} \subseteq ToSet(s)
  PROVE  Leads(OnPages("map", s), program, p)
<1> DEFINE c == OnPages("map", s)
           items == [do : {"map"}, page : ToSet(s)]
<1>1. DOMAIN c = DOMAIN s /\ \A i \in DOMAIN s : c[i] = [do |-> "map", page |-> s[i]]
  BY OnPagesIsSequence
<1>2. PICK i, j \in DOMAIN s : s[i] = p /\ s[j] = p + 1
  BY DEF ToSet
<1>3. i \in Nat /\ j \in Nat /\ s[1] \in Nat /\ 1 \in DOMAIN s
  BY <1>2, SMTT(30)
<1>4. j = i + 1
  <2>1. PICK b \in Nat : b = s[1]
    BY <1>3
  <2>2. b + (j - 1) = b + (i - 1) + 1
    BY <1>2, <2>1
  <2> QED BY <1>3, <2>2, NextIndex
<1>5. Touches(c[i], program, p) /\ Touches(c[j], program, p + 1)
  <2> HIDE DEF c
  <2>1. c[i] = [do |-> "map", page |-> p] /\ c[j] = [do |-> "map", page |-> p + 1]
    BY <1>1, <1>2, Zenon
  <2>2. c[i].do = "map" /\ c[i].page = p /\ c[j].do = "map" /\ c[j].page = p + 1
    BY <2>1
  <2> QED BY <2>2 DEF Touches
<1>6. Follows(c, program, p, i)
  BY <1>1, <1>2, <1>4, <1>5 DEF Follows
<1> QED BY <1>1, <1>2, <1>5, <1>6 DEF Leads

\* An image is copied segment by segment.
LEMMA CopiesLead ==
  ASSUME NEW program \in AllPrograms, NEW c,
         c = [i \in DOMAIN program.segments |-> [do |-> "copy", segment |-> i, copied |-> 0]],
         NEW g \in ToSet(program.segments), NEW p, {p, p + 1} \subseteq SegmentPages(g)
  PROVE  Leads(c, program, p)
<1>1. PICK i \in DOMAIN program.segments : program.segments[i] = g
  BY DEF ToSet
<1>2. c[i] = [do |-> "copy", segment |-> i, copied |-> 0] /\ i \in DOMAIN c
  BY <1>1
<1>3. /\ g.virt \in Nat /\ g.virt \div PageSize \in Nat
      /\ (g.virt + g.memsz - 1) \div PageSize \in Nat
  BY <1>1, SegmentIs
<1>4. ASSUME NEW q \in SegmentPages(g) PROVE Touches(c[i], program, q)
  <2>1. g.virt \div PageSize <= q /\ q <= (g.virt + g.memsz - 1) \div PageSize
    BY <1>3 DEF SegmentPages
  <2>2. g.virt + 0 = g.virt
    BY <1>3
  <2> QED BY <1>1, <1>2, <2>1, <2>2 DEF Touches
<1>5. Touches(c[i], program, p) /\ Touches(c[i], program, p + 1)
  BY <1>4
<1> QED BY <1>2, <1>5 DEF Leads, Follows

\* Of a program that is made a task of, the heap and the image are in order.
LEMMA AfterCloneLeads ==
  ASSUME NEW program \in AllPrograms, NEW p \in PairsOf(program)
  PROVE  Leads(AfterClone(program), program, p)
<1> DEFINE A == IF program.kind = "idle" THEN <<>> ELSE OnPages("map", TaskStack)
           B == <<[do |-> "stack", size |-> TaskKernelStack]>>
           C == IF program.kind = "idle" THEN <<>> ELSE <<Do("arguments")>>
           D == OnPages("map", TaskHeap)
           K == [i \in DOMAIN program.segments |-> [do |-> "copy", segment |-> i, copied |-> 0]]
           T == <<Do("take_wand")>>
           U == <<Do("put_wand_back")>>
           W == IF program.kind = "elf" THEN T \o K \o U ELSE <<>>
<1>1. /\ TaskStack \in Seq(Nat) /\ TaskHeap \in Seq(Nat)
      /\ \A i \in DOMAIN TaskHeap : TaskHeap[i] = TaskHeap[1] + (i - 1)
      /\ program.kind # "elf" => program.segments = <<>>
  BY LayoutAssumption, ProgramsAssumption
<1>2. A \in Seq(TaskItem)
  <2>1. [do : {"map"}, page : ToSet(TaskStack)] \subseteq TaskItem
    BY DEF TaskItem
  <2>2. OnPages("map", TaskStack) \in Seq(TaskItem)
    BY <1>1, <2>1, OnPagesIsSequence
  <2> QED BY <2>2
<1>3. D \in Seq(TaskItem)
  <2>1. [do : {"map"}, page : ToSet(TaskHeap)] \subseteq TaskItem
    BY DEF TaskItem
  <2> QED BY <1>1, <2>1, OnPagesIsSequence
<1>4. B \in Seq(TaskItem)
  <2> DEFINE b == [do |-> "stack", size |-> TaskKernelStack]
  <2>1. b \in TaskItem
    BY DEF TaskItem
  <2> HIDE DEF b
  <2>2. <<b>> \in Seq(TaskItem)
    BY <2>1
  <2> QED BY <2>2 DEF b
<1>5. C \in Seq(TaskItem) /\ T \in Seq(TaskItem) /\ U \in Seq(TaskItem)
  <2>1. Do("arguments") \in TaskItem /\ Do("take_wand") \in TaskItem /\ Do("put_wand_back") \in TaskItem
    BY DEF TaskItem, Do
  <2>2. \A y \in TaskItem : <<y>> \in Seq(TaskItem)
    OBVIOUS
  <2>3. <<Do("arguments")>> \in Seq(TaskItem) /\ T \in Seq(TaskItem) /\ U \in Seq(TaskItem)
    BY <2>1, <2>2
  <2> QED BY <2>3
<1>6. K \in Seq(TaskItem)
  <2>1. Bare(K, TaskItem, program)
    BY CopiesAreBare
  <2> QED BY <2>1 DEF Bare
<1>7. AfterClone(program) = A \o B \o C \o D \o W
  BY DEF AfterClone
<1>8. /\ {p, p + 1} \subseteq ToSet(TaskHeap) => Leads(D, program, p)
      /\ \A g \in ToSet(program.segments) :
           {p, p + 1} \subseteq SegmentPages(g) => Leads(K, program, p)
  <2>1. ASSUME {p, p + 1} \subseteq ToSet(TaskHeap) PROVE Leads(D, program, p)
    BY <1>1, <2>1, OnPagesLead
  <2>2. ASSUME NEW g \in ToSet(program.segments), {p, p + 1} \subseteq SegmentPages(g)
        PROVE  Leads(K, program, p)
    BY <2>2, CopiesLead
  <2> QED BY <2>1, <2>2
<1> HIDE DEF A, B, C, D, K, T, U
<1>9. T \o K \in Seq(TaskItem) /\ (T \o K) \o U \in Seq(TaskItem)
  BY <1>5, <1>6
<1>10. W \in Seq(TaskItem)
  BY <1>9
<1>11. /\ A \o B \in Seq(TaskItem) /\ A \o B \o C \in Seq(TaskItem)
       /\ A \o B \o C \o D \in Seq(TaskItem)
  BY <1>2, <1>3, <1>4, <1>5
<1>12. CASE {p, p + 1} \subseteq ToSet(TaskHeap)
  <2>1. Leads(D, program, p)
    BY <1>8, <1>12
  <2>2. Leads(A \o B \o C \o D, program, p)
    BY <1>3, <1>11, <2>1, LeadsConcat
  <2>3. Leads(A \o B \o C \o D \o W, program, p)
    BY <1>10, <1>11, <2>2, LeadsConcat
  <2> QED BY <1>7, <2>3
<1>13. ASSUME NEW g \in ToSet(program.segments), {p, p + 1} \subseteq SegmentPages(g)
       PROVE  Leads(AfterClone(program), program, p)
  <2>1. Leads(K, program, p)
    BY <1>8, <1>13
  <2>2. program.kind = "elf"
    <3>1. ToSet(<<>>) = {}
      BY DEF ToSet
    <3> QED BY <1>1, <1>13, <3>1
  <2>3. Leads(T \o K, program, p)
    BY <1>5, <1>6, <2>1, LeadsConcat
  <2>4. Leads(T \o K \o U, program, p)
    BY <1>5, <1>9, <2>3, LeadsConcat
  <2>5. Leads(W, program, p)
    BY <2>2, <2>4
  <2>6. Leads(A \o B \o C \o D \o W, program, p)
    <3> HIDE DEF W
    <3> QED BY <1>10, <1>11, <2>5, LeadsConcat
  <2> QED BY <1>7, <2>6
<1> QED BY <1>12, <1>13 DEF PairsOf

\* So it is in order, whatever frames the pages of a new directory have.
LEMMA AfterCloneInOrder ==
  ASSUME NEW program \in AllPrograms, NEW F, NEW marked
  PROVE  InOrder(AfterClone(program), program, PairsOf(program), F, marked)
<1>1. ItemsApart(AfterClone(program), program)
  BY AfterCloneFits DEF Bare
<1>2. PairsOf(program) \subseteq EveryPage
  BY PairsAre
<1>3. \A p \in PairsOf(program) : Leads(AfterClone(program), program, p)
  BY AfterCloneLeads
<1> QED BY <1>1, <1>2, <1>3, LeadsInOrder

-----------------------------------------------------------------------------
(* A directory is cloned.                                                  *)

\* A directory takes two pages of the heap, and more.
LEMMA NextPageOfHole ==
  ASSUME NEW q \in Nat, NEW n \in Nat, n >= 2, q \in Holes(n)
  PROVE  q + 1 \in HeapPages \ heap
<1>1. Cardinality(HoleFrom(q)) >= n /\ q \in HeapPages \ heap
  BY DEF Holes
<1>2. HoleFrom(q) \subseteq HeapPages /\ HeapPages \subseteq Nat /\ IsFiniteSet(HeapPages)
  <2>1. HeapStart \in Nat /\ HeapEnd \in Nat
    BY MemoryAssumption
  <2>2. IsFiniteSet(HeapStart .. HeapEnd - 1)
    BY <2>1, FS_Interval
  <2> QED BY <2>1, <2>2 DEF HeapPages, HoleFrom
<1>3. ASSUME q + 1 \notin HeapPages \ heap PROVE HoleFrom(q) \subseteq {q}
  <2>1. ASSUME NEW x \in HoleFrom(q), x # q PROVE FALSE
    <3>1. x \in Nat /\ x >= q /\ (q .. x) \subseteq HeapPages \ heap
      BY <1>2 DEF HoleFrom
    <3>2. q + 1 \in q .. x
      BY <2>1, <3>1
    <3> QED BY <1>3, <3>1, <3>2
  <2> QED BY <2>1
<1>4. Cardinality({q}) = 1 /\ IsFiniteSet({q})
  BY FS_Singleton
<1>5. ASSUME HoleFrom(q) \subseteq {q} PROVE FALSE
  <2>1. Cardinality(HoleFrom(q)) <= 1
    BY <1>4, <1>5, FS_Subset
  <2>2. Cardinality(HoleFrom(q)) \in Nat
    BY <1>4, <1>5, FS_Subset, FS_CardinalityType
  <2> QED BY <1>1, <2>1, <2>2
<1> QED BY <1>3, <1>5

\* Where a multiple begins.
LEMMA MultipleIs ==
  ASSUME NEW S \in Nat \ {0}, NEW q \in Nat, NEW b, b = q * S
  PROVE  b \div S = q /\ b % S = 0
<1>1. 0 \in 0 .. S - 1 /\ q * S + 0 = q * S
  OBVIOUS
<1>2. (q * S + 0) \div S = q /\ (q * S + 0) % S = 0
  BY <1>1, QuotientIs
<1> QED BY <1>1, <1>2

\* The second page of a directory, where its physical tables are.
LEMMA SecondPageIs ==
  ASSUME AllocationFits, placement = 0, NEW a \in Addresses(DirectorySize),
         AllocAligned(DirectorySize, a)
  PROVE  /\ a \in Nat \ {0} /\ a \div PageSize \in HeapPages \ heap
         /\ (a + PageSize) \div PageSize = a \div PageSize + 1
         /\ (a + PageSize) % PageSize = 0 /\ a % PageSize = 0
         /\ a \div PageSize + 1 \in HeapPages \ heap /\ a \div PageSize + 1 \in heap'
<1>1. DirectorySize \in Nat \ {0} /\ PageSize \in Nat \ {0} /\ 2 * PageSize <= DirectorySize
      /\ 2 * PageSize \in Nat
  BY MemoryAssumption DEF DirectorySize
<1>2. /\ a \in Nat \ {0} /\ a \div PageSize \in Nat /\ a = (a \div PageSize) * PageSize
      /\ a \div PageSize \in HeapPages \ heap
  BY <1>1, AddressesAreNew
<1>3. PagesFor(DirectorySize) \in Nat /\ PagesFor(DirectorySize) >= 2
  <2>1. Aligned(DirectorySize) \in Nat /\ 2 * PageSize <= Aligned(DirectorySize)
    BY <1>1, AlignedIs
  <2>2. (2 * PageSize) \div PageSize = 2
    BY <1>1, QuotientIs
  <2>3. (2 * PageSize) \div PageSize <= Aligned(DirectorySize) \div PageSize
    BY <1>1, <2>1, QuotientOrder
  <2>4. Aligned(DirectorySize) \div PageSize \in Nat
    BY <1>1, <2>1, QuotientAndRest
  <2> QED BY <2>2, <2>3, <2>4 DEF PagesFor
<1>4. PICK q \in Nat : q = a \div PageSize
  BY <1>2
<1>5. q \in Holes(PagesFor(DirectorySize))
  <2>1. PICK p \in SmallestHoles(PagesFor(DirectorySize)) : a = p * PageSize
    BY DEF Addresses
  <2>2. p \in Nat /\ p \in Holes(PagesFor(DirectorySize))
    BY MemoryAssumption DEF SmallestHoles, Holes, HeapPages
  <2>3. p = q
    BY <1>1, <1>4, <2>1, <2>2, QuotientIs
  <2> QED BY <2>2, <2>3
<1>6. q + 1 \in HeapPages \ heap
  BY <1>3, <1>5, NextPageOfHole
<1>7. q + 1 \in heap'
  <2>1. heap' = heap \cup (q .. q + PagesFor(DirectorySize) - 1)
    BY <1>4 DEF AllocAligned
  <2>2. q + 1 \in q .. q + PagesFor(DirectorySize) - 1
    BY <1>3
  <2> QED BY <2>1, <2>2
<1>8. /\ (a + PageSize) \div PageSize = q + 1 /\ (a + PageSize) % PageSize = 0
      /\ a % PageSize = 0
  <2>1. a = q * PageSize /\ a + PageSize = (q + 1) * PageSize /\ q + 1 \in Nat
    BY <1>1, <1>2, <1>4
  <2>2. PICK b, e : b = a /\ e = a + PageSize
    OBVIOUS
  <2>3. e \div PageSize = q + 1 /\ e % PageSize = 0 /\ b % PageSize = 0
    BY <1>1, <2>1, <2>2, MultipleIs
  <2> QED BY <2>2, <2>3
<1> QED BY <1>2, <1>4, <1>6, <1>7, <1>8

\* Where the new directory's physical tables are is reached from then on, and
\* nothing that was reached moves.
LEMMA CloneReached ==
  ASSUME Working, MapsFit, placement = 0, wand = NoWand, NEW a \in Addresses(DirectorySize),
         AllocAligned(DirectorySize, a), UNCHANGED <<kernel, wand, others>>,
         \A p \in EveryPage : FrameOf(kernel, p)' = FrameOf(kernel, p)
  PROVE  /\ Reach(a + PageSize)' /\ Means(a + PageSize)' = Physical(a) + PageSize
         /\ ReachGrows /\ PlacedFits' /\ placement' = placement /\ placed' = placed
<1> DEFINE q == a \div PageSize
           c == a + PageSize
<1>1. /\ a \in Nat \ {0} /\ q \in HeapPages \ heap
      /\ c \div PageSize = q + 1 /\ c % PageSize = 0 /\ a % PageSize = 0
      /\ q + 1 \in HeapPages \ heap /\ q + 1 \in heap'
  BY SecondPageIs DEF Working
<1>2. /\ PageSize \in Nat \ {0} /\ DirectorySize \in Nat \ {0} /\ placed \in Nat
      /\ AllocationFits /\ SpacesFit /\ KernelPaged
  BY MemoryAssumption DEF DirectorySize, MapsFit, PlacedFits, Working
<1>3. placement' = placement /\ placed' = placed /\ HeapKept \subseteq HeapKept'
  BY <1>2, HeapGives
<1>4. ReachGrows
  <2>1. ASSUME NEW p \in HeapPages PROVE Home(p)' = Home(p)
    <3>1. p \in EveryPage
      BY HeapPairsAre
    <3> QED BY <3>1 DEF Home
  <2> QED BY <1>2, <1>3, <2>1, ReachStays
<1>5. PlacedFits'
  BY <1>3 DEF MapsFit, PlacedFits, PlacementEnd, Aligned
<1>6. q \in HeapPairs /\ q \in Nat /\ q + 1 \in EveryPage /\ q \in EveryPage
  <2>1. q \in Nat
    BY <1>1, MemoryAssumption DEF HeapPages
  <2>2. q \in EveryPage /\ q + 1 \in EveryPage
    BY <1>1, HeapPairsAre
  <2> QED BY <1>1, <2>1, <2>2 DEF HeapPairs
<1>7. FrameOf(kernel, q + 1) = FrameOf(kernel, q) + 1 /\ FrameOf(kernel, q) \in Nat
  <2>1. PICK r : r = q + 1
    OBVIOUS
  <2>2. r \in HeapPages /\ q \in HeapPages /\ r # 0 /\ q # 0
    BY <1>1, <2>1, HeapPairsAre
  <2>3. Home(r) = FrameOf(kernel, r) /\ Home(q) = FrameOf(kernel, q)
    BY <2>2 DEF Home, NoWand
  <2>4. Home(q + 1) = Home(q) + 1
    BY <1>2, <1>6 DEF KernelPaged
  <2>5. FrameOf(kernel, q) \in Nat
    BY <1>2, <1>6, FrameIs DEF SpacesFit
  <2> QED BY <2>1, <2>3, <2>4, <2>5
<1>8. q + 1 \in HeapKept'
  <2>1. q + 1 # 0 /\ q + 1 \notin others
    BY <1>1, <1>2, <1>6 DEF AllocationFits
  <2> QED BY <1>1, <2>1 DEF HeapKept, Kept, HeapPages, NoWand
<1>9. Reach(c)'
  BY <1>1, <1>2, <1>8 DEF Reach
<1>10. ~(c < placed)
  <2>1. (q + 1) * PageSize < placed => q + 1 \in IdentityPages
    BY <1>6, PlacedIs DEF MapsFit
  <2>2. q + 1 \notin IdentityPages
    <3>1. IdentityPages \subseteq 0 .. HeapStart - 1 /\ HeapStart \in Nat
      BY IdentityPagesAre, MemoryAssumption
    <3> QED BY <1>1, <3>1 DEF HeapPages
  <2>3. c = (q + 1) * PageSize
    <3>1. PICK r \in Nat : r = q
      BY <1>6
    <3>2. a = r * PageSize
      BY <1>2, AddressesAreNew, <3>1
    <3>3. a + PageSize = (r + 1) * PageSize
      BY <1>2, <3>1, <3>2
    <3> QED BY <3>1, <3>3
  <2> QED BY <2>1, <2>2, <2>3
<1>11. Means(c)' = PhysAddr(c)'
  BY <1>3, <1>10 DEF Means
<1>12. PhysAddr(c)' = PhysAddr(c)
  BY <1>1, <1>6 DEF PhysAddr
<1>13. PhysAddr(c) = (FrameOf(kernel, q) + 1) * PageSize
  <2>1. PICK f \in Nat : f = FrameOf(kernel, q)
    BY <1>7
  <2>2. PhysAddr(c) = (f + 1) * PageSize + 0
    BY <1>1, <1>7, <2>1 DEF PhysAddr
  <2>3. (f + 1) * PageSize + 0 = (f + 1) * PageSize
    BY <1>2
  <2> QED BY <2>1, <2>2, <2>3
<1>14. Physical(a) + PageSize = (FrameOf(kernel, q) + 1) * PageSize
  <2>1. PICK f \in Nat : f = FrameOf(kernel, q)
    BY <1>7
  <2>2. Physical(a) = f * PageSize + 0
    BY <1>1, <2>1 DEF Physical, PhysAddr
  <2>3. f * PageSize + 0 + PageSize = (f + 1) * PageSize
    BY <1>2
  <2> QED BY <2>1, <2>2, <2>3
<1> QED BY <1>3, <1>4, <1>5, <1>9, <1>11, <1>12, <1>13, <1>14

\* What a clone is.
LEMMA CloneSays ==
  ASSUME SpacesFit, NEW a, GetsClone(a)
  PROVE  /\ directories'[a].tables = directories[kernel].tables
         /\ directories'[a].physicals = directories[kernel].physicals
         /\ directories'[a].physicalAddr = Physical(a) + PageSize
<1> DEFINE K == directories[kernel]
           E == Empty(Physical(a))
           g == K.tables
           h == K.physicals
           x == Physical(a) + PageSize
           C == [E EXCEPT !.tables = g, !.physicals = h]
           mid == [E EXCEPT !.tables = g]
           zero == [t \in 0 .. Tables - 1 |-> 0]
<1>1. E = [tables |-> zero, physicals |-> zero, physicalAddr |-> x]
  BY DEF Empty
<1>2. directories'[a] = C
  BY DEF GetsClone, With
<1> HIDE DEF g, h, x, zero, E
<1>3. mid = [tables |-> g, physicals |-> zero, physicalAddr |-> x]
  BY <1>1
<1>4. C = [mid EXCEPT !.physicals = h]
  OBVIOUS
<1> HIDE DEF mid
<1>5. C = [tables |-> g, physicals |-> h, physicalAddr |-> x]
  BY <1>3, <1>4
<1> HIDE DEF C
<1>6. C.tables = g /\ C.physicals = h /\ C.physicalAddr = x
  BY <1>5
<1> QED BY <1>2, <1>6 DEF g, h, x

\* The directories say where they and their tables are, the clone too.
LEMMA CloneSaysWhere ==
  ASSUME SpacesFit, AllSayWhere, ReachGrows, NEW a, GetsClone(a),
         DOMAIN directories' = DOMAIN directories \cup {a},
         \A d \in DOMAIN directories : directories'[d] = directories[d],
         Reach(a + PageSize)', Means(a + PageSize)' = Physical(a) + PageSize
  PROVE  AllSayWhere'
<1>0. kernel \in DOMAIN directories
  BY DEF SpacesFit
<1>1. ASSUME NEW d \in DOMAIN directories PROVE SaysWhere(directories[d], d)'
  <2>1. PICK directory : directory = directories[d]
    OBVIOUS
  <2>2. directory = directories'[d]
    BY <2>1
  <2>3. SaysWhere(directory, d)
    BY <2>1 DEF AllSayWhere
  <2>4. SaysWhere(directory, d)'
    BY <2>3, SaysWhereStays
  <2> QED BY <2>2, <2>4
<1>2. SaysWhere(directories[a], a)'
  <2>1. PICK directory, own : directory = directories'[a] /\ own = directories[kernel]
    OBVIOUS
  <2>2. /\ directory.tables = own.tables /\ directory.physicals = own.physicals
        /\ directory.physicalAddr = Physical(a) + PageSize
    BY <2>1, CloneSays
  <2>3. \A t \in AllTables : own.tables[t] # 0 =>
          Reach(own.tables[t]) /\ own.physicals[t] = Means(own.tables[t])
    BY <1>0, <2>1 DEF AllSayWhere, SaysWhere
  <2>4. ASSUME NEW t \in AllTables, directory.tables[t] # 0
        PROVE  Reach(directory.tables[t])' /\ directory.physicals[t] = Means(directory.tables[t])'
    <3>1. PICK b : b = directory.tables[t]
      OBVIOUS
    <3>2. Reach(b) /\ directory.physicals[t] = Means(b)
      BY <2>2, <2>3, <2>4, <3>1
    <3>3. Reach(b)' /\ Means(b)' = Means(b)
      BY <3>2 DEF ReachGrows
    <3> QED BY <3>1, <3>2, <3>3
  <2>5. SaysWhere(directory, a)'
    BY <2>2, <2>4 DEF SaysWhere
  <2> QED BY <2>1, <2>5
<1> QED BY <1>1, <1>2 DEF AllSayWhere

\* The clone has the tables of the kernel, and no others.
LEMMA ClonesShare ==
  ASSUME SpacesFit, SharedTables, NEW a, GetsClone(a), a \notin DOMAIN directories,
         DOMAIN directories' = DOMAIN directories \cup {a}, kernel' = kernel,
         \A d \in DOMAIN directories : directories'[d] = directories[d]
  PROVE  SharedTables'
<1> DEFINE As(d) == IF d = a THEN kernel ELSE d
<1>1. kernel \in DOMAIN directories /\ directories'[a].tables = directories[kernel].tables
  BY CloneSays DEF SpacesFit
<1>2. \A d \in DOMAIN directories' : As(d) \in DOMAIN directories
                                     /\ directories'[d].tables = directories[As(d)].tables
  BY <1>1
<1>3. directories'[kernel].tables = directories[kernel].tables
  BY <1>1
<1>4. ASSUME NEW d \in DOMAIN directories', NEW e \in DOMAIN directories', NEW t \in AllTables
      PROVE  /\ directories'[kernel].tables[t] # 0 =>
                   directories'[d].tables[t] = directories'[kernel].tables[t]
             /\ d # e /\ directories'[d].tables[t] = directories'[e].tables[t] =>
                   directories'[d].tables[t] = 0 \/ directories'[kernel].tables[t] # 0
  <2>1. /\ As(d) \in DOMAIN directories /\ directories'[d].tables = directories[As(d)].tables
        /\ As(e) \in DOMAIN directories /\ directories'[e].tables = directories[As(e)].tables
    BY <1>2
  <2>2. /\ directories[kernel].tables[t] # 0 =>
             directories[As(d)].tables[t] = directories[kernel].tables[t]
        /\ As(d) # As(e) /\ directories[As(d)].tables[t] = directories[As(e)].tables[t] =>
             directories[As(d)].tables[t] = 0 \/ directories[kernel].tables[t] # 0
    BY <1>1, <2>1 DEF SharedTables
  <2>3. d # e /\ As(d) = As(e) => As(d) = kernel
    OBVIOUS
  <2> HIDE DEF As
  <2> QED BY <1>3, <2>1, <2>2, <2>3
<1> QED BY <1>4 DEF SharedTables

\* A task whose frames stay is in order as before.
LEMMA TaskStaysInOrder ==
  ASSUME NEW task, NEW s, TaskInOrder(task, s), frames' = frames,
         \A p \in EveryPage : FrameOf(task.directory, p)' = FrameOf(task.directory, p)
  PROVE  TaskInOrder(task, s)'
<1>1. CASE task.program.kind = "initial"
  <2>1. \A p \in TaskPages : FrameOf(task.directory, p) = NoFrame
    BY <1>1 DEF TaskInOrder
  <2>2. \A p \in TaskPages : p \in EveryPage
    BY EveryPageIs
  <2>3. \A p \in TaskPages : FrameOf(task.directory, p)' = NoFrame
    BY <2>1, <2>2
  <2> QED BY <1>1, <2>3 DEF TaskInOrder, NoFrame
<1>2. CASE task.program.kind # "initial"
  <2>1. FramesOf(task.directory)' = FramesOf(task.directory)
    BY DEF FramesOf
  <2>2. InOrder(s, task.program, PairsOf(task.program), FramesOf(task.directory), frames)
    BY <1>2 DEF TaskInOrder
  <2>3. InOrder(s, task.program, PairsOf(task.program), FramesOf(task.directory)', frames')
    BY <2>1, <2>2
  <2> QED BY <1>2, <2>3 DEF TaskInOrder, InOrder, NotTouched, PairsOf
<1> QED BY <1>1, <1>2

\* A task that is made has what is left in order.
LEMMA NewTaskIsInOrder ==
  ASSUME NEW program \in TaskPrograms, NEW u,
         \/ program = Initial /\ u = <<>>
         \/ program \in AllPrograms /\ u = AfterClone(program),
         NEW a, \A p \in TaskPages : FrameOf(a, p)' = NoFrame,
         NEW task, task = [directory |-> a, program |-> program]
  PROVE  TaskInOrder(task, u)'
<1>1. task.directory = a /\ task.program = program
  OBVIOUS
<1>2. CASE program = Initial /\ u = <<>>
  <2>1. program.kind = "initial"
    BY <1>2 DEF Initial
  <2> QED BY <1>1, <1>2, <2>1 DEF TaskInOrder, NoFrame
<1>3. CASE program \in AllPrograms /\ u = AfterClone(program)
  <2>1. program.kind # "initial"
    BY <1>3, LayoutAssumption
  <2>2. PICK F, marked : F = FramesOf(a)' /\ marked = frames'
    OBVIOUS
  <2>3. InOrder(u, program, PairsOf(program), F, marked)
    BY <1>3, AfterCloneInOrder
  <2>4. InOrder(u, program, PairsOf(program), FramesOf(a)', frames')
    BY <2>2, <2>3
  <2> QED BY <1>1, <2>1, <2>4 DEF TaskInOrder, InOrder, NotTouched, PairsOf
<1> QED BY <1>2, <1>3

\* Before a clone nothing is at hand; after it, what is left for the new task.
LEMMA CloneIsAtHand ==
  ASSUME Working, Step("clone"), Done, NEW program \in TaskPrograms, NEW u, NEW r,
         CloneGoesOn(program, u, r)
  PROVE  Now = <<>> /\ Now' = u
<1>1. /\ r \in Rests /\ Tail(todo) = u \o r /\ Bare(u, TaskItem, program)
      /\ todo # <<>> /\ Head(todo).do = "clone" /\ todo' = u \o r
  BY DEF CloneGoesOn, Step, Done
<1>2. Now = <<>>
  <2>1. PICK s, rest : Doing(s, rest)
    BY DEF Working, TodoFits
  <2>2. Now = s /\ s \in Seq(Items)
    BY <2>1, NowIs, DoingIs
  <2>3. s # <<>> => Head(todo) = s[1] /\ s[1] \in Items
    BY <2>1, DoingIs
  <2>4. Items \subseteq KernelItem \cup TaskItem \cup DeviceItem
    BY DEF Items
  <2> QED BY <1>1, <2>2, <2>3, <2>4, ItemsStay
<1>3. u \in Seq(TaskItem)
  BY <1>1 DEF Bare
<1>4. \A i \in DOMAIN u : u[i].do \notin {"clone", "switch"}
  <2>1. \A i \in DOMAIN u : u[i] \in TaskItem
    BY <1>3
  <2> QED BY <2>1, ItemsStay
<1>5. u \in Seq(TodoItem) /\ r \in Seq(TodoItem)
  <2> DEFINE S == TaskItem
             U == TodoItem
  <2>1. S \subseteq U
    BY DEF TodoItem
  <2> HIDE DEF S, U
  <2>2. u \in Seq(S) => u \in Seq(U)
    BY <2>1
  <2> QED BY <1>1, <1>3, <2>2, RestsAre DEF S, U
<1>6. r = <<>> \/ r[1].do \in {"clone", "switch"}
  BY <1>1, RestsAre, LaterBegins DEF CanBeLater
<1>7. SubSeq(u \o r, 1, Extent(u \o r)) = u
  BY <1>4, <1>5, <1>6, ExtentIs
<1> QED BY <1>1, <1>2, <1>7 DEF Now

\* A task is made.
LEMMA CloneStaysInOrder ==
  ASSUME Working, MapsFit, OrderFits, Clone
  PROVE  MapsFit' /\ OrderFits' /\ KeepFrames
<1>0. DirectorySize \in Nat \ {0}
  BY MemoryAssumption DEF DirectorySize
<1>1. /\ Step("clone") /\ Done
      /\ UNCHANGED <<frames, pages, kernel, active, others, memory, cores, wand, halted>>
  BY DEF Clone
<1>2. PICK a \in Addresses(DirectorySize) :
        /\ AllocAligned(DirectorySize, a) /\ GetsClone(a)
        /\ tasks' = Append(tasks, [directory |-> a, program |-> Head(todo).program])
  BY DEF Clone, GetsClone
<1>3. placement = 0 /\ wand = NoWand
  BY <1>1, CloneIs
<1>4. PICK program, u, r : program \in TaskPrograms /\ CloneGoesOn(program, u, r)
  BY <1>1, CloneIs
<1>5. /\ a \in Nat \ {0} /\ a \notin DOMAIN directories /\ Physical(a) \in Nat /\ SpacesFit
      /\ kernel \in DOMAIN directories
  BY <1>0, <1>2, AddressesAreNew, PhysicalIs DEF Working, SpacesFit
<1>6. /\ DOMAIN directories' = DOMAIN directories \cup {a}
      /\ \A d \in DOMAIN directories : directories'[d] = directories[d]
      /\ directories'[a].tables = directories[kernel].tables
  BY <1>2, <1>5, CloneIsThere
<1> DEFINE Task == [directory : Nat, program : TaskPrograms]
           x == [directory |-> a, program |-> program]
<1>7. tasks \in Seq(Task) /\ x \in Task /\ tasks' = Append(tasks, x)
      /\ x.directory = a /\ x.program = program
  BY <1>2, <1>4, <1>5 DEF Working, TasksFit, CloneGoesOn
<1>8. /\ tasks' \in Seq(Task) /\ tasks' # <<>> /\ Len(tasks) \in Nat
      /\ DOMAIN tasks = 1 .. Len(tasks) /\ Len(tasks') = Len(tasks) + 1
      /\ DOMAIN tasks' = DOMAIN tasks \cup {Len(tasks) + 1}
      /\ \A i \in DOMAIN tasks : tasks'[i] = tasks[i]
      /\ tasks'[Len(tasks) + 1] = x
  <2> HIDE DEF Task, x
  <2> QED BY <1>7, LastOfAppend
<1>9. \A d \in DOMAIN directories : \A p \in EveryPage :
        TableOf(d, p)' = TableOf(d, p) /\ FrameOf(d, p)' = FrameOf(d, p)
  BY <1>1, <1>6 DEF TableOf, FrameOf
<1>10. \A p \in EveryPage : TableOf(kernel, p)' = TableOf(kernel, p)
                            /\ FrameOf(kernel, p)' = FrameOf(kernel, p)
  <2>1. PICK d : d = kernel
    OBVIOUS
  <2>2. \A p \in EveryPage : TableOf(d, p)' = TableOf(d, p) /\ FrameOf(d, p)' = FrameOf(d, p)
    BY <1>5, <1>9, <2>1
  <2>3. kernel' = d
    BY <1>1, <2>1
  <2> QED BY <2>1, <2>2, <2>3
<1>11. /\ Reach(a + PageSize)' /\ Means(a + PageSize)' = Physical(a) + PageSize
       /\ ReachGrows /\ PlacedFits' /\ placement' = placement /\ placed' = placed
  BY <1>1, <1>2, <1>3, <1>10, CloneReached
<1>12. AllSayWhere'
  BY <1>2, <1>5, <1>6, <1>11, CloneSaysWhere DEF MapsFit
<1>13. SharedTables'
  BY <1>1, <1>2, <1>5, <1>6, ClonesShare DEF MapsFit
<1>14. DirectoriesFit'
  <2>1. \A i, j \in DOMAIN tasks : tasks[i].directory = tasks[j].directory => i = j
    BY DEF MapsFit, DirectoriesFit
  <2>2. \A i \in DOMAIN tasks : tasks[i].directory # a
    BY <1>5, TaskIs DEF Working
  <2>3. \A i, j \in DOMAIN tasks' : tasks'[i].directory = tasks'[j].directory => i = j
    <3> HIDE DEF x
    <3> QED BY <1>7, <1>8, <2>1, <2>2
  <2> QED BY <1>8, <2>3 DEF DirectoriesFit
<1>15. KernelPaged'
  BY <1>1, <1>10, <1>11, PagedStays DEF MapsFit
<1>16. FramesInRow'
  BY <1>1 DEF MapsFit, FramesInRow
<1>17. Now = <<>> /\ Now' = u
  BY <1>1, <1>4, CloneIsAtHand
<1>18. \A p \in TaskPages : FrameOf(a, p)' = NoFrame
  <2>1. ASSUME NEW p \in TaskPages PROVE FrameOf(a, p)' = NoFrame
    <3>1. p \in EveryPage /\ TableOf(kernel, p) = 0
      BY TaskPagesAre DEF Working
    <3>2. directories'[a].tables[p \div Entries] = 0
      BY <1>6, <3>1 DEF TableOf
    <3> QED BY <3>2 DEF FrameOf, TableOf, NoFrame
  <2> QED BY <2>1
<1>19. TasksInOrder'
  <2>1. ASSUME NEW i \in DOMAIN tasks' PROVE TaskInOrder(tasks[i], AtHandOf(i))'
    <3>1. PICK task, s : task = tasks'[i] /\ s = AtHandOf(i)'
      OBVIOUS
    <3>2. CASE i \in DOMAIN tasks
      <4>1. i # Len(tasks') /\ task = tasks[i]
        BY <1>8, <3>1, <3>2
      <4>2. s = <<>> /\ AtHandOf(i) = <<>>
        BY <1>17, <3>1, <4>1 DEF AtHandOf
      <4>3. TaskInOrder(task, s)
        BY <3>2, <4>1, <4>2 DEF OrderFits, TasksInOrder
      <4>4. task.directory \in DOMAIN directories
        BY <3>2, <4>1, TaskIs DEF Working
      <4>5. TaskInOrder(task, s)'
        BY <1>1, <1>9, <4>3, <4>4, TaskStaysInOrder
      <4> QED BY <3>1, <4>5
    <3>3. CASE i = Len(tasks) + 1
      <4>1. i = Len(tasks') /\ task = x
        BY <1>8, <3>1, <3>3
      <4>2. s = u
        BY <1>17, <3>1, <4>1 DEF AtHandOf
      <4>3. \/ program = Initial /\ u = <<>>
            \/ program \in AllPrograms /\ u = AfterClone(program)
        BY <1>4 DEF CloneGoesOn
      <4>4. TaskInOrder(task, u)'
        BY <1>4, <1>18, <4>1, <4>3, NewTaskIsInOrder
      <4> QED BY <3>1, <4>2, <4>4
    <3> QED BY <1>8, <3>2, <3>3
  <2> QED BY <2>1 DEF TasksInOrder
<1>20. KernelInOrder'
  BY <1>8 DEF KernelInOrder
<1>21. KeepFrames
  <2>1. ASSUME NEW i \in DOMAIN tasks, NEW p \in TaskPages
        PROVE  FrameOf(tasks[i].directory, p)' = FrameOf(tasks[i].directory, p)
    <3>1. PICK d : d = tasks[i].directory
      OBVIOUS
    <3>2. d \in DOMAIN directories /\ p \in EveryPage /\ tasks'[i].directory = d
      BY <1>8, <3>1, TaskIs, EveryPageIs DEF Working
    <3>3. FrameOf(d, p)' = FrameOf(d, p)
      BY <1>9, <3>2
    <3> QED BY <3>1, <3>2, <3>3
  <2>2. \A p \in HeapPages : FrameOf(kernel, p)' = FrameOf(kernel, p)
    BY <1>10, HeapPairsAre
  <2> QED BY <1>1, <2>1, <2>2, SameFramesAreKept DEF TasksSeeTheSame
<1> QED BY <1>11, <1>12, <1>13, <1>14, <1>15, <1>16, <1>19, <1>20, <1>21 DEF MapsFit, OrderFits

-----------------------------------------------------------------------------
(* The start.                                                              *)

\* What a sequence has stays in it when another is added.
LEMMA ElementStays ==
  ASSUME NEW S, NEW a \in Seq(S), NEW b \in Seq(S), NEW x, x \in ToSet(a) \cup ToSet(b)
  PROVE  x \in ToSet(a \o b)
<1> DEFINE c == a \o b
<1>1. /\ Len(c) = Len(a) + Len(b) /\ Len(a) \in Nat /\ Len(b) \in Nat
      /\ DOMAIN a = 1 .. Len(a) /\ DOMAIN b = 1 .. Len(b) /\ DOMAIN c = 1 .. Len(c)
      /\ \A i \in 1 .. Len(a) : c[i] = a[i]
      /\ \A i \in 1 .. Len(b) : c[Len(a) + i] = b[i]
  BY ConcatAt
<1> HIDE DEF c
<1>2. CASE x \in ToSet(a)
  <2>1. PICK i \in 1 .. Len(a) : a[i] = x
    BY <1>1, <1>2 DEF ToSet
  <2>2. i \in DOMAIN c /\ c[i] = x
    BY <1>1, <2>1
  <2> QED BY <2>2 DEF ToSet, c
<1>3. CASE x \in ToSet(b)
  <2>1. PICK i \in 1 .. Len(b) : b[i] = x
    BY <1>1, <1>3 DEF ToSet
  <2>2. PICK j : j = Len(a) + i
    OBVIOUS
  <2>3. j \in DOMAIN c /\ c[j] = x
    BY <1>1, <2>1, <2>2
  <2> QED BY <2>3 DEF ToSet, c
<1> QED BY <1>2, <1>3

\* What may come behind, once there is nothing that must not.
LEMMA PagingAheadOf ==
  ASSUME NEW S, NEW a \in Seq(S), NEW b \in Seq(S), PagingAhead(a), PagingAhead(b),
         NoIdentity(a) \/ \A i \in DOMAIN b : b[i].do # "get_page",
         (\A i \in DOMAIN a : a[i].do # "paging") \/ \A i \in DOMAIN b : AfterPaging(b[i])
  PROVE  PagingAhead(a \o b)
<1> DEFINE c == a \o b
<1>1. /\ Len(c) = Len(a) + Len(b) /\ Len(a) \in Nat /\ Len(b) \in Nat
      /\ DOMAIN a = 1 .. Len(a) /\ DOMAIN b = 1 .. Len(b) /\ DOMAIN c = 1 .. Len(c)
      /\ \A i \in 1 .. Len(a) : c[i] = a[i]
      /\ \A i \in 1 .. Len(b) : c[Len(a) + i] = b[i]
  BY ConcatAt
<1> HIDE DEF c
<1>2. \A i \in DOMAIN c : \/ i \in DOMAIN a /\ c[i] = a[i]
                          \/ /\ i - Len(a) \in DOMAIN b /\ c[i] = b[i - Len(a)]
                             /\ i > Len(a)
  <2>1. ASSUME NEW i \in DOMAIN c, i \notin DOMAIN a
        PROVE  i - Len(a) \in 1 .. Len(b) /\ Len(a) + (i - Len(a)) = i /\ i > Len(a)
    BY <1>1, <2>1
  <2> QED BY <1>1, <2>1
<1>3. ASSUME NEW i \in DOMAIN c, NEW j \in DOMAIN c, i < j
      PROVE  /\ c[i].do = "paging" => AfterPaging(c[j])
             /\ c[i].do = "identity_map" => c[j].do # "get_page"
  <2>1. CASE i \in DOMAIN a /\ c[i] = a[i] /\ j \in DOMAIN a /\ c[j] = a[j]
    BY <1>3, <2>1 DEF PagingAhead
  <2>2. CASE i \in DOMAIN a /\ c[i] = a[i] /\ j - Len(a) \in DOMAIN b /\ c[j] = b[j - Len(a)]
    BY <2>2 DEF NoIdentity
  <2>3. CASE /\ i - Len(a) \in DOMAIN b /\ c[i] = b[i - Len(a)]
             /\ j - Len(a) \in DOMAIN b /\ c[j] = b[j - Len(a)]
    <3>1. i - Len(a) < j - Len(a)
      BY <1>1, <1>3
    <3> QED BY <2>3, <3>1 DEF PagingAhead
  <2>4. CASE i > Len(a) /\ j \in DOMAIN a
    BY <1>1, <1>3, <2>4
  <2> QED BY <1>2, <2>1, <2>2, <2>3, <2>4
<1>4. PagingAhead(c)
  BY <1>3 DEF PagingAhead
<1> QED BY <1>4 DEF c

\* setPaging, piece by piece.
LEMMA FirstStepsAre ==
  ASSUME ModuleSizes # {}
  PROVE  /\ PagingAhead(FirstSteps)
         /\ \A p \in HeapPages : /\ [do |-> "get_page", page |-> p] \in ToSet(FirstSteps)
                                 /\ [do |-> "map", page |-> p] \in ToSet(FirstSteps)
         /\ [do |-> "identity_map", page |-> 0] \in ToSet(FirstSteps)
         /\ \A i \in DOMAIN FirstSteps : FirstSteps[i].do = "identity_map" => FirstSteps[i].page = 0
         /\ \A p \in HeapPairs : Leads(FirstSteps, Initial, p)
<1> DEFINE A == OnPages("get_page", HeapInOrder)
           i0 == [do |-> "identity_map", page |-> 0]
           B == <<i0>>
           C == OnPages("map", HeapInOrder)
           g == Do("paging")
           f == [do |-> "stack", size |-> TaskKernelStack]
           D == <<g, f>>
           E == OnPages("map", KernelStack)
           F == <<f>>
           S == {x \in KernelItem : x.do = "identity_map" => x.page = 0}
           T == {x \in S : x.do # "paging"}
<1>0. /\ HeapStart \in Nat \ {0} /\ HeapEnd \in Nat /\ HeapStart < HeapEnd
      /\ KernelStack \in Seq(Nat) /\ 0 \in IdentityPages
  BY LayoutAssumption, MemoryAssumption, IdentityPagesAre
<1>1. /\ HeapInOrder \in Seq(Nat) /\ ToSet(HeapInOrder) = HeapPages
      /\ \A i \in DOMAIN HeapInOrder : HeapInOrder[i] = HeapInOrder[1] + (i - 1)
  <2> DEFINE n == HeapEnd - HeapStart
  <2>1. n \in Nat /\ HeapInOrder = [i \in 1 .. n |-> HeapStart + i - 1]
    BY <1>0 DEF HeapInOrder
  <2>2. HeapInOrder \in [1 .. n -> Nat]
    BY <1>0, <2>1
  <2>3. HeapInOrder \in Seq(Nat) /\ Len(HeapInOrder) = n /\ DOMAIN HeapInOrder = 1 .. n
    BY <2>1, <2>2, IsSequence
  <2>4. \A i \in 1 .. n : HeapInOrder[i] = HeapStart + i - 1
    BY <2>1
  <2>5. ASSUME NEW p \in HeapPages PROVE p \in ToSet(HeapInOrder)
    <3>1. p - HeapStart + 1 \in 1 .. n /\ HeapStart + (p - HeapStart + 1) - 1 = p
      BY <1>0 DEF HeapPages
    <3> QED BY <2>3, <2>4, <3>1 DEF ToSet
  <2>6. ASSUME NEW i \in 1 .. n PROVE HeapInOrder[i] \in HeapPages
    BY <1>0, <2>4 DEF HeapPages
  <2>7. ASSUME NEW i \in DOMAIN HeapInOrder PROVE HeapInOrder[i] = HeapInOrder[1] + (i - 1)
    <3>1. 1 \in 1 .. n /\ i \in 1 .. n
      BY <2>1, <2>3
    <3>2. HeapInOrder[1] = HeapStart /\ HeapInOrder[i] = HeapStart + i - 1
      BY <1>0, <2>4, <3>1
    <3> QED BY <1>0, <3>1, <3>2
  <2> QED BY <2>3, <2>5, <2>6, <2>7 DEF ToSet
<1>2. /\ [do : {"get_page"}, page : HeapPages] \subseteq T
      /\ [do : {"map"}, page : HeapPages] \subseteq T
      /\ [do : {"map"}, page : ToSet(KernelStack)] \subseteq T
      /\ i0 \in T /\ g \in S /\ f \in T /\ T \subseteq S /\ S \subseteq KernelItem
      /\ g.do = "paging" /\ f.do = "stack" /\ i0.do = "identity_map"
  BY <1>0 DEF KernelItem, Do
<1>3. /\ A \in Seq(T) /\ DOMAIN A = DOMAIN HeapInOrder
      /\ \A i \in DOMAIN HeapInOrder : A[i] = [do |-> "get_page", page |-> HeapInOrder[i]]
  <2> HIDE DEF T
  <2> QED BY <1>1, <1>2, OnPagesIsSequence
<1>4. /\ C \in Seq(T) /\ DOMAIN C = DOMAIN HeapInOrder
      /\ \A i \in DOMAIN HeapInOrder : C[i] = [do |-> "map", page |-> HeapInOrder[i]]
  <2> HIDE DEF T
  <2> QED BY <1>1, <1>2, OnPagesIsSequence
<1>5. /\ E \in Seq(T) /\ DOMAIN E = DOMAIN KernelStack
      /\ \A i \in DOMAIN KernelStack : E[i] = [do |-> "map", page |-> KernelStack[i]]
  <2> HIDE DEF T
  <2> QED BY <1>0, <1>2, OnPagesIsSequence
<1>6. FirstSteps = A \o B \o C \o D \o E \o F
  BY DEF FirstSteps, KernelSteps
<1>7. \A i \in DOMAIN HeapInOrder : A[i].do = "get_page" /\ C[i].do = "map"
  <2> HIDE DEF A, C
  <2> QED BY <1>3, <1>4
<1>8. \A i \in DOMAIN KernelStack : AfterPaging(E[i]) /\ E[i].do = "map"
  <2> HIDE DEF E
  <2>1. ASSUME NEW i \in DOMAIN KernelStack
        PROVE  E[i].do = "map" /\ E[i].page \in ToSet(KernelStack)
    BY <1>5 DEF ToSet
  <2> QED BY <2>1 DEF AfterPaging
<1>9. \A p \in HeapPages : /\ [do |-> "get_page", page |-> p] \in ToSet(A)
                            /\ [do |-> "map", page |-> p] \in ToSet(C)
  <2> HIDE DEF A, C
  <2>1. ASSUME NEW p \in HeapPages
        PROVE  [do |-> "get_page", page |-> p] \in ToSet(A) /\ [do |-> "map", page |-> p] \in ToSet(C)
    <3>1. PICK i \in DOMAIN HeapInOrder : HeapInOrder[i] = p
      BY <1>1 DEF ToSet
    <3>2. i \in DOMAIN A /\ A[i] = [do |-> "get_page", page |-> p]
      BY <1>3, <3>1
    <3>3. i \in DOMAIN C /\ C[i] = [do |-> "map", page |-> p]
      BY <1>4, <3>1
    <3> QED BY <3>2, <3>3 DEF ToSet
  <2> QED BY <2>1
<1>10. \A p \in HeapPairs : Leads(C, Initial, p)
  <2>1. ASSUME NEW p \in HeapPairs PROVE Leads(C, Initial, p)
    <3>1. {p, p + 1} \subseteq ToSet(HeapInOrder)
      BY <1>1 DEF HeapPairs
    <3> QED BY <1>1, <3>1, OnPagesLead
  <2> QED BY <2>1
<1>11. AfterPaging(f)
  BY <1>2 DEF AfterPaging
<1> HIDE DEF A, C, E, i0, f, g, S, T
<1>12. /\ B \in Seq(T) /\ D \in Seq(S) /\ F \in Seq(T)
       /\ DOMAIN B = {1} /\ B[1] = i0 /\ DOMAIN D = {1, 2} /\ D[1] = g /\ D[2] = f
       /\ DOMAIN F = {1} /\ F[1] = f
  <2>1. \A x \in T : <<x>> \in Seq(T) /\ DOMAIN <<x>> = {1} /\ <<x>>[1] = x
    OBVIOUS
  <2>2. \A x, y \in S : <<x, y>> \in Seq(S) /\ DOMAIN <<x, y>> = {1, 2}
                        /\ <<x, y>>[1] = x /\ <<x, y>>[2] = y
    OBVIOUS
  <2> QED BY <1>2, <2>1, <2>2
<1>13. /\ PagingAhead(A) /\ PagingAhead(B) /\ PagingAhead(C) /\ PagingAhead(D)
       /\ PagingAhead(E) /\ PagingAhead(F)
  <2>1. PagingAhead(A) /\ PagingAhead(C)
    BY <1>3, <1>4, <1>7 DEF PagingAhead
  <2>2. PagingAhead(E)
    BY <1>5, <1>8 DEF PagingAhead
  <2> HIDE DEF B, D, F
  <2>3. PagingAhead(B) /\ PagingAhead(F)
    BY <1>12 DEF PagingAhead
  <2>4. PagingAhead(D)
    BY <1>2, <1>11, <1>12 DEF PagingAhead
  <2> QED BY <2>1, <2>2, <2>3, <2>4
<1>14. \A s \in Seq(T) : s \in Seq(S) /\ \A i \in DOMAIN s : s[i].do # "paging"
  <2>1. T \subseteq S
    BY <1>2
  <2>2. \A x \in T : x.do # "paging"
    BY DEF T
  <2> QED BY <2>1, <2>2
<1>15. \A s \in Seq(S) : \A i \in DOMAIN s : s[i].do = "identity_map" => s[i].page = 0
  <2>1. \A x \in S : x.do = "identity_map" => x.page = 0
    BY DEF S
  <2> QED BY <2>1
<1>16. /\ NoIdentity(A) /\ \A i \in DOMAIN C : C[i].do # "get_page"
       /\ \A i \in DOMAIN E : E[i].do # "get_page" /\ AfterPaging(E[i])
  BY <1>3, <1>4, <1>5, <1>7, <1>8 DEF NoIdentity
<1>17. /\ \A i \in DOMAIN D : D[i].do # "get_page"
       /\ \A i \in DOMAIN F : F[i].do # "get_page" /\ AfterPaging(F[i])
  <2> HIDE DEF B, D, F
  <2> QED BY <1>2, <1>11, <1>12
<1>18. i0 \in ToSet(B)
  <2> HIDE DEF B
  <2> QED BY <1>12 DEF ToSet
<1> HIDE DEF B, D, F
<1> DEFINE AB == A \o B
           AC == AB \o C
           AD == AC \o D
           AE == AD \o E
           AF == AE \o F
<1>19. /\ AB \in Seq(T) /\ AC \in Seq(T) /\ AB \in Seq(S) /\ AC \in Seq(S) /\ AD \in Seq(S)
       /\ AE \in Seq(S) /\ AF \in Seq(S)
  <2>1. \A s, t \in Seq(T) : s \o t \in Seq(T)
    OBVIOUS
  <2>2. \A s, t \in Seq(S) : s \o t \in Seq(S)
    OBVIOUS
  <2>3. AB \in Seq(T) /\ AC \in Seq(T)
    BY <1>3, <1>4, <1>12, <2>1
  <2>4. AD \in Seq(S)
    BY <1>12, <1>14, <2>2, <2>3
  <2>5. AE \in Seq(S)
    BY <1>5, <1>14, <2>2, <2>4
  <2>6. AF \in Seq(S)
    BY <1>12, <1>14, <2>2, <2>5
  <2> QED BY <1>14, <2>3, <2>4, <2>5, <2>6
<1>20. A \in Seq(S) /\ B \in Seq(S) /\ C \in Seq(S) /\ E \in Seq(S) /\ F \in Seq(S)
  BY <1>3, <1>4, <1>5, <1>12, <1>14
<1>21. AF = FirstSteps
  BY <1>6
<1>22. PagingAhead(AF)
  <2>1. PagingAhead(AB)
    <3> HIDE DEF AB
    <3>1. \A i \in DOMAIN A : A[i].do # "paging"
      BY <1>3, <1>14
    <3>2. PagingAhead(A \o B)
      BY <1>13, <1>16, <1>20, <3>1, PagingAheadOf
    <3> QED BY <3>2 DEF AB
  <2>2. PagingAhead(AC)
    <3> HIDE DEF AB
    <3>1. \A i \in DOMAIN AB : AB[i].do # "paging"
      BY <1>14, <1>19
    <3> QED BY <1>13, <1>16, <1>19, <1>20, <2>1, <3>1, PagingAheadOf
  <2>3. PagingAhead(AD)
    <3> HIDE DEF AC
    <3>1. \A i \in DOMAIN AC : AC[i].do # "paging"
      BY <1>14, <1>19
    <3> QED BY <1>12, <1>13, <1>17, <1>19, <2>2, <3>1, PagingAheadOf
  <2>4. PagingAhead(AE)
    <3> HIDE DEF AD
    <3> QED BY <1>13, <1>16, <1>19, <1>20, <2>3, PagingAheadOf
  <2> HIDE DEF AE
  <2> QED BY <1>13, <1>17, <1>19, <1>20, <2>4, PagingAheadOf
<1>23. \A x : x \in ToSet(A) \cup ToSet(B) \cup ToSet(C) => x \in ToSet(AF)
  <2>1. ASSUME NEW x, x \in ToSet(A) \cup ToSet(B) \cup ToSet(C) PROVE x \in ToSet(AF)
    <3>1. x \in ToSet(AB) \cup ToSet(C)
      BY <1>20, <2>1, ElementStays
    <3> HIDE DEF AB
    <3>2. x \in ToSet(AC)
      BY <1>19, <1>20, <3>1, ElementStays
    <3> HIDE DEF AC
    <3>3. x \in ToSet(AD)
      BY <1>12, <1>19, <3>2, ElementStays
    <3> HIDE DEF AD
    <3>4. x \in ToSet(AE)
      BY <1>19, <1>20, <3>3, ElementStays
    <3> HIDE DEF AE
    <3> QED BY <1>19, <1>20, <3>4, ElementStays
  <2> QED BY <2>1
<1>24. ASSUME NEW p \in HeapPairs PROVE Leads(AF, Initial, p)
  <2>1. Leads(AC, Initial, p)
    <3> HIDE DEF AB
    <3> QED BY <1>10, <1>19, <1>20, LeadsConcat
  <2> HIDE DEF AC
  <2>2. Leads(AD, Initial, p)
    BY <1>12, <1>19, <2>1, LeadsConcat
  <2> HIDE DEF AD
  <2>3. Leads(AE, Initial, p)
    BY <1>19, <1>20, <2>2, LeadsConcat
  <2> HIDE DEF AE
  <2> QED BY <1>19, <1>20, <2>3, LeadsConcat
<1> HIDE DEF AF
<1>25. \A i \in DOMAIN AF : AF[i].do = "identity_map" => AF[i].page = 0
  BY <1>15, <1>19
<1> QED BY <1>9, <1>18, <1>21, <1>22, <1>23, <1>24, <1>25 DEF i0

\* With the first directory, setPaging is what is left before the first task.
LEMMA FirstStepsAreNow ==
  ASSUME ModuleSizes # {}, todo' = FirstSteps \o FirstRest
  PROVE  Now' = FirstSteps
<1>1. FirstSteps \in Seq(KernelItem)
  BY FirstStepsFit DEF Bare
<1>2. \A i \in DOMAIN FirstSteps : FirstSteps[i].do \notin {"clone", "switch"}
  <2>1. \A i \in DOMAIN FirstSteps : FirstSteps[i] \in KernelItem
    BY <1>1
  <2> QED BY <2>1, ItemsStay
<1>3. FirstSteps \in Seq(TodoItem)
  <2> DEFINE S == KernelItem
             U == TodoItem
  <2>1. S \subseteq U
    BY DEF TodoItem
  <2> HIDE DEF S, U
  <2>2. FirstSteps \in Seq(S) => FirstSteps \in Seq(U)
    BY <2>1
  <2> QED BY <1>1, <2>2 DEF S, U
<1> DEFINE c == [do |-> "clone", program |-> Initial]
<1>4. Rest(1) \in Seq(TodoItem) /\ FirstRest = <<c>> \o Rest(1)
  <2>1. 1 \in 1 .. Len(BootPrograms) + 1
    BY LayoutAssumption
  <2> QED BY <2>1, RestIs DEF FirstRest
<1>5. c \in TodoItem
  BY DEF TodoItem, TaskPrograms
<1>6. FirstRest[1].do \in {"clone", "switch"}
  <2>1. FirstRest = <<>> \/ FirstRest[1].do \in {"clone", "switch"}
    BY <1>4, LaterBegins
  <2> HIDE DEF c
  <2>2. FirstRest # <<>>
    <3> DEFINE S == TodoItem
               r == Rest(1)
    <3>1. c \in S /\ r \in Seq(S) /\ FirstRest = <<c>> \o r
      BY <1>4, <1>5
    <3> HIDE DEF S, r
    <3>2. <<c>> \o r # <<>>
      BY <3>1
    <3> QED BY <3>1, <3>2
  <2> QED BY <2>1, <2>2
<1>7. FirstRest \in Seq(TodoItem)
  <2> HIDE DEF c
  <2>1. \A x \in TodoItem, t \in Seq(TodoItem) : <<x>> \o t \in Seq(TodoItem)
    OBVIOUS
  <2> QED BY Zenon, <1>4, <1>5, <2>1
<1>8. SubSeq(FirstSteps \o FirstRest, 1, Extent(FirstSteps \o FirstRest)) = FirstSteps
  BY <1>2, <1>3, <1>6, <1>7, ExtentIs
<1> QED BY <1>8 DEF Now

\* The kernel's directory.
LEMMA DirectoryIsInOrder ==
  ASSUME Early, halted = "no", AllocateKernelDirectory
  PROVE  MapsFit' /\ OrderFits'
<1>1. PICK n \in ModuleSizes : EarlyAt(n)
  BY DEF Early, EarlyAt
<1> DEFINE pl == KernelEnd + n + BitmapSize
           a == Aligned(pl)
<1>2. /\ Head(todo).do = "kernel_directory" /\ todo' = Tail(todo)
      /\ UNCHANGED <<frames, pages, active, others, tasks, wand, halted>>
  BY DEF AllocateKernelDirectory, Step, Done
<1>3. placement = pl /\ placement \in Nat \ {0} /\ todo' = FirstSteps \o FirstRest
  BY <1>1, <1>2, EarlyIs
<1>4. /\ directories = <<>> /\ pages = <<>> /\ heap = {} /\ tasks = <<>> /\ frames = {}
  BY DEF Early
<1>5. Addresses(DirectorySize) = {a}
  BY <1>3 DEF Addresses
<1>6. /\ AllocAligned(DirectorySize, a)
      /\ directories' = With(directories, a, Empty(Physical(a)))
      /\ kernel' = a /\ target' = a
  BY <1>5 DEF AllocateKernelDirectory
<1>7. a \in Nat \ {0} /\ a >= pl
  BY <1>3, AlignedIs
<1> HIDE DEF pl, a
<1>8. placement' = a + DirectorySize /\ placed' = placement' /\ Physical(a) = a
  BY <1>3, <1>6 DEF AllocAligned, Physical
<1>9. /\ PageSize \in Nat \ {0} /\ DirectorySize \in Nat \ {0}
      /\ a + PageSize \in Nat /\ a + PageSize < a + DirectorySize
  BY <1>7, MemoryAssumption DEF DirectorySize
<1>10. placement' \in Nat \ {0} /\ placed' \in Nat \ {0} /\ a + PageSize < placed'
  BY <1>7, <1>8, <1>9
<1> DEFINE D == Empty(a)
<1>11. DOMAIN directories' = {a} /\ directories'[a] = D
  <2>1. DOMAIN directories = {}
    BY <1>4
  <2> HIDE DEF D
  <2>2. directories' = With(directories, a, D)
    BY <1>6, <1>8 DEF D
  <2> QED BY <2>1, <2>2 DEF With
<1>12. D.physicalAddr = a + PageSize /\ \A t \in AllTables : D.tables[t] = 0
  BY DEF Empty, AllTables
<1> HIDE DEF D
<1>13. \A p \in EveryPage : TableOf(a, p)' = 0 /\ FrameOf(a, p)' = NoFrame
  <2>1. ASSUME NEW p \in EveryPage PROVE TableOf(a, p)' = 0 /\ FrameOf(a, p)' = NoFrame
    <3>1. p \div Entries \in AllTables
      BY EveryPageIs
    <3>2. TableOf(a, p)' = 0
      BY <1>11, <1>12, <3>1 DEF TableOf
    <3> QED BY <3>2 DEF FrameOf, NoFrame
  <2> QED BY <2>1
<1>14. PlacedFits'
  BY <1>8, <1>10 DEF PlacedFits
<1>15. DirectoriesFit'
  BY <1>2, <1>4, <1>6, <1>11 DEF DirectoriesFit
<1>16. SharedTables'
  BY <1>6, <1>11, <1>12 DEF SharedTables
<1>17. AllSayWhere'
  <2>1. Reach(a + PageSize)' /\ Means(a + PageSize)' = a + PageSize
    BY <1>9, <1>10 DEF Reach, Means
  <2>2. SaysWhere(D, a)'
    BY <1>12, <2>1 DEF SaysWhere
  <2> QED BY <1>11, <2>2 DEF AllSayWhere
<1>18. KernelPaged'
  BY <1>10 DEF KernelPaged
<1>19. FramesInRow'
  <2>1. frames' = 0 .. 0 - 1 /\ 0 \in Nat
    BY <1>2, <1>4
  <2> QED BY <2>1 DEF FramesInRow
<1>20. ModuleSizes # {}
  OBVIOUS
<1>21. Now' = FirstSteps
  BY <1>3, <1>20, FirstStepsAreNow
<1>22. BeforePaging(Now)'
  <2>1. PICK s : s = FirstSteps
    OBVIOUS
  <2>2. /\ PagingAhead(s)
        /\ \A p \in HeapPages : [do |-> "get_page", page |-> p] \in ToSet(s)
        /\ [do |-> "identity_map", page |-> 0] \in ToSet(s)
        /\ \A i \in DOMAIN s : s[i].do = "identity_map" => s[i].page = 0
        /\ \A p \in HeapPairs : Leads(s, Initial, p)
    BY <1>20, <2>1, FirstStepsAre
  <2>3. MapsInRow(s)'
    <3>1. frames' = {} /\ frames' = 0 .. 0 - 1
      BY <1>2, <1>4
    <3> QED BY <2>2, <3>1 DEF MapsInRow
  <2>4. HasMapped(s)'
    <3>1. PICK i \in DOMAIN s : s[i] = [do |-> "identity_map", page |-> 0]
      BY <2>2 DEF ToSet
    <3>2. s[i].do = "identity_map"
      BY <3>1
    <3> QED BY <3>2 DEF HasMapped, NoIdentity
  <2>5. HasTables(s)'
    <3>1. ASSUME NEW p \in HeapPages
          PROVE  \E i \in DOMAIN s : s[i].do = "get_page" /\ s[i].page = p
      <4>1. PICK i \in DOMAIN s : s[i] = [do |-> "get_page", page |-> p]
        BY <2>2 DEF ToSet
      <4>2. s[i].do = "get_page" /\ s[i].page = p
        BY <4>1
      <4> QED BY <4>2
    <3> QED BY <3>1 DEF HasTables, HeapPages
  <2>6. PagingAhead(s)'
    BY <2>2 DEF PagingAhead, AfterPaging
  <2>7. HeapAhead(s)'
    <3>1. ItemsApart(s, Initial)
      BY <1>20, <2>1, FirstStepsFit DEF Bare
    <3>2. HeapPairs \subseteq EveryPage
      BY HeapPairsAre
    <3>3. PICK F, marked : F = FramesOf(kernel)' /\ marked = frames'
      OBVIOUS
    <3>4. InOrder(s, Initial, HeapPairs, F, marked)
      BY <2>2, <3>1, <3>2, LeadsInOrder
    <3>5. InOrder(s, Initial, HeapPairs, FramesOf(kernel)', frames')
      BY <3>3, <3>4
    <3> QED BY <3>5 DEF HeapAhead, InOrder, NotTouched, HeapPairs
  <2>8. s = Now'
    BY <1>21, <2>1
  <2> QED BY <2>3, <2>4, <2>5, <2>6, <2>7, <2>8
        DEF BeforePaging, MapsInRow, HasMapped, HasTables, PagingAhead, HeapAhead, InOrder,
            NotTouched, HeapPairs
<1>23. KernelInOrder'
  BY <1>10, <1>22 DEF KernelInOrder
<1>24. TasksInOrder'
  BY <1>2, <1>4 DEF TasksInOrder
<1> QED BY <1>14, <1>15, <1>16, <1>17, <1>18, <1>19, <1>23, <1>24 DEF MapsFit, OrderFits

-----------------------------------------------------------------------------
(* Address spaces work.                                                    *)

\* What the spaces are made of, and what the kernel is at.
spacesVars ==
  <<placement, placed, frames, directories, pages, kernel, heap, others, tasks, wand>>

\* Spaces stay as they are.
LEMMA MapsHold ==
  ASSUME MapsFit, UNCHANGED spacesVars
  PROVE  MapsFit'
<1>1. UNCHANGED <<placement, placed, frames, directories, pages, kernel, heap, others, tasks, wand>>
  BY DEF spacesVars
<1>2. PlacedFits'
  BY <1>1 DEF MapsFit, PlacedFits
<1>3. DirectoriesFit' /\ SharedTables' /\ FramesInRow'
  BY <1>1 DEF MapsFit, DirectoriesFit, SharedTables, FramesInRow
<1>4. AllSayWhere'
  <2>1. HeapKept' = HeapKept
    BY <1>1 DEF HeapKept, Kept, HeapPages
  <2>2. \A a : Reach(a)' = Reach(a) /\ Means(a)' = Means(a)
    BY <1>1, <2>1 DEF Reach, Means, PhysAddr, FrameOf, TableOf
  <2> QED BY <1>1, <2>2 DEF MapsFit, AllSayWhere, SaysWhere
<1>5. KernelPaged'
  <2>1. \A p : /\ TableOf(kernel, p)' = TableOf(kernel, p)
               /\ Identity(p)' = Identity(p) /\ Home(p)' = Home(p)
    BY <1>1 DEF TableOf, Identity, Home, FrameOf
  <2>2. KernelPaged
    BY DEF MapsFit
  <2> QED BY <1>1, <2>1, <2>2 DEF KernelPaged, HeapPages, HeapPairs
<1> QED BY <1>2, <1>3, <1>4, <1>5 DEF MapsFit

\* So does what is in order.
LEMMA OrderHolds ==
  ASSUME OrderFits, UNCHANGED spacesVars, todo' = todo
  PROVE  OrderFits'
<1>1. UNCHANGED <<placement, placed, frames, directories, pages, kernel, heap, others, tasks, wand>>
  BY DEF spacesVars
<1>2. Now' = Now
  BY DEF Now
<1>3. \A d, p : TableOf(d, p)' = TableOf(d, p) /\ FrameOf(d, p)' = FrameOf(d, p)
  BY <1>1 DEF TableOf, FrameOf
<1>4. KernelInOrder'
  <2>1. PICK s : s = Now
    OBVIOUS
  <2>2. \A p : Identity(p)' = Identity(p)
    BY <1>1 DEF Identity, TableOf, FrameOf
  <2>3. IdentityEnd' = IdentityEnd /\ FramesOf(kernel)' = FramesOf(kernel)
    BY <1>1 DEF IdentityEnd, FramesOf, FrameOf, TableOf
  <2>4. TableOf(kernel, 0)' = TableOf(kernel, 0)
    BY <1>1 DEF TableOf
  <2>5. ASSUME BeforePaging(s) PROVE BeforePaging(Now)'
    <3>1. MapsInRow(s)'
      BY <1>1, <2>2, <2>5 DEF BeforePaging, MapsInRow
    <3>2. HasMapped(s)'
      BY <2>2, <2>3, <2>5 DEF BeforePaging, HasMapped
    <3>3. HasTables(s)'
      BY <1>1, <2>5 DEF BeforePaging, HasTables, TableOf, HeapPages
    <3>4. PagingAhead(s)'
      BY <2>5 DEF BeforePaging, PagingAhead, AfterPaging
    <3>5. HeapAhead(s)'
      <4>1. InOrder(s, Initial, HeapPairs, FramesOf(kernel), frames)
        BY <2>5 DEF BeforePaging, HeapAhead
      <4>2. InOrder(s, Initial, HeapPairs, FramesOf(kernel)', frames')
        BY <1>1, <2>3, <4>1
      <4> QED BY <4>2 DEF HeapAhead, InOrder, NotTouched, HeapPairs
    <3>6. s = Now'
      BY <1>2, <2>1
    <3> QED BY <3>1, <3>2, <3>3, <3>4, <3>5, <3>6
            DEF BeforePaging, MapsInRow, HasMapped, HasTables, PagingAhead, HeapAhead, InOrder,
                NotTouched, HeapPairs
  <2> QED BY <1>1, <1>2, <2>1, <2>5 DEF OrderFits, KernelInOrder, AfterPaging
<1>5. TasksInOrder'
  <2>1. ASSUME NEW i \in DOMAIN tasks' PROVE TaskInOrder(tasks[i], AtHandOf(i))'
    <3>1. PICK task, s : task = tasks'[i] /\ s = AtHandOf(i)'
      OBVIOUS
    <3>2. i \in DOMAIN tasks /\ task = tasks[i] /\ s = AtHandOf(i)
      BY <1>1, <1>2, <3>1 DEF AtHandOf
    <3>3. TaskInOrder(task, s)
      BY <3>2 DEF OrderFits, TasksInOrder
    <3>4. \A p \in EveryPage : FrameOf(task.directory, p)' = FrameOf(task.directory, p)
      <4>1. PICK d : d = task.directory
        OBVIOUS
      <4>2. \A p \in EveryPage : FrameOf(d, p)' = FrameOf(d, p)
        BY <1>3
      <4> QED BY <4>1, <4>2
    <3>5. TaskInOrder(task, s)'
      BY <1>1, <3>3, <3>4, TaskStaysInOrder
    <3> QED BY <3>1, <3>5
  <2> QED BY <2>1 DEF TasksInOrder
<1> QED BY <1>4, <1>5 DEF OrderFits

\* A panic leaves the spaces.
LEMMA PanicLeaves ==
  ASSUME NEW what, Panic(what)
  PROVE  UNCHANGED spacesVars /\ halted' = what
BY DEF Panic, allocation, spaces, making, spacesVars

\* While the kernel works, every step leaves the spaces in order.
LEMMA SpacesGoOn ==
  ASSUME Working, MapsFit, OrderFits, FramesApart, halted = "no", MemoryNext
  PROVE  MapsFit' /\ (halted' = "no" => OrderFits')
<1>1. ~Alloc /\ ~AllocateKernelDirectory /\ ~Halted
  BY EarlyIsOver
<1>2. CASE MakeTable
  BY <1>2, MakeTableGoesOn
<1>3. CASE GetPage
  BY <1>3, GetPageGoesOn
<1>4. CASE IdentityMap
  <2>1. halted' = "no"
    BY <1>4, IdentityMapKeeps
  <2> QED BY <1>4, <2>1, IdentityMapGoesOn
<1>5. CASE MapPage
  BY <1>5, MapPageGoesOn
<1>6. CASE SetPaging
  BY <1>6, SetPagingGoesOn
<1>7. CASE AllocateStack
  BY <1>7, AllocateStackGoesOn
<1>8. CASE Clone
  BY <1>8, CloneStaysInOrder
<1>9. CASE LoadArguments
  BY <1>9, LoadArgumentsGoesOn
<1>10. CASE TakeWand
  BY <1>10, TakeWandGoesOn
<1>11. CASE CopyPart
  BY <1>11, CopyPartGoesOn
<1>12. CASE PutWandBack
  BY <1>12, PutWandBackGoesOn
<1>13. CASE MapDevice
  BY <1>13, MapDeviceGoesOn
<1>14. CASE SwitchToInitial
  BY <1>14, SwitchToInitialGoesOn
<1>15. CASE \E i \in DOMAIN tasks : SwitchTo(i)
  BY <1>15, SwitchToGoesOn
<1>16. CASE \E program \in Programs : Spawn(program)
  BY <1>16, SpawnGoesOn
<1>17. CASE \E s \in DevicePages : MapPhysicalMem(s)
  BY <1>17, MapPhysicalMemGoesOn
<1>18. CASE \E i \in DOMAIN tasks : DumpCore(i)
  <2>1. PICK i \in DOMAIN tasks : DumpCore(i)
    BY <1>18
  <2>2. CASE halted' = "no"
    BY <2>1, <2>2, DumpCoreGoesOn
  <2>3. CASE halted' # "no"
    <3>1. Panic("no_hole")
      BY <2>1, <2>3 DEF DumpCore
    <3>2. UNCHANGED spacesVars
      BY <3>1, PanicLeaves
    <3> QED BY <2>3, <3>2, MapsHold
  <2> QED BY <2>2, <2>3
<1>19. CASE TakeOther
  BY <1>19, TakeOtherGoesOn
<1>20. CASE \E p \in others : FreeOther(p)
  BY <1>20, FreeOtherGoesOn
<1>21. CASE OutOfHeap
  <2>1. Panic("no_hole")
    BY <1>21 DEF OutOfHeap
  <2>2. UNCHANGED spacesVars /\ halted' # "no"
    BY <2>1, PanicLeaves
  <2> QED BY <2>2, MapsHold
<1>22. CASE NoFrameFor
  <2>1. PICK what \in {"page_has_a_frame", "no_frames_free"} : Panic(what)
    BY <1>22 DEF NoFrameFor
  <2>2. UNCHANGED spacesVars /\ halted' # "no"
    BY <2>1, PanicLeaves
  <2> QED BY <2>2, MapsHold
<1> QED
  BY <1>1, <1>2, <1>3, <1>4, <1>5, <1>6, <1>7, <1>8, <1>9, <1>10, <1>11, <1>12, <1>13, <1>14,
     <1>15, <1>16, <1>17, <1>18, <1>19, <1>20, <1>21, <1>22, Zenon DEF MemoryNext

\* Before there is a directory there are no spaces, only what is placed.
LEMMA EarlyHasNoSpaces ==
  ASSUME Early
  PROVE  directories = <<>> /\ placement # 0
<1>1. PICK n \in ModuleSizes : EarlyAt(n)
  BY DEF Early, EarlyAt
<1> QED BY <1>1, EarlyIs DEF Early

\* Once it works, there are.
LEMMA WorkingHasSpaces ==
  ASSUME Working
  PROVE  directories # <<>>
<1>1. kernel \in DOMAIN directories
  BY DEF Working, SpacesFit
<1>2. DOMAIN <<>> = {}
  OBVIOUS
<1> QED BY <1>1, <1>2

\* SpacesInv is inductive with MemoryInv: whatever the kernel makes tables,
\* directories, tasks and images of, and whoever runs, what it has mapped stays
\* where it is, in every address space, and what follows in an address space
\* follows in memory.
THEOREM MemoryKeepsSpaces == MemorySpec => []SpacesInv
<1>1. MemoryInit => SpacesInv
  <2> SUFFICES ASSUME MemoryInit PROVE SpacesInv
    OBVIOUS
  <2>1. directories = <<>> /\ placement = KernelEnd
    BY DEF MemoryInit
  <2>2. KernelEnd # 0
    BY MemoryAssumption
  <2> QED BY <2>1, <2>2 DEF SpacesInv
<1>2. MemoryInv /\ SpacesInv /\ [MemoryNext]_memoryVars => SpacesInv'
  <2> SUFFICES ASSUME MemoryInv, SpacesInv, [MemoryNext]_memoryVars PROVE SpacesInv'
    OBVIOUS
  <2>1. CASE UNCHANGED memoryVars
    <3>1. UNCHANGED <<directories, placement, halted, todo>> /\ UNCHANGED spacesVars
      BY <2>1 DEF memoryVars, spacesVars
    <3>2. CASE directories = <<>>
      BY <3>1, <3>2 DEF SpacesInv
    <3>3. CASE directories # <<>>
      <4>1. MapsFit /\ (halted = "no" => OrderFits)
        BY <3>3 DEF SpacesInv
      <4>2. MapsFit'
        BY <3>1, <4>1, MapsHold
      <4>3. halted' = "no" => OrderFits'
        BY <3>1, <4>1, OrderHolds
      <4> QED BY <3>1, <3>3, <4>2, <4>3 DEF SpacesInv
    <3> QED BY <3>2, <3>3
  <2>2. CASE halted # "no" /\ MemoryNext
    BY <2>1, <2>2, HaltedStays DEF Halted
  <2>3. CASE halted = "no" /\ MemoryNext /\ Early
    <3>1. directories = <<>> /\ placement # 0
      BY <2>3, EarlyHasNoSpaces
    <3>2. CASE Alloc
      <4>1. Early'
        BY <2>3, <3>2, AllocKeepsEarly
      <4>2. directories' = <<>> /\ placement' # 0
        <5>1. directories' = <<>>
          BY <4>1 DEF Early
        <5>2. placement' = placement + Head(todo).size
          BY <3>2 DEF Alloc, Place
        <5>3. PICK n \in ModuleSizes : EarlyAt(n)
          BY <2>3 DEF Early, EarlyAt
        <5>4. placement \in Nat \ {0} /\ Head(todo).size \in Nat
          BY <3>2, <5>3, EarlyIs DEF Alloc, Step
        <5> QED BY <5>1, <5>2, <5>4
      <4> QED BY <4>2 DEF SpacesInv
    <3>3. CASE AllocateKernelDirectory
      <4>1. MapsFit' /\ OrderFits'
        BY <2>3, <3>3, DirectoryIsInOrder
      <4>2. directories' # <<>>
        <5>1. kernel' \in DOMAIN directories'
          BY <2>3, <3>3, DirectoryStarts DEF Working, SpacesFit
        <5>2. DOMAIN <<>> = {}
          OBVIOUS
        <5> QED BY <5>1, <5>2
      <4> QED BY <4>1, <4>2 DEF SpacesInv
    <3>4. CASE OutOfHeap
      <4>1. UNCHANGED spacesVars
        BY <3>4, PanicLeaves DEF OutOfHeap
      <4> QED BY <3>1, <4>1 DEF SpacesInv, spacesVars
    <3> QED BY <2>3, <3>2, <3>3, <3>4, EarlyDoes
  <2>4. CASE halted = "no" /\ MemoryNext /\ Working
    <3>1. FramesApart
      BY DEF MemoryInv
    <3>2. directories # <<>>
      BY <2>4, WorkingHasSpaces
    <3>3. MapsFit /\ OrderFits
      BY <2>4, <3>2 DEF SpacesInv
    <3>4. MapsFit' /\ (halted' = "no" => OrderFits')
      BY <2>4, <3>1, <3>3, SpacesGoOn
    <3>5. directories' # <<>>
      <4>1. Stopped \/ Working'
        BY <2>4, <3>1, WorkingKeeps
      <4>2. CASE Stopped
        BY <3>2, <4>2 DEF Stopped
      <4>3. CASE Working'
        <5>1. kernel' \in DOMAIN directories'
          BY <4>3 DEF Working, SpacesFit
        <5>2. DOMAIN <<>> = {}
          OBVIOUS
        <5> QED BY <5>1, <5>2
      <4> QED BY <4>1, <4>2, <4>3
    <3> QED BY <3>4, <3>5 DEF SpacesInv
  <2> QED BY <2>1, <2>2, <2>3, <2>4 DEF MemoryInv, Working
<1> QED BY <1>1, <1>2, MemoryKeepsInv, PTL DEF MemorySpec

\* What was placed is below the heap.
LEMMA PlacedPageIs ==
  ASSUME PlacedFits, placement = 0, NEW a \in Nat, a < placed
  PROVE  /\ a \div PageSize \in EveryPage /\ (a \div PageSize) * PageSize < placed
         /\ a = (a \div PageSize) * PageSize + (a % PageSize)
<1>1. PICK n \in ModuleSizes : placed <= PlacementEnd(n)
  BY DEF PlacedFits
<1>2. /\ placed \in Nat /\ PageSize \in Nat \ {0} /\ HeapStart \in Nat
      /\ PlacementEnd(n) \in Nat /\ PlacementEnd(n) <= HeapStart * PageSize
  BY MemoryAssumption, LayoutAssumption, IdentityPagesAre DEF PlacedFits
<1> DEFINE p == a \div PageSize
           e == HeapStart * PageSize
<1>3. p \in Nat /\ a % PageSize \in Nat /\ a = p * PageSize + (a % PageSize)
  <2>1. a % PageSize \in 0 .. PageSize - 1 /\ p \in Nat /\ a = p * PageSize + (a % PageSize)
    BY <1>2, QuotientAndRest, Zenon
  <2>2. \A r \in 0 .. PageSize - 1 : r \in Nat
    BY <1>2
  <2> QED BY <2>1, <2>2
<1>4. e \in Nat
  BY <1>2
<1> HIDE DEF p
<1> DEFINE m == p * PageSize
<1>5. m \in Nat
  BY <1>2, <1>3
<1>6. m <= a /\ m < placed /\ m < e
  <2> HIDE DEF m, e
  <2>1. PICK r \in Nat : a = m + r
    BY <1>3 DEF m
  <2> QED BY <1>1, <1>2, <1>4, <1>5, <2>1 DEF e
<1>7. p < HeapStart
  BY <1>2, <1>3, <1>6
<1>8. p \in EveryPage
  <2>1. /\ HeapEnd \in Nat /\ Tables * Entries \in Nat /\ HeapStart < HeapEnd
        /\ HeapEnd <= Tables * Entries
    BY MemoryAssumption, LayoutAssumption, SMTT(30)
  <2> HIDE DEF m, e
  <2> QED BY <1>2, <1>3, <1>7, <2>1 DEF EveryPage
<1> QED BY <1>3, <1>6, <1>8 DEF p

\* What the kernel means by an address is what the CPU finds there.
LEMMA MeansIsTranslated ==
  ASSUME PlacedFits, KernelPaged, placement = 0, NEW a \in Nat
  PROVE  /\ a < placed => Translated(a) = a
         /\ Reach(a) => Means(a) = Translated(a)
<1>1. ASSUME a < placed PROVE Translated(a) = a
  <2> DEFINE p == a \div PageSize
  <2>1. p \in EveryPage /\ p * PageSize < placed /\ a = p * PageSize + (a % PageSize)
    BY <1>1, PlacedPageIs
  <2>2. TableOf(kernel, p) # 0 /\ FrameOf(kernel, p) = p
    BY <2>1 DEF KernelPaged, Identity
  <2> HIDE DEF p
  <2>3. pages[TableOf(kernel, p)][p % Entries] = p
    BY <2>2 DEF FrameOf
  <2>4. Translated(a) = p * PageSize + (a % PageSize)
    BY <2>2, <2>3 DEF Translated, Cell, p
  <2> QED BY <2>1, <2>4
<1>2. ASSUME Reach(a) PROVE Means(a) = Translated(a)
  <2>1. CASE a < placed
    BY <1>1, <2>1 DEF Means
  <2>2. CASE ~(a < placed)
    <3>1. a \div PageSize \in HeapPages
      BY <1>2, <2>2 DEF Reach, HeapKept
    <3>2. TableOf(kernel, a \div PageSize) # 0
      BY <3>1 DEF KernelPaged
    <3>3. Means(a) = PhysAddr(a)
      BY <2>2 DEF Means
    <3> QED BY <3>2, <3>3 DEF PhysAddr, Translated, FrameOf, Cell
  <2> QED BY <2>1, <2>2
<1> QED BY <1>1, <1>2

\* Once paging is on, the CPU finds in every address space what the kernel means:
\* what was placed is where it was, the directories and their tables are where
\* they say, and the tables of the kernel are in all of them, also when the
\* machine has been halted.
THEOREM AddressSpacesAlwaysWork == MemorySpec => []AddressSpacesWork
<1>1. SpacesInv => AddressSpacesWork
  <2> SUFFICES ASSUME SpacesInv, placement = 0 PROVE AddressSpacesWork
    BY DEF AddressSpacesWork
  <2>1. PlacedFits /\ SharedTables /\ AllSayWhere /\ KernelPaged
    BY DEF SpacesInv, MapsFit
  <2>2. \A a : Reach(a) => Means(a) = Translated(a)
    <3>1. ASSUME NEW a, Reach(a) PROVE Means(a) = Translated(a)
      <4>1. a \in Nat
        BY <3>1 DEF Reach
      <4> QED BY <2>1, <3>1, <4>1, MeansIsTranslated
    <3> QED BY <3>1
  <2>3. ASSUME NEW a \in 0 .. placed - 1 PROVE Translated(a) = a
    <3>1. a \in Nat /\ a < placed
      BY <2>1 DEF PlacedFits
    <3> QED BY <2>1, <3>1, MeansIsTranslated
  <2>4. ASSUME NEW d \in DOMAIN directories
        PROVE  /\ directories[d].physicalAddr = Translated(d + PageSize)
               /\ \A t \in 0 .. Tables - 1 :
                    LET table == directories[d].tables[t]
                    IN  /\ table # 0 => directories[d].physicals[t] = Translated(table)
                        /\ directories[kernel].tables[t] # 0 => table = directories[kernel].tables[t]
    <3>1. SaysWhere(directories[d], d)
      BY <2>1 DEF AllSayWhere
    <3>2. directories[d].physicalAddr = Translated(d + PageSize)
      BY <2>2, <3>1 DEF SaysWhere
    <3>3. ASSUME NEW t \in AllTables
          PROVE  /\ directories[d].tables[t] # 0 =>
                      directories[d].physicals[t] = Translated(directories[d].tables[t])
                 /\ directories[kernel].tables[t] # 0 =>
                      directories[d].tables[t] = directories[kernel].tables[t]
      BY <2>1, <2>2, <3>1 DEF SaysWhere, SharedTables
    <3> QED BY <3>2, <3>3 DEF AllTables
  <2> QED BY <2>3, <2>4 DEF AddressSpacesWork
<1> QED BY <1>1, MemoryKeepsSpaces, PTL

\* When the kernel is idle nothing is at hand.
LEMMA IdleInOrder ==
  ASSUME Working, OrderFits, todo = <<>>, NEW i \in DOMAIN tasks
  PROVE  TaskInOrder(tasks[i], <<>>)
<1>1. Now = <<>>
  <2> DEFINE S == Nat
  <2>1. <<>> \in Seq(S)
    OBVIOUS
  <2>2. SubSeq(<<>>, 1, Extent(<<>>)) = <<>>
    BY <2>1, NothingNow
  <2> QED BY <2>2 DEF Now
<1>2. AtHandOf(i) = <<>>
  BY <1>1 DEF AtHandOf
<1>3. TaskInOrder(tasks[i], AtHandOf(i))
  BY DEF OrderFits, TasksInOrder
<1> QED BY <1>2, <1>3

\* Of a task with a heap and segments, the pages that follow each other have
\* frames that do.
LEMMA PairsFollow ==
  ASSUME Working, OrderFits, todo = <<>>, NEW i \in DOMAIN tasks,
         NEW page, page \in PairsOf(tasks[i].program),
         \/ FrameOf(tasks[i].directory, page + 1) # NoFrame
         \/ \E g \in ToSet(tasks[i].program.segments) : {page, page + 1} \subseteq SegmentPages(g)
  PROVE  FrameOf(tasks[i].directory, page + 1) = FrameOf(tasks[i].directory, page) + 1
<1>1. PICK task : task = tasks[i]
  OBVIOUS
<1>2. TaskInOrder(task, <<>>)
  BY <1>1, IdleInOrder
<1>3. task.program \in TaskPrograms
  BY <1>1, TaskIs DEF Working
<1>4. CASE task.program = Initial
  <2>1. task.program.kind = "initial" /\ task.program.segments = <<>>
    BY <1>4 DEF Initial
  <2>2. ToSet(<<>>) = {}
    BY DEF ToSet
  <2>3. FrameOf(task.directory, page + 1) # NoFrame /\ {page, page + 1} \subseteq ToSet(TaskHeap)
    BY <1>1, <2>1, <2>2 DEF PairsOf
  <2>4. page + 1 \in TaskPages
    BY <2>3 DEF TaskPages
  <2> QED BY <1>2, <2>1, <2>3, <2>4 DEF TaskInOrder
<1>5. CASE task.program \in AllPrograms
  <2>1. task.program.kind # "initial"
    BY <1>5, LayoutAssumption
  <2> DEFINE F == FramesOf(task.directory)
             P == PairsOf(task.program)
  <2>2. page \in P /\ page \in EveryPage /\ page + 1 \in EveryPage
    BY <1>1, <1>5, PairsAre
  <2>3. F[page] = FrameOf(task.directory, page) /\ F[page + 1] = FrameOf(task.directory, page + 1)
    BY <2>2 DEF FramesOf
  <2> HIDE DEF F, P
  <2>4. InOrder(<<>>, task.program, P, F, frames)
    BY <1>2, <2>1 DEF TaskInOrder, F, P
  <2>5. NotTouched(<<>>, task.program, page)
    BY DEF NotTouched
  <2>6. F[page + 1] = F[page] + 1
    BY <2>2, <2>4, <2>5 DEF InOrder
  <2> QED BY <1>1, <2>3, <2>6
<1> QED BY <1>3, <1>4, <1>5 DEF TaskPrograms

\* When the kernel is idle, consecutive pages of a heap or a segment, of its own
\* heap too, have consecutive frames in every address space, so that a buffer that
\* spans pages is contiguous in physical memory, as DMA assumes.
THEOREM BuffersAreAlwaysContiguous == MemorySpec => []BuffersAreContiguous
<1>1. MemoryInv /\ SpacesInv => BuffersAreContiguous
  <2> SUFFICES ASSUME MemoryInv, SpacesInv, halted = "no", todo = <<>>,
                      NEW i \in DOMAIN tasks, NEW page \in PagesOf(tasks[i]) \cup HeapPages
               PROVE  LET next == FrameOf(tasks[i].directory, page + 1)
                          together ==
                            \/ {page, page + 1} \subseteq HeapPages
                            \/ {page, page + 1} \subseteq ToSet(TaskHeap) /\ next # NoFrame
                            \/ \E s \in ToSet(tasks[i].program.segments) :
                                 {page, page + 1} \subseteq
                                   s.virt \div PageSize .. (s.virt + s.memsz - 1) \div PageSize
                      IN  together => next = FrameOf(tasks[i].directory, page) + 1
    BY DEF BuffersAreContiguous, IsIdle
  <2>1. Working
    <3>1. Early \/ Working
      BY DEF MemoryInv, Working
    <3>2. CASE Early
      <4>1. PICK n \in ModuleSizes : EarlyAt(n)
        BY <3>2 DEF Early, EarlyAt
      <4> QED BY <4>1, EarlyIs
    <3> QED BY <3>1, <3>2
  <2>2. MapsFit /\ OrderFits
    BY <2>1, WorkingHasSpaces DEF SpacesInv
  <2>3. placement = 0 /\ wand = NoWand
    BY <2>1, IdleIs
  <2> DEFINE d == tasks[i].directory
  <2>4. d \in DOMAIN directories
    BY <2>1, TaskIs DEF Working
  <2> HIDE DEF d
  <2>5. ASSUME {page, page + 1} \subseteq HeapPages
        PROVE  FrameOf(d, page + 1) = FrameOf(d, page) + 1
    <3>1. page \in HeapPairs /\ page \in EveryPage /\ page + 1 \in EveryPage
          /\ page # 0 /\ page + 1 # 0
      BY <2>5, HeapPairsAre DEF HeapPairs
    <3>2. /\ TableOf(kernel, page) # 0 /\ TableOf(kernel, page + 1) # 0
          /\ Home(page + 1) = Home(page) + 1
      BY <2>2, <2>3, <2>5, <3>1 DEF MapsFit, KernelPaged
    <3>3. Home(page) = FrameOf(kernel, page) /\ Home(page + 1) = FrameOf(kernel, page + 1)
      BY <2>3, <3>1 DEF Home, NoWand
    <3>4. FrameOf(d, page) = FrameOf(kernel, page) /\ FrameOf(d, page + 1) = FrameOf(kernel, page + 1)
      BY <2>1, <2>2, <2>4, <3>1, <3>2, KernelPageIs DEF Working, MapsFit
    <3> QED BY <3>2, <3>3, <3>4
  <2>6. ASSUME {page, page + 1} \subseteq ToSet(TaskHeap), FrameOf(d, page + 1) # NoFrame
        PROVE  FrameOf(d, page + 1) = FrameOf(d, page) + 1
    <3>1. page \in EveryPage
      BY <2>6, EveryPageIs DEF TaskPages
    <3>2. page \in PairsOf(tasks[i].program)
      BY <2>6, <3>1 DEF PairsOf
    <3> QED BY <2>1, <2>2, <2>6, <3>2, PairsFollow DEF d
  <2>7. ASSUME NEW g \in ToSet(tasks[i].program.segments), {page, page + 1} \subseteq SegmentPages(g)
        PROVE  FrameOf(d, page + 1) = FrameOf(d, page) + 1
    <3>1. tasks[i].program \in TaskPrograms /\ tasks[i].program # Initial
      <4>1. ToSet(Initial.segments) = {}
        BY DEF Initial, ToSet
      <4> QED BY <2>1, <2>7, <4>1, TaskIs DEF Working
    <3>2. tasks[i].program \in AllPrograms
      BY <3>1 DEF TaskPrograms
    <3>3. page \in EveryPage
      <4>1. SegmentPages(g) \subseteq TaskPages
        BY <2>7, <3>2 DEF TaskPages
      <4> QED BY <2>7, <4>1, EveryPageIs
    <3>4. page \in PairsOf(tasks[i].program)
      BY <2>7, <3>3 DEF PairsOf
    <3> QED BY <2>1, <2>2, <2>7, <3>4, PairsFollow DEF d
  <2> QED BY <2>5, <2>6, <2>7 DEF SegmentPages, d
<1> QED BY <1>1, MemoryKeepsInv, MemoryKeepsSpaces, PTL

-----------------------------------------------------------------------------
(* Images.                                                                 *)

\* The frames of the RAM that are looked at, and the cells of the memory.
RamFrames == 0 .. Words * WordBits - 1
MemoryFits ==
  /\ DOMAIN memory = 0 .. Words * WordBits * PageSize - 1
  /\ frames \subseteq RamFrames

\* What a cell of a task holds, in a page that has a frame for good.
CellOf(d, a) == FrameOf(d, a \div PageSize) * PageSize + (a % PageSize)
InPlace(d, a, v) == HasFrame(d, a \div PageSize) /\ memory[CellOf(d, a)] = v

\* The pages of the heap are mapped, once paging is on or nothing is left to map them.
HeapMapped ==
  IF placement = 0 THEN \A p \in HeapPages : Home(p) \in frames
  ELSE \A p \in HeapPages : NotTouched(Now, Initial, p) => FrameOf(kernel, p) \in frames

\* What has been copied of a segment, while s is left to do, is where it should be.
IsCopiedTo(s, j, k) ==
  \A n \in DOMAIN s : s[n].do = "copy" /\ s[n].segment = j => k < s[n].copied
Byte(program, j, k) ==
  IF k < program.segments[j].filesz THEN Image(program.name, j, k) ELSE Zero
SegmentsLoaded(task, s) ==
  \A j \in DOMAIN task.program.segments :
    LET g == task.program.segments[j]
    IN  \A k \in 0 .. g.memsz - 1 :
          IsCopiedTo(s, j, k) => InPlace(task.directory, g.virt + k, Byte(task.program, j, k))

\* So are the arguments; until then the stack is mapped, or will be before.
StackTop == TaskStack[1] * PageSize + PageSize - 1
ArgumentsLoaded(task, i, s) ==
  /\ \A n \in DOMAIN s : s[n].do = "arguments" =>
       \/ HasFrame(task.directory, TaskStack[1])
       \/ \E m \in DOMAIN s : m < n /\ Touches(s[m], task.program, TaskStack[1])
  /\ task.program.kind \in {"elf", "not_elf"} /\ (\A n \in DOMAIN s : s[n].do # "arguments") =>
       InPlace(task.directory, StackTop, Arguments(i))

TasksLoaded ==
  \A i \in DOMAIN tasks :
    SegmentsLoaded(tasks[i], AtHandOf(i)) /\ ArgumentsLoaded(tasks[i], i, AtHandOf(i))
ImageInv ==
  /\ MemoryFits
  /\ halted = "no" /\ directories # <<>> => HeapMapped /\ TasksLoaded

\* A cell is in one frame, at one place of it.
LEMMA CellsApart ==
  ASSUME NEW f \in Nat, NEW g \in Nat, NEW x \in 0 .. PageSize - 1, NEW y \in 0 .. PageSize - 1,
         f * PageSize + x = g * PageSize + y
  PROVE  f = g /\ x = y
<1>1. PageSize \in Nat \ {0}
  BY MemoryAssumption
<1>2. (f * PageSize + x) \div PageSize = f /\ (f * PageSize + x) % PageSize = x
  BY <1>1, QuotientIs
<1>3. (g * PageSize + y) \div PageSize = g /\ (g * PageSize + y) % PageSize = y
  BY <1>1, QuotientIs
<1> QED BY <1>2, <1>3

\* The frames of the RAM, their cells, and the frame that is none.
LEMMA RamFramesAre ==
  /\ \A f \in RamFrames : f \in Nat /\ f < FrameCount /\ f # NoFrame
  /\ NoFrame \in Nat /\ NoFrame >= FrameCount /\ FrameCount \in Nat
  /\ \A f \in RamFrames : \A x \in 0 .. PageSize - 1 :
       f * PageSize + x \in 0 .. Words * WordBits * PageSize - 1
<1>1. /\ PageSize \in Nat \ {0} /\ WordBits \in Nat \ {0} /\ FrameCount \in Nat
      /\ DeviceFrame \in Nat /\ Tables \in Nat
  BY MemoryAssumption
<1> DEFINE w == FrameCount \div WordBits
           r == FrameCount % WordBits
           n == w * WordBits
<1>2. w \in Nat /\ r \in 0 .. WordBits - 1 /\ FrameCount = w * WordBits + r
  BY <1>1, QuotientAndRest
<1> HIDE DEF w, r
<1>3. n \in Nat /\ n <= FrameCount
  BY <1>1, <1>2
<1>4. Words * WordBits = n
  BY DEF Words, w
<1> HIDE DEF n
<1>5. ASSUME NEW f \in RamFrames
      PROVE  f \in Nat /\ f < n /\ f < FrameCount /\ f # NoFrame
  BY <1>1, <1>3, <1>4, <1>5 DEF RamFrames, NoFrame
<1>6. ASSUME NEW f \in RamFrames, NEW x \in 0 .. PageSize - 1
      PROVE  f * PageSize + x \in 0 .. n * PageSize - 1
  <2>1. f + 1 \in Nat /\ f + 1 <= n /\ f \in Nat
    BY <1>3, <1>5
  <2>2. (f + 1) * PageSize <= n * PageSize /\ n * PageSize \in Nat
    BY <1>1, <1>3, <2>1, ProductOrder
  <2>3. (f + 1) * PageSize = f * PageSize + PageSize /\ f * PageSize \in Nat
    BY <1>1, <2>1
  <2> QED BY <1>1, <2>2, <2>3
<1>7. NoFrame \in Nat /\ NoFrame >= FrameCount
  BY <1>1 DEF NoFrame
<1> QED BY <1>1, <1>4, <1>5, <1>6, <1>7

\* Two pages with one entry are one page.
LEMMA EntriesApart ==
  ASSUME SpacesFit, TablesApart, NEW d \in DOMAIN directories, NEW e \in DOMAIN directories,
         NEW p \in EveryPage, NEW q \in EveryPage, TableOf(d, p) = TableOf(e, q),
         TableOf(d, p) # 0, p % Entries = q % Entries
  PROVE  p = q
<1>1. p \div Entries \in AllTables /\ q \div Entries \in AllTables
  BY EveryPageIs
<1>2. p \div Entries = q \div Entries
  BY <1>1 DEF TablesApart, TableOf
<1> QED BY <1>2, PlacesOfPages

\* A page with a frame of the RAM, that the wand has not borrowed.
LEMMA EntryOf ==
  ASSUME SpacesFit, NEW d \in DOMAIN directories, NEW p \in EveryPage,
         TableOf(d, p) # 0, FrameOf(d, p) < FrameCount,
         <<TableOf(d, p), p % Entries>> \notin Borrowed
  PROVE  /\ <<TableOf(d, p), p % Entries>> \in WithFrame(pages, Borrowed)
         /\ FrameOf(d, p) = pages[TableOf(d, p)][p % Entries]
<1>1. TableOf(d, p) \in DOMAIN pages /\ p % Entries \in Positions
  BY FrameIs, EveryPageIs
<1> QED BY <1>1 DEF FrameOf, WithFrame

\* Neither has a page of a task, nor a page of the heap but the wand's.
LEMMA NotBorrowed ==
  ASSUME Working, MapsFit, NEW d \in DOMAIN directories, NEW p \in EveryPage,
         wand = NoWand \/ p # wand.page, TableOf(d, p) # 0
  PROVE  <<TableOf(d, p), p % Entries>> \notin Borrowed
<1>1. CASE wand = NoWand
  BY <1>1 DEF Borrowed
<1>2. CASE wand # NoWand
  <2>1. wand.page \in EveryPage /\ placement = 0 /\ active \in DOMAIN directories
    BY <1>2, EveryPageIs DEF Working, AllocationFits, TasksFit
  <2>2. ASSUME <<TableOf(d, p), p % Entries>> = <<TableOf(active, wand.page), wand.page % Entries>>
        PROVE  FALSE
    <3>1. TableOf(d, p) = TableOf(active, wand.page) /\ p % Entries = wand.page % Entries
      BY <2>2
    <3> QED BY <1>2, <2>1, <3>1, EntriesApart DEF Working
  <2> QED BY <1>2, <2>2 DEF Borrowed
<1> QED BY <1>1, <1>2

\* The frame of a page of a task.
LEMMA TaskFrameIs ==
  ASSUME Working, MapsFit, MemoryFits, NEW i \in DOMAIN tasks, NEW p \in TaskPages,
         NEW d, d = tasks[i].directory, HasFrame(d, p)
  PROVE  /\ d \in DOMAIN directories /\ p \in EveryPage /\ TableOf(d, p) # 0
         /\ FrameOf(d, p) \in RamFrames /\ FrameOf(d, p) \in Nat /\ FrameOf(d, p) \in frames
         /\ <<TableOf(d, p), p % Entries>> \in WithFrame(pages, Borrowed)
         /\ FrameOf(d, p) = pages[TableOf(d, p)][p % Entries]
<1>1. d \in DOMAIN directories /\ p \in EveryPage
  BY TaskIs, EveryPageIs DEF Working
<1>2. FrameOf(d, p) \in frames /\ FrameOf(d, p) # NoFrame
  BY DEF HasFrame
<1>3. FrameOf(d, p) \in RamFrames
  BY <1>2 DEF MemoryFits
<1>4. TableOf(d, p) # 0
  BY <1>2 DEF FrameOf
<1>5. FrameOf(d, p) \in Nat /\ FrameOf(d, p) < FrameCount
  BY <1>3, RamFramesAre
<1>6. wand = NoWand \/ p # wand.page
  <2>1. p \notin KernelPages
    BY TaskPagesAre DEF Working
  <2> QED BY <2>1, EveryPageIs DEF Working, AllocationFits
<1>7. <<TableOf(d, p), p % Entries>> \notin Borrowed
  BY <1>1, <1>4, <1>6, NotBorrowed
<1> QED BY <1>1, <1>2, <1>3, <1>4, <1>5, <1>7, EntryOf DEF Working

\* No two pages of tasks have the same frame.
LEMMA TaskFramesApart ==
  ASSUME Working, MapsFit, FramesApart, MemoryFits, NEW i \in DOMAIN tasks, NEW p \in TaskPages,
         NEW d, d = tasks[i].directory, HasFrame(d, p),
         NEW j \in DOMAIN tasks, NEW q \in TaskPages, NEW e, e = tasks[j].directory, HasFrame(e, q),
         FrameOf(d, p) = FrameOf(e, q)
  PROVE  i = j /\ p = q
<1>1. /\ d \in DOMAIN directories /\ p \in EveryPage /\ TableOf(d, p) # 0
      /\ <<TableOf(d, p), p % Entries>> \in WithFrame(pages, Borrowed)
      /\ FrameOf(d, p) = pages[TableOf(d, p)][p % Entries]
  BY TaskFrameIs
<1>2. /\ e \in DOMAIN directories /\ q \in EveryPage
      /\ <<TableOf(e, q), q % Entries>> \in WithFrame(pages, Borrowed)
      /\ FrameOf(e, q) = pages[TableOf(e, q)][q % Entries]
  BY TaskFrameIs
<1>3. <<TableOf(d, p), p % Entries>> = <<TableOf(e, q), q % Entries>>
  BY <1>1, <1>2 DEF FramesApart, ApartIn
<1>4. TableOf(d, p) = TableOf(e, q) /\ p % Entries = q % Entries
  BY <1>3
<1>5. p = q
  BY <1>1, <1>2, <1>4, EntriesApart DEF Working
<1>6. d = e
  <2>1. TableOf(kernel, p) = 0 /\ p \div Entries \in AllTables
    BY <1>1, TaskPagesAre, EveryPageIs DEF Working
  <2> QED BY <1>1, <1>2, <1>4, <1>5, <2>1 DEF MapsFit, SharedTables, TableOf
<1>7. i = j
  BY <1>6 DEF MapsFit, DirectoriesFit
<1> QED BY <1>5, <1>7

\* Nor has a page of the heap, also while it is lent to the wand.
LEMMA HeapFramesApart ==
  ASSUME Working, MapsFit, FramesApart, MemoryFits, placement = 0,
         NEW i \in DOMAIN tasks, NEW p \in TaskPages, NEW d, d = tasks[i].directory, HasFrame(d, p),
         NEW h \in HeapPages, Home(h) \in frames
  PROVE  Home(h) # FrameOf(d, p)
<1>1. /\ d \in DOMAIN directories /\ p \in EveryPage /\ TableOf(d, p) # 0
      /\ <<TableOf(d, p), p % Entries>> \in WithFrame(pages, Borrowed)
      /\ FrameOf(d, p) = pages[TableOf(d, p)][p % Entries]
  BY TaskFrameIs
<1>2. Home(h) < FrameCount
  BY RamFramesAre DEF MemoryFits
<1>3. h \in EveryPage /\ h # 0 /\ p # h
  BY HeapPairsAre, TaskPagesAre, EveryPageIs DEF Working
<1>4. CASE h = wand.page
  <2>1. wand # NoWand
    BY <1>3, <1>4 DEF NoWand
  <2>2. wand.frame < FrameCount /\ Home(h) = wand.frame
    BY <1>2, <1>4 DEF Home
  <2> QED BY <1>1, <2>1, <2>2 DEF FramesApart, ApartIn
<1>5. CASE h # wand.page
  <2>1. Home(h) = FrameOf(kernel, h) /\ TableOf(kernel, h) # 0 /\ kernel \in DOMAIN directories
    BY <1>5 DEF Home, MapsFit, KernelPaged, Working, SpacesFit
  <2>2. <<TableOf(kernel, h), h % Entries>> \notin Borrowed
    BY <1>3, <1>5, <2>1, NotBorrowed
  <2>3. /\ <<TableOf(kernel, h), h % Entries>> \in WithFrame(pages, Borrowed)
        /\ FrameOf(kernel, h) = pages[TableOf(kernel, h)][h % Entries]
    BY <1>2, <1>3, <2>1, <2>2, EntryOf DEF Working
  <2>4. ASSUME Home(h) = FrameOf(d, p) PROVE FALSE
    <3>1. <<TableOf(kernel, h), h % Entries>> = <<TableOf(d, p), p % Entries>>
      BY <1>1, <2>1, <2>3, <2>4 DEF FramesApart, ApartIn
    <3>2. TableOf(d, p) = TableOf(kernel, h) /\ p % Entries = h % Entries
      BY <3>1
    <3> QED BY <1>1, <1>3, <2>1, <3>2, EntriesApart DEF Working
  <2> QED BY <2>4
<1> QED BY <1>4, <1>5

-----------------------------------------------------------------------------
(* What is loaded stays so.                                                *)

\* A task has a stack.
LEMMA StackBegins == TaskStack[1] \in ToSet(TaskStack) /\ TaskStack[1] \in Nat
<1>1. TaskStack \in Seq(Nat) /\ TaskStack # <<>>
  BY LayoutAssumption, ProgramsAssumption
<1>2. \A s \in Seq(Nat) : s # <<>> => 1 \in DOMAIN s /\ s[1] \in Nat
  OBVIOUS
<1>3. 1 \in DOMAIN TaskStack /\ TaskStack[1] \in Nat
  BY <1>1, <1>2
<1> QED BY <1>3 DEF ToSet

\* Where a byte of a segment is.
LEMMA ByteIsIn ==
  ASSUME NEW program \in TaskPrograms, NEW j \in DOMAIN program.segments,
         NEW g, g = program.segments[j], NEW k \in 0 .. g.memsz - 1
  PROVE  /\ g.virt \in Nat /\ g.memsz \in Nat \ {0} /\ g.virt + k \in Nat /\ k \in Nat
         /\ (g.virt + k) \div PageSize \in SegmentPages(g)
         /\ SegmentPages(g) \subseteq TaskPages /\ program \in AllPrograms
         /\ TaskStack[1] \notin SegmentPages(g)
<1>1. program \in AllPrograms
  <2>1. DOMAIN <<>> = {} /\ Initial.segments = <<>>
    BY DEF Initial
  <2> QED BY <2>1 DEF TaskPrograms
<1>2. /\ g.virt \in Nat /\ g.memsz \in Nat \ {0}
      /\ SegmentPages(g) \subseteq TaskPages
  BY <1>1, SegmentIs
<1>3. TaskStack[1] \notin SegmentPages(g)
  <2>1. SegmentPages(g) \cap (ToSet(TaskStack) \cup ToSet(TaskHeap)) = {}
    BY <1>1, LayoutAssumption
  <2>2. TaskStack[1] \in ToSet(TaskStack)
    BY StackBegins
  <2> QED BY <2>1, <2>2
<1>4. k \in Nat /\ g.virt + k \in Nat /\ g.virt + g.memsz - 1 \in Nat
      /\ g.virt <= g.virt + k /\ g.virt + k <= g.virt + g.memsz - 1
  BY <1>2
<1>5. PageSize \in Nat \ {0}
  BY MemoryAssumption
<1>6. /\ g.virt \div PageSize \in Nat /\ (g.virt + k) \div PageSize \in Nat
      /\ (g.virt + g.memsz - 1) \div PageSize \in Nat
  BY <1>2, <1>4, <1>5, QuotientAndRest
<1>7. g.virt \div PageSize <= (g.virt + k) \div PageSize
  BY <1>2, <1>4, <1>5, QuotientOrder
<1>8. (g.virt + k) \div PageSize <= (g.virt + g.memsz - 1) \div PageSize
  BY <1>2, <1>4, <1>5, QuotientOrder
<1>9. (g.virt + k) \div PageSize \in SegmentPages(g)
  BY <1>6, <1>7, <1>8 DEF SegmentPages
<1> QED BY <1>1, <1>2, <1>3, <1>4, <1>9

\* The top of the stack.
LEMMA StackTopIs ==
  /\ TaskStack[1] \in TaskPages /\ StackTop \in Nat
  /\ StackTop \div PageSize = TaskStack[1] /\ StackTop % PageSize = PageSize - 1
<1>1. TaskStack[1] \in ToSet(TaskStack) /\ TaskStack[1] \in Nat
  BY StackBegins
<1>2. PageSize \in Nat \ {0} /\ PageSize - 1 \in 0 .. PageSize - 1
  BY MemoryAssumption
<1>3. StackTop = TaskStack[1] * PageSize + (PageSize - 1) /\ StackTop \in Nat
  BY <1>1, <1>2 DEF StackTop
<1>4. /\ (TaskStack[1] * PageSize + (PageSize - 1)) \div PageSize = TaskStack[1]
      /\ (TaskStack[1] * PageSize + (PageSize - 1)) % PageSize = PageSize - 1
  BY <1>1, <1>2, QuotientIs
<1> QED BY <1>1, <1>3, <1>4 DEF TaskPages

\* A page that has a frame for good keeps it, and what is in it.
PageKept(d, p) ==
  HasFrame(d, p) =>
    /\ HasFrame(d, p)' /\ FrameOf(d, p)' = FrameOf(d, p)
    /\ \A x \in 0 .. PageSize - 1 :
         memory'[FrameOf(d, p) * PageSize + x] = memory[FrameOf(d, p) * PageSize + x]

\* So a cell of it holds what it held.
LEMMA HeldStays ==
  ASSUME NEW d, NEW a \in Nat, NEW v, InPlace(d, a, v), PageKept(d, a \div PageSize)
  PROVE  InPlace(d, a, v)'
<1>1. a % PageSize \in 0 .. PageSize - 1
  BY MemoryAssumption, QuotientAndRest
<1>2. PICK p, x : p = a \div PageSize /\ x = a % PageSize
  OBVIOUS
<1>3. /\ HasFrame(d, p) /\ HasFrame(d, p)' /\ FrameOf(d, p)' = FrameOf(d, p)
      /\ memory'[FrameOf(d, p) * PageSize + x] = memory[FrameOf(d, p) * PageSize + x]
      /\ memory[FrameOf(d, p) * PageSize + x] = v
  BY <1>1, <1>2 DEF PageKept, InPlace, CellOf
<1>4. memory'[FrameOf(d, p)' * PageSize + x] = v
  BY <1>3
<1> QED BY <1>2, <1>3, <1>4 DEF InPlace, CellOf

\* What has been copied of the segments of a task is still there.
CopiesLeft(s, u) == \A j, k : IsCopiedTo(u, j, k) => IsCopiedTo(s, j, k)
LEMMA SegmentsStay ==
  ASSUME NEW task, task.program \in TaskPrograms, NEW s, NEW u, SegmentsLoaded(task, s),
         CopiesLeft(s, u),
         \A p \in TaskPages : p # TaskStack[1] => PageKept(task.directory, p)
  PROVE  SegmentsLoaded(task, u)'
<1>1. PICK d, program : d = task.directory /\ program = task.program
  OBVIOUS
<1>2. ASSUME NEW j \in DOMAIN program.segments, NEW g, g = program.segments[j],
             NEW k \in 0 .. g.memsz - 1, IsCopiedTo(u, j, k)
      PROVE  InPlace(d, g.virt + k, Byte(program, j, k))'
  <2>1. IsCopiedTo(s, j, k)
    BY <1>2 DEF CopiesLeft
  <2>2. PICK a, v : a = g.virt + k /\ v = Byte(program, j, k)
    OBVIOUS
  <2>3. InPlace(d, a, v)
    BY <1>1, <1>2, <2>1, <2>2 DEF SegmentsLoaded
  <2>4. a \in Nat /\ a \div PageSize \in TaskPages /\ a \div PageSize # TaskStack[1]
    BY <1>1, <1>2, <2>2, ByteIsIn
  <2>5. InPlace(d, a, v)'
    BY <1>1, <2>3, <2>4, HeldStays
  <2> QED BY <2>2, <2>5
<1> QED BY <1>1, <1>2 DEF SegmentsLoaded

\* What is left after the first thing, or a part of it, still has the stack mapped
\* before the arguments are written; and those that were are there.
OthersLeft(s, u, program) ==
  \E k \in {0, 1} : s # <<>> /\ GoesOn(u, k, s, program) /\ s[1].do # "arguments"
LEMMA ArgumentsStay ==
  ASSUME NEW task, NEW i, NEW S, NEW s \in Seq(S), NEW u \in Seq(S),
         s = u \/ OthersLeft(s, u, task.program),
         s # u /\ Touches(s[1], task.program, TaskStack[1]) => HasFrame(task.directory, TaskStack[1])',
         ArgumentsLoaded(task, i, s), PageKept(task.directory, TaskStack[1])
  PROVE  ArgumentsLoaded(task, i, u)'
<1>1. PICK d, program, t : d = task.directory /\ program = task.program /\ t = TaskStack[1]
  OBVIOUS
<1>2. HasFrame(d, t) => HasFrame(d, t)'
  BY <1>1 DEF PageKept
<1>3. InPlace(d, StackTop, Arguments(i)) => InPlace(d, StackTop, Arguments(i))'
  <2>1. PICK a, v : a = StackTop /\ v = Arguments(i)
    OBVIOUS
  <2>2. a \in Nat /\ a \div PageSize = t
    BY <1>1, <2>1, StackTopIs
  <2>3. InPlace(d, a, v) => InPlace(d, a, v)'
    BY <1>1, <2>2, HeldStays
  <2> QED BY <2>1, <2>3
<1>4. CASE s = u
  BY <1>1, <1>2, <1>3, <1>4 DEF ArgumentsLoaded
<1>5. CASE s # u
  <2>1. PICK k \in {0, 1} : s # <<>> /\ GoesOn(u, k, s, program) /\ s[1].do # "arguments"
    BY <1>1, <1>5 DEF OthersLeft
  <2>2. /\ \A n \in DOMAIN u : n + k \in DOMAIN s /\ u[n].do = s[n + k].do
        /\ \A m \in DOMAIN s : m # 1 => m - k \in DOMAIN u /\ u[m - k] = s[m]
        /\ DOMAIN u \subseteq Nat /\ DOMAIN s \subseteq Nat
    <3>1. /\ Len(u) = Len(s) - k /\ Len(s) \in Nat /\ DOMAIN s = 1 .. Len(s) /\ DOMAIN u = 1 .. Len(u)
          /\ Len(u) \in Nat
      BY <2>1 DEF GoesOn
    <3>2. \A n \in DOMAIN u : n + k \in DOMAIN s /\ u[n].do = s[n + k].do
                              /\ (n + k # 1 => u[n] = s[n + k])
      BY <2>1 DEF GoesOn
    <3>3. ASSUME NEW m \in DOMAIN s, m # 1 PROVE m - k \in DOMAIN u /\ u[m - k] = s[m]
      <4>1. m - k \in 1 .. Len(u) /\ (m - k) + k = m
        BY <3>1, <3>3
      <4> QED BY <3>1, <3>2, <3>3, <4>1
    <3> QED BY <3>1, <3>2, <3>3
  <2>3. ASSUME NEW n \in DOMAIN u, u[n].do = "arguments"
        PROVE  HasFrame(d, t)' \/ \E m \in DOMAIN u : m < n /\ Touches(u[m], program, t)
    <3>1. n + k \in DOMAIN s /\ s[n + k].do = "arguments"
      BY <2>2, <2>3
    <3>2. \/ HasFrame(d, t)
          \/ \E m \in DOMAIN s : m < n + k /\ Touches(s[m], program, t)
      BY <1>1, <3>1 DEF ArgumentsLoaded
    <3>3. CASE HasFrame(d, t)
      BY <1>2, <3>3
    <3>4. CASE \E m \in DOMAIN s : m < n + k /\ Touches(s[m], program, t)
      <4>1. PICK m \in DOMAIN s : m < n + k /\ Touches(s[m], program, t)
        BY <3>4
      <4>2. CASE m = 1
        BY <1>1, <1>5, <4>1, <4>2
      <4>3. CASE m # 1
        <5>1. m - k \in DOMAIN u /\ u[m - k] = s[m] /\ m - k < n
          BY <2>2, <4>1, <4>3
        <5> QED BY <4>1, <5>1
      <4> QED BY <4>2, <4>3
    <3> QED BY <3>2, <3>3, <3>4
  <2>4. ASSUME \A n \in DOMAIN u : u[n].do # "arguments"
        PROVE  \A n \in DOMAIN s : s[n].do # "arguments"
    BY <2>1, <2>2, <2>4
  <2> QED BY <1>1, <1>3, <2>3, <2>4 DEF ArgumentsLoaded
<1> QED BY <1>4, <1>5

\* The pages of all tasks keep what they have.
TaskPagesKept ==
  \A i \in DOMAIN tasks : \A d : d = tasks[i].directory => \A p \in TaskPages : PageKept(d, p)

\* A page of a task that has a frame for good keeps it.
LEMMA FrameStays ==
  ASSUME KeepFrames, tasks' = tasks, NEW i \in DOMAIN tasks, NEW d, d = tasks[i].directory,
         NEW p \in TaskPages, HasFrame(d, p)
  PROVE  HasFrame(d, p)' /\ FrameOf(d, p)' = FrameOf(d, p)
<1>1. FrameOf(tasks[i].directory, p)' = FrameOf(tasks[i].directory, p)
  BY DEF KeepFrames, TasksKeepFrames
<1>2. FrameOf(d, p)' = FrameOf(d, p)
  BY <1>1
<1>3. NoFrame' = NoFrame /\ frames \subseteq frames'
  BY DEF NoFrame, KeepFrames
<1> QED BY <1>2, <1>3 DEF HasFrame

\* Where the memory stays as it is, so do the pages.
LEMMA MemoryStays ==
  ASSUME KeepFrames, tasks' = tasks, memory' = memory
  PROVE  TaskPagesKept
<1>1. ASSUME NEW i \in DOMAIN tasks, NEW d, d = tasks[i].directory, NEW p \in TaskPages
      PROVE  PageKept(d, p)
  BY <1>1, FrameStays DEF PageKept
<1> QED BY <1>1 DEF TaskPagesKept

\* What is done copies nothing.
LEMMA NothingIsCopied ==
  ASSUME NEW S, NEW s \in Seq(S), s # <<>>, NEW u \in Seq(S), NEW program,
         GoesOn(u, 1, s, program), s[1].do # "copy"
  PROVE  CopiesLeft(s, u)
<1>1. \A n \in DOMAIN s : n # 1 => n - 1 \in DOMAIN u /\ u[n - 1] = s[n]
  BY ShiftIs
<1> QED BY <1>1 DEF CopiesLeft, IsCopiedTo

\* The first thing is done and is neither a copy nor the arguments; if it gives the
\* stack its frame, that is for good.
IsDone(s, u, program, d) ==
  /\ s # <<>> /\ GoesOn(u, 1, s, program)
  /\ s[1].do \notin {"copy", "arguments"}
  /\ Touches(s[1], program, TaskStack[1]) => HasFrame(d, TaskStack[1])'

\* Nothing was at hand, and now there is what copies nothing and writes no arguments.
IsBegun(s, u) == s = <<>> /\ \A n \in DOMAIN u : u[n].do \notin {"copy", "arguments"}

\* So what is loaded stays.
LEMMA TaskStaysLoaded ==
  ASSUME NEW task, task.program \in TaskPrograms, NEW i, NEW S, NEW s \in Seq(S), NEW u \in Seq(S),
         NEW d, d = task.directory, s = u \/ IsDone(s, u, task.program, d) \/ IsBegun(s, u),
         \A p \in TaskPages : PageKept(d, p),
         SegmentsLoaded(task, s), ArgumentsLoaded(task, i, s)
  PROVE  SegmentsLoaded(task, u)' /\ ArgumentsLoaded(task, i, u)'
<1>1. CopiesLeft(s, u)
  <2>1. CASE s = u
    BY <2>1 DEF CopiesLeft
  <2>2. CASE IsDone(s, u, task.program, d)
    <3>1. s # <<>> /\ GoesOn(u, 1, s, task.program) /\ s[1].do # "copy"
      BY <2>2 DEF IsDone
    <3> QED BY <3>1, NothingIsCopied
  <2>3. CASE IsBegun(s, u)
    <3>1. DOMAIN s = {}
      BY <2>3 DEF IsBegun
    <3> QED BY <3>1 DEF CopiesLeft, IsCopiedTo
  <2> QED BY <2>1, <2>2, <2>3
<1>2. \A p \in TaskPages : PageKept(task.directory, p)
  OBVIOUS
<1>3. SegmentsLoaded(task, u)'
  BY <1>1, <1>2, SegmentsStay
<1>4. PageKept(task.directory, TaskStack[1])
  BY <1>2, StackTopIs
<1>5. ArgumentsLoaded(task, i, u)'
  <2>1. CASE s = u \/ IsDone(s, u, task.program, d)
    <3>1. s = u \/ OthersLeft(s, u, task.program)
      BY <2>1 DEF IsDone, OthersLeft
    <3>2. s # u /\ Touches(s[1], task.program, TaskStack[1]) => HasFrame(task.directory, TaskStack[1])'
      BY <2>1 DEF IsDone
    <3> QED BY <1>4, <3>1, <3>2, ArgumentsStay
  <2>2. CASE IsBegun(s, u)
    <3>1. DOMAIN s = {} /\ \A n \in DOMAIN u : u[n].do # "arguments"
      BY <2>2 DEF IsBegun
    <3>2. PICK v, kind, e, a : v = Arguments(i) /\ kind = task.program.kind /\ e = task.directory
                               /\ a = StackTop
      OBVIOUS
    <3>3. kind \in {"elf", "not_elf"} => InPlace(e, a, v)
      BY <3>1, <3>2 DEF ArgumentsLoaded
    <3>4. a \in Nat /\ PageKept(e, a \div PageSize)
      BY <1>4, <3>2, StackTopIs
    <3>5. kind \in {"elf", "not_elf"} => InPlace(e, a, v)'
      BY <3>3, <3>4, HeldStays
    <3> QED BY <3>1, <3>2, <3>5 DEF ArgumentsLoaded
  <2> QED BY <2>1, <2>2
<1> QED BY <1>3, <1>5

\* So it does of all tasks.
LEMMA TasksStayLoaded ==
  ASSUME TasksFit, tasks' = tasks, TasksLoaded, TaskPagesKept, NEW S,
         tasks # <<>> => /\ Now \in Seq(S) /\ Now' \in Seq(S)
                         /\ \A d : d = Last(tasks).directory =>
                              Now' = Now \/ IsDone(Now, Now', TaskProgram, d) \/ IsBegun(Now, Now')
  PROVE  TasksLoaded'
<1>1. ASSUME NEW i \in DOMAIN tasks
      PROVE  (SegmentsLoaded(tasks[i], AtHandOf(i)) /\ ArgumentsLoaded(tasks[i], i, AtHandOf(i)))'
  <2>1. PICK task, s, u, d : /\ task = tasks[i] /\ s = AtHandOf(i) /\ u = AtHandOf(i)'
                             /\ d = task.directory
    OBVIOUS
  <2>2. /\ task.program \in TaskPrograms /\ tasks # <<>>
        /\ i = Len(tasks) => Last(tasks) = task /\ TaskProgram = task.program
    BY <2>1, TaskIs, ProgramIs DEF TaskProgram
  <2>3. /\ \A p \in TaskPages : PageKept(d, p)
        /\ SegmentsLoaded(task, s) /\ ArgumentsLoaded(task, i, s)
    BY <2>1 DEF TaskPagesKept, TasksLoaded
  <2>4. s \in Seq(S) /\ u \in Seq(S) /\ (s = u \/ IsDone(s, u, task.program, d) \/ IsBegun(s, u))
    <3>1. CASE i = Len(tasks)
      <4>1. s = Now /\ u = Now'
        BY <2>1, <3>1 DEF AtHandOf
      <4> QED BY <2>1, <2>2, <3>1, <4>1
    <3>2. CASE i # Len(tasks)
      <4>1. s = <<>> /\ u = <<>>
        BY <2>1, <3>2 DEF AtHandOf
      <4>2. <<>> \in Seq(S)
        OBVIOUS
      <4> QED BY <4>1, <4>2
    <3> QED BY <3>1, <3>2
  <2>5. SegmentsLoaded(task, u)' /\ ArgumentsLoaded(task, i, u)'
    BY <2>1, <2>2, <2>3, <2>4, TaskStaysLoaded
  <2>6. tasks'[i] = task
    BY <2>1
  <2> QED BY <2>1, <2>5, <2>6
<1> QED BY <1>1 DEF TasksLoaded

\* The pages of the heap stay mapped, once paging is on.
LEMMA HeapStaysMapped ==
  ASSUME HeapMapped, KeepFrames, placement = 0, placement' = 0
  PROVE  HeapMapped'
<1>1. \A p \in HeapPages : Home(p)' = Home(p) /\ Home(p) \in frames
  BY DEF HeapMapped, KeepFrames, HeapKeepsFrames
<1> QED BY <1>1 DEF HeapMapped, KeepFrames, HeapPages

-----------------------------------------------------------------------------
(* Steps that leave the memory as it is.                                   *)

\* A frame that is free is one of the RAM.
LEMMA FreeFrameIsRam ==
  ASSUME FreeFrames # {}
  PROVE  FreeFrame \in RamFrames /\ FreeFrame \in Nat /\ FreeFrame # NoFrame
<1>1. FreeFrames \subseteq Nat
  BY DEF FreeFrames
<1>2. \E f \in FreeFrames : \A g \in FreeFrames : f <= g
  BY <1>1, LeastElement
<1>3. FreeFrame \in FreeFrames
  BY <1>2 DEF FreeFrame, Min
<1>4. FreeFrame \in RamFrames
  BY <1>3 DEF FreeFrames, RamFrames
<1> QED BY <1>4, RamFramesAre

\* The frames of the RAM are marked, one more or none.
LEMMA MemoryStaysFit ==
  ASSUME MemoryFits, DOMAIN memory' = DOMAIN memory,
         frames' = frames \/ \E f \in RamFrames : frames' = frames \cup {f}
  PROVE  MemoryFits'
<1>1. DOMAIN memory' = 0 .. Words * WordBits * PageSize - 1 /\ frames \subseteq RamFrames
  BY DEF MemoryFits
<1>2. frames' \subseteq RamFrames
  BY <1>1
<1> QED BY <1>1, <1>2 DEF MemoryFits, RamFrames, Words

\* Before paging, what is still ahead maps the pages of the heap that have no frame.
LEMMA HeapStaysAhead ==
  ASSUME HeapMapped, KeepFrames, placement # 0, placement' # 0, NEW S, NEW s \in Seq(S), s = Now,
         NEW u \in Seq(S), u = Now', NEW k \in {0, 1}, s # <<>>, GoesOn(u, k, s, Initial),
         \A p \in HeapPages : Touches(s[1], Initial, p) => FrameOf(kernel, p)' \in frames'
  PROVE  HeapMapped'
<1>1. ASSUME NEW p \in HeapPages, NotTouched(u, Initial, p) PROVE FrameOf(kernel, p)' \in frames'
  <2>1. CASE Touches(s[1], Initial, p)
    BY <2>1
  <2>2. CASE ~Touches(s[1], Initial, p)
    <3>1. ASSUME NEW j \in DOMAIN s, j # 1 PROVE j - k \in DOMAIN u /\ u[j - k] = s[j]
      <4>1. /\ Len(u) = Len(s) - k /\ Len(s) \in Nat /\ DOMAIN s = 1 .. Len(s) /\ DOMAIN u = 1 .. Len(u)
            /\ Len(u) \in Nat
        BY DEF GoesOn
      <4>2. \A n \in DOMAIN u : n + k # 1 => u[n] = s[n + k]
        BY DEF GoesOn
      <4>3. j - k \in 1 .. Len(u) /\ (j - k) + k = j
        BY <3>1, <4>1
      <4> QED BY <3>1, <4>1, <4>2, <4>3
    <3>2. NotTouched(s, Initial, p)
      BY <1>1, <2>2, <3>1 DEF NotTouched
    <3>3. FrameOf(kernel, p) \in frames
      BY <3>2 DEF HeapMapped
    <3> QED BY <3>3 DEF KeepFrames, HeapKeepsFrames
  <2> QED BY <2>1, <2>2
<1>2. \A p \in HeapPages : NotTouched(Now', Initial, p) => FrameOf(kernel, p)' \in frames'
  BY <1>1
<1> QED BY <1>2 DEF HeapMapped, HeapPages, NotTouched, Initial

\* The first thing is done, and is about no page of a task.
LEMMA DoneKeepsTasks ==
  ASSUME Working, TasksLoaded, KeepFrames, tasks' = tasks, memory' = memory, NEW what, Step(what), Done,
         what \notin {"clone", "switch", "copy", "arguments", "map", "identity_map"}
  PROVE  TasksLoaded'
<1>1. PICK S : S = Items
  OBVIOUS
<1>2. /\ Now \in Seq(S) /\ Now # <<>> /\ Now[1].do = what
      /\ Now' \in Seq(S) /\ GoesOn(Now', 1, Now, TaskProgram)
  BY <1>1, NowAtHand
<1>3. ASSUME NEW d PROVE IsDone(Now, Now', TaskProgram, d)
  <2>1. ~Touches(Now[1], TaskProgram, TaskStack[1])
    BY <1>2 DEF Touches
  <2>2. Now[1].do \notin {"copy", "arguments"}
    BY <1>2
  <2> QED BY <1>2, <2>1, <2>2 DEF IsDone
<1>4. TaskPagesKept
  BY MemoryStays
<1> QED BY <1>2, <1>3, <1>4, TasksStayLoaded DEF Working

\* Once paging is on, that is all.
LEMMA DoneKeepsImages ==
  ASSUME Working, MemoryFits, HeapMapped, TasksLoaded, KeepFrames,
         UNCHANGED <<tasks, memory, frames, placement>>, placement = 0, NEW what, Step(what), Done,
         what \notin {"clone", "switch", "copy", "arguments", "map", "identity_map"}
  PROVE  MemoryFits' /\ HeapMapped' /\ TasksLoaded'
<1>1. TasksLoaded'
  BY DoneKeepsTasks
<1>2. HeapMapped'
  BY HeapStaysMapped
<1>3. MemoryFits'
  BY MemoryStaysFit
<1> QED BY <1>1, <1>2, <1>3

\* A stack of the kernel.
LEMMA AllocateStackKeepsImages ==
  ASSUME Working, MapsFit, MemoryFits, HeapMapped, TasksLoaded, AllocateStack
  PROVE  MemoryFits' /\ HeapMapped' /\ TasksLoaded'
<1>1. /\ Step("stack") /\ Done
      /\ UNCHANGED <<directories, pages, kernel, tasks, wand, frames, others, memory>>
  BY DEF AllocateStack, spaces, making
<1>2. placement = 0
  BY <1>1, PagingIsOn
<1>3. placement' = placement
  <2>1. PICK a \in Addresses(Head(todo).size) : AllocAligned(Head(todo).size, a)
    BY DEF AllocateStack
  <2> QED BY <1>2, <2>1 DEF AllocAligned
<1>4. KeepFrames
  BY <1>1, FramesAreKept
<1> QED BY <1>1, <1>2, <1>3, <1>4, DoneKeepsImages

\* The wand is taken.
LEMMA TakeWandKeepsImages ==
  ASSUME Working, MapsFit, OrderFits, MemoryFits, HeapMapped, TasksLoaded, TakeWand
  PROVE  MemoryFits' /\ HeapMapped' /\ TasksLoaded'
<1>1. Step("take_wand") /\ Done /\ UNCHANGED <<tasks, frames, memory>>
  BY DEF TakeWand
<1>2. placement = 0
  BY <1>1, TaskItemIs
<1>3. placement' = placement
  <2>1. PICK a \in Addresses(PageSize) : AllocAligned(PageSize, a)
    BY DEF TakeWand
  <2> QED BY <1>2, <2>1 DEF AllocAligned
<1>4. KeepFrames
  BY TakeWandGoesOn
<1> QED BY <1>1, <1>2, <1>3, <1>4, DoneKeepsImages

\* It is put back.
LEMMA PutWandBackKeepsImages ==
  ASSUME Working, MapsFit, OrderFits, MemoryFits, HeapMapped, TasksLoaded, PutWandBack
  PROVE  MemoryFits' /\ HeapMapped' /\ TasksLoaded'
<1>1. Step("put_wand_back") /\ Done /\ UNCHANGED <<tasks, frames, memory, placement>>
  BY DEF PutWandBack
<1>2. placement = 0
  BY <1>1, TaskItemIs
<1>3. KeepFrames
  BY PutWandBackGoesOn
<1> QED BY <1>1, <1>2, <1>3, DoneKeepsImages

\* A page of a device is mapped.
LEMMA MapDeviceKeepsImages ==
  ASSUME Working, MapsFit, OrderFits, MemoryFits, HeapMapped, TasksLoaded, MapDevice
  PROVE  MemoryFits' /\ HeapMapped' /\ TasksLoaded'
<1>1. Step("device") /\ Done /\ UNCHANGED <<tasks, frames, memory, placement>>
  BY DEF MapDevice, OnPage, making, allocation
<1>2. placement = 0
  BY <1>1, TaskItemIs
<1>3. KeepFrames
  BY MapDeviceGoesOn
<1> QED BY <1>1, <1>2, <1>3, DoneKeepsImages

\* A table is made.
LEMMA MakeTableKeepsImages ==
  ASSUME Working, MapsFit, OrderFits, MemoryFits, HeapMapped, TasksLoaded, MakeTable
  PROVE  MemoryFits' /\ HeapMapped' /\ TasksLoaded'
<1>1. UNCHANGED <<tasks, frames, memory, todo>>
  BY DEF MakeTable, making
<1>2. Now' = Now
  BY <1>1 DEF Now
<1>3. KeepFrames
  BY MakeTableGoesOn
<1>4. placement' = 0 <=> placement = 0
  <2>1. PICK a \in Addresses(PageSize) : AllocAligned(PageSize, a)
    BY DEF MakeTable
  <2>2. PageSize \in Nat \ {0} /\ others' = others
    BY MemoryAssumption DEF MakeTable
  <2> QED BY <2>1, <2>2, AllocAlignedTakes DEF Working
<1>5. TasksLoaded'
  <2>1. PICK S : S = Items
    OBVIOUS
  <2>2. NeedsTable /\ \E what \in {"get_page", "identity_map", "map", "copy", "device"} : Step(what)
    BY DEF MakeTable, NeedsTable
  <2>3. Now \in Seq(S)
    BY <2>1, <2>2, NowAtHand
  <2>4. TaskPagesKept
    BY <1>1, <1>3, MemoryStays
  <2> QED BY <1>1, <1>2, <2>3, <2>4, TasksStayLoaded DEF Working
<1>6. HeapMapped'
  <2>1. CASE placement = 0
    BY <1>3, <1>4, <2>1, HeapStaysMapped
  <2>2. CASE placement # 0
    <3>1. \A p \in HeapPages : NotTouched(Now', Initial, p) => FrameOf(kernel, p)' \in frames'
      BY <1>2, <1>3, <2>2 DEF HeapMapped, KeepFrames, HeapKeepsFrames
    <3> QED BY <1>4, <2>2, <3>1 DEF HeapMapped, HeapPages, NotTouched, Initial
  <2> QED BY <2>1, <2>2
<1>7. MemoryFits'
  BY <1>1, MemoryStaysFit
<1> QED BY <1>5, <1>6, <1>7

\* The first loop of setPaging.
LEMMA GetPageKeepsImages ==
  ASSUME Working, MapsFit, OrderFits, MemoryFits, HeapMapped, TasksLoaded, GetPage
  PROVE  MemoryFits' /\ HeapMapped' /\ TasksLoaded'
<1>1. /\ Step("get_page") /\ Done
      /\ UNCHANGED <<directories, pages, kernel, tasks, wand, frames, others, memory, placement>>
  BY DEF GetPage, OnPage, spaces, making, allocation
<1>2. KeepFrames
  BY <1>1, FramesAreKept
<1>3. TasksLoaded'
  BY <1>1, <1>2, DoneKeepsTasks
<1>4. tasks = <<>> /\ TaskProgram = Initial /\ placement # 0
  BY <1>1, KernelItemIs DEF OrderFits
<1>5. HeapMapped'
  <2>1. PICK S, s, u : S = Items /\ s = Now /\ u = Now'
    OBVIOUS
  <2>2. s \in Seq(S) /\ s # <<>> /\ s[1].do = "get_page" /\ u \in Seq(S) /\ GoesOn(u, 1, s, Initial)
    BY <1>1, <1>4, <2>1, NowAtHand
  <2>3. \A p \in HeapPages : ~Touches(s[1], Initial, p)
    BY <2>2 DEF Touches
  <2> QED BY <1>1, <1>2, <1>4, <2>1, <2>2, <2>3, HeapStaysAhead
<1>6. MemoryFits'
  BY <1>1, MemoryStaysFit
<1> QED BY <1>3, <1>5, <1>6

\* A page is mapped to itself; it is below the heap.
LEMMA IdentityMapKeepsImages ==
  ASSUME Working, MapsFit, OrderFits, MemoryFits, HeapMapped, TasksLoaded, IdentityMap, halted' = "no"
  PROVE  MemoryFits' /\ HeapMapped' /\ TasksLoaded'
<1>1. /\ Step("identity_map") /\ UNCHANGED <<tasks, memory, placement>>
      /\ PageAtHand \div WordBits < Words /\ PageAtHand \div WordBits \in Nat
      /\ PageAtHand \in Nat
  <2>1. ~Panic("frame_out_of_range")
    BY DEF Panic
  <2>2. Step("identity_map") /\ UNCHANGED <<tasks, memory, placement>>
        /\ ~(PageAtHand \div WordBits >= Words)
    BY <2>1 DEF IdentityMap, OnPage, allocation, making
  <2>3. PageAtHand \in Nat
    <3>1. PageAtHand = Now[1].page /\ Now[1] \in KernelItem
      BY <2>2, KernelItemIs
    <3>2. Now[1].do = "identity_map"
      BY <2>2, NowAtHand
    <3>3. Now[1].page \in IdentityPages
      BY <3>1, <3>2 DEF KernelItem
    <3> QED BY <3>1, <3>3, EveryPageIs
  <2>4. PageAtHand \div WordBits \in Nat /\ Words \in Nat
    BY <2>3, MemoryAssumption, QuotientAndRest DEF Words
  <2> QED BY <2>2, <2>3, <2>4
<1>2. tasks = <<>> /\ TaskProgram = Initial /\ placement # 0
  BY <1>1, KernelItemIs DEF OrderFits
<1>3. KeepFrames
  BY IdentityMapGoesOn
<1>4. PICK page, S, s, u : page = PageAtHand /\ S = Items /\ s = Now /\ u = Now'
  OBVIOUS
<1>5. page = s[1].page /\ frames' = frames \cup {page}
  BY <1>2, <1>4, IdentityMapIs
<1>6. PICK k \in {0, 1} : u \in Seq(S) /\ GoesOn(u, k, s, Initial)
  BY <1>2, <1>4, IdentityMapIs
<1>7. s \in Seq(S) /\ s # <<>> /\ s[1].do = "identity_map"
  BY <1>1, <1>4, NowAtHand
<1>8. HeapMapped'
  <2>1. ASSUME NEW p \in HeapPages PROVE ~Touches(s[1], Initial, p)
    <3>1. p \notin IdentityPages
      <4>1. IdentityPages \subseteq 0 .. HeapStart - 1 /\ HeapStart \in Nat
        BY IdentityPagesAre, MemoryAssumption
      <4> QED BY <4>1 DEF HeapPages
    <3> QED BY <1>7, <3>1 DEF Touches
  <2> QED BY <1>1, <1>2, <1>3, <1>4, <1>6, <1>7, <2>1, HeapStaysAhead
<1>9. page \in RamFrames
  <2>1. page \in Nat /\ page \div WordBits \in Nat /\ page \div WordBits < Words
        /\ WordBits \in Nat \ {0} /\ Words \in Nat
    BY <1>1, <1>4, MemoryAssumption, QuotientAndRest DEF Words
  <2>2. page = (page \div WordBits) * WordBits + (page % WordBits) /\ page % WordBits \in 0 .. WordBits - 1
    BY <2>1, QuotientAndRest
  <2>3. PICK q, r : q = page \div WordBits /\ r = page % WordBits
    OBVIOUS
  <2>4. (q + 1) * WordBits <= Words * WordBits /\ Words * WordBits \in Nat
    BY <2>1, <2>3, ProductOrder
  <2>5. (q + 1) * WordBits = q * WordBits + WordBits /\ q * WordBits \in Nat
    BY <2>1, <2>3
  <2>6. page < Words * WordBits
    BY <2>1, <2>2, <2>3, <2>4, <2>5
  <2> QED BY <2>1, <2>4, <2>6 DEF RamFrames
<1>10. MemoryFits'
  BY <1>1, <1>5, <1>9, MemoryStaysFit
<1>11. TasksLoaded'
  BY <1>1, <1>2 DEF TasksLoaded
<1> QED BY <1>8, <1>10, <1>11

\* A page is mapped: of the heap, or of the last task, whose stack may be it.
LEMMA MapPageKeepsImages ==
  ASSUME Working, MapsFit, OrderFits, MemoryFits, HeapMapped, TasksLoaded, MapPage
  PROVE  MemoryFits' /\ HeapMapped' /\ TasksLoaded'
<1>0. PICK page, f, S, s, u : page = PageAtHand /\ f = FreeFrame /\ S = Items /\ s = Now /\ u = Now'
  OBVIOUS
<1>1. /\ Step("map") /\ Done /\ TableOf(target, page) # 0 /\ FreeFrames # {}
      /\ frames' = frames \cup {f} /\ Map(target, page, f)
      /\ UNCHANGED <<placement, directories, kernel, tasks, target, memory>>
  BY <1>0 DEF MapPage, OnPage, AllocAnyFrame, allocation, SetFrame
<1>2. /\ s \in Seq(S) /\ s # <<>> /\ s[1].do = "map" /\ u \in Seq(S) /\ GoesOn(u, 1, s, TaskProgram)
  BY <1>0, <1>1, NowAtHand
<1>3. page \in EveryPage /\ page = s[1].page
  <2>1. PICK rest : Doing(s, rest)
    BY <1>0, <1>1, NowAtHand
  <2> QED BY <1>0, <1>2, <2>1, PageIs DEF Working
<1>4. f \in RamFrames /\ f \in Nat /\ f # NoFrame /\ frames = 0 .. f - 1
  BY <1>0, <1>1, FreeFrameIsRam, FreeIsNext DEF MapsFit
<1>5. KeepFrames
  BY MapPageGoesOn
<1>6. FrameOf(target, page)' = f
  BY <1>1, <1>3, <1>4, MapsPage
<1>7. MemoryFits'
  BY <1>1, <1>4, MemoryStaysFit
<1>8. HeapMapped'
  <2>1. CASE placement = 0
    BY <1>1, <1>5, <2>1, HeapStaysMapped
  <2>2. CASE placement # 0
    <3>1. tasks = <<>> /\ target = kernel /\ target' = kernel'
      BY <1>1, <2>2 DEF Working, TasksFit
    <3>2. TaskProgram = Initial
      BY <3>1, KernelProgram
    <3>3. FrameOf(kernel, page)' \in frames'
      BY <1>1, <1>6, <3>1
    <3>4. \A p \in HeapPages : Touches(s[1], Initial, p) => p = page
      BY <1>2, <1>3 DEF Touches
    <3> QED BY <1>0, <1>1, <1>2, <1>5, <2>2, <3>2, <3>3, <3>4, HeapStaysAhead
  <2> QED BY <2>1, <2>2
<1>9. TasksLoaded'
  <2>1. ASSUME tasks # <<>>, NEW d, d = Last(tasks).directory
        PROVE  IsDone(s, u, TaskProgram, d)
    <3>1. d = target
      BY <2>1 DEF Working, TasksFit
    <3>2. f # 0
      <4>1. placement = 0 /\ HeapStart \in HeapPages
        BY <2>1, LayoutAssumption, MemoryAssumption, SMTT(30) DEF Working, TasksFit, HeapPages
      <4>2. Home(HeapStart) \in frames
        BY <4>1 DEF HeapMapped
      <4> QED BY <1>4, <4>2
    <3>3. FrameOf(d, page)' = f /\ f \in frames' /\ NoFrame' = NoFrame
      BY <1>1, <1>6, <3>1 DEF NoFrame
    <3>4. HasFrame(d, page)'
      BY <1>4, <3>2, <3>3 DEF HasFrame
    <3>5. Touches(s[1], TaskProgram, TaskStack[1]) => TaskStack[1] = page
      BY <1>2, <1>3 DEF Touches
    <3>6. s[1].do \notin {"copy", "arguments"}
      BY <1>2
    <3> QED BY <1>2, <3>4, <3>5, <3>6 DEF IsDone
  <2>2. TaskPagesKept
    BY <1>1, <1>5, MemoryStays
  <2> QED BY <1>0, <1>1, <1>2, <2>1, <2>2, TasksStayLoaded DEF Working
<1> QED BY <1>7, <1>8, <1>9

\* Paging is on: the pages of the heap have been mapped.
LEMMA SetPagingKeepsImages ==
  ASSUME Working, MapsFit, OrderFits, MemoryFits, HeapMapped, TasksLoaded, SetPaging
  PROVE  MemoryFits' /\ HeapMapped' /\ TasksLoaded'
<1>0. PICK s : s = Now
  OBVIOUS
<1>1. /\ Step("paging") /\ Done /\ placement' = 0
      /\ UNCHANGED <<tasks, wand, frames, directories, pages, kernel, memory>>
  BY DEF SetPaging, making
<1>2. tasks = <<>> /\ placement # 0 /\ BeforePaging(s)
  BY <1>0, <1>1, KernelItemIs DEF OrderFits
<1>3. s \in Seq(Items) /\ s # <<>> /\ s[1].do = "paging" /\ 1 \in DOMAIN s
  BY <1>0, <1>1, NowAtHand
<1>4. \A i \in DOMAIN s : i # 1 => AfterPaging(s[i])
  <2>1. \A i \in DOMAIN s : i # 1 => 1 < i
    BY <1>3
  <2> QED BY <1>2, <1>3, <2>1 DEF BeforePaging, PagingAhead
<1>5. ASSUME NEW p \in HeapPages PROVE NotTouched(s, Initial, p)
  <2>1. p \notin ToSet(KernelStack)
    <3>1. ToSet(KernelStack) \subseteq HeapEnd .. Tables * Entries - 1 /\ HeapEnd \in Nat /\ HeapStart \in Nat
      BY LayoutAssumption, MemoryAssumption
    <3> QED BY <3>1 DEF HeapPages
  <2>2. ASSUME NEW i \in DOMAIN s PROVE ~Touches(s[i], Initial, p)
    <3>1. CASE i = 1
      BY <1>3, <3>1 DEF Touches
    <3>2. CASE i # 1
      <4>1. AfterPaging(s[i])
        BY <1>4, <3>2
      <4> QED BY <2>1, <4>1 DEF AfterPaging, Touches
    <3> QED BY <3>1, <3>2
  <2> QED BY <2>2 DEF NotTouched
<1>6. \A p \in HeapPages : FrameOf(kernel, p) \in frames
  BY <1>0, <1>2, <1>5 DEF HeapMapped
<1>7. wand = NoWand
  BY <1>2, HeapIsNew DEF Working
<1>8. HeapMapped'
  <2>1. ASSUME NEW p \in HeapPages PROVE Home(p)' \in frames'
    <3>1. p # 0 /\ wand'.page = 0
      BY <1>1, <1>7, HeapPairsAre DEF NoWand
    <3>2. FrameOf(kernel, p)' = FrameOf(kernel, p)
      BY <1>1 DEF FrameOf, TableOf
    <3> QED BY <1>1, <1>6, <3>1, <3>2 DEF Home
  <2> QED BY <1>1, <2>1 DEF HeapMapped, HeapPages
<1>9. MemoryFits'
  BY <1>1, MemoryStaysFit
<1>10. TasksLoaded'
  BY <1>1, <1>2 DEF TasksLoaded
<1> QED BY <1>8, <1>9, <1>10

\* When nothing is at hand, what begins leaves what is loaded.
LEMMA BeginKeepsImages ==
  ASSUME Working, MemoryFits, HeapMapped, TasksLoaded, tasks # <<>>, NEW S, Now' \in Seq(S),
         IsBegun(Now, Now'),
         UNCHANGED <<directories, pages, kernel, tasks, frames, memory, placement, wand>>
  PROVE  MemoryFits' /\ HeapMapped' /\ TasksLoaded'
<1>1. KeepFrames
  BY FramesAreKept
<1>2. TaskPagesKept
  BY <1>1, MemoryStays
<1>3. Now \in Seq(S)
  <2>1. Now = <<>> /\ <<>> \in Seq(S)
    BY DEF IsBegun
  <2> QED BY <2>1
<1>4. TasksLoaded'
  BY <1>2, <1>3, TasksStayLoaded DEF Working
<1>5. placement = 0
  BY DEF Working, TasksFit
<1>6. HeapMapped'
  BY <1>1, <1>5, HeapStaysMapped
<1>7. MemoryFits'
  BY MemoryStaysFit
<1> QED BY <1>4, <1>6, <1>7

\* So does what leaves nothing at hand.
LEMMA NothingKeepsImages ==
  ASSUME Working, MemoryFits, HeapMapped, TasksLoaded, tasks # <<>>, Now = <<>>, Now' = <<>>,
         UNCHANGED <<directories, pages, kernel, tasks, frames, memory, placement, wand>>
  PROVE  MemoryFits' /\ HeapMapped' /\ TasksLoaded'
<1>1. PICK u : u = Now'
  OBVIOUS
<1>2. DOMAIN u = {} /\ u \in Seq({})
  BY <1>1
<1>3. IsBegun(Now, Now')
  BY <1>1, <1>2 DEF IsBegun
<1> QED BY <1>1, <1>2, <1>3, BeginKeepsImages

\* When the kernel is idle nothing is at hand.
LEMMA IdleNow ==
  ASSUME todo = <<>>
  PROVE  Now = <<>>
<1>1. <<>> \in Seq({})
  OBVIOUS
<1> QED BY <1>1, NothingNow DEF Now

\* Nor then.
LEMMA IdleThen ==
  ASSUME todo' = <<>>
  PROVE  Now' = <<>>
<1>1. <<>> \in Seq({})
  OBVIOUS
<1> QED BY <1>1, NothingNow DEF Now

\* The kernel changes to the directory of a task.
LEMMA SwitchToKeepsImages ==
  ASSUME Working, MemoryFits, HeapMapped, TasksLoaded, NEW i \in DOMAIN tasks, SwitchTo(i)
  PROVE  MemoryFits' /\ HeapMapped' /\ TasksLoaded'
<1>1. /\ todo = <<>> /\ todo' = todo
      /\ UNCHANGED <<directories, pages, kernel, tasks, frames, memory, placement, wand>>
  BY DEF SwitchTo, IsIdle, making, allocation
<1>2. tasks # <<>> /\ Now = <<>> /\ Now' = <<>>
  BY <1>1, IdleIs, IdleNow, IdleThen
<1> QED BY <1>1, <1>2, NothingKeepsImages

\* The boot ends.
LEMMA SwitchToInitialKeepsImages ==
  ASSUME Working, MemoryFits, HeapMapped, TasksLoaded, SwitchToInitial
  PROVE  MemoryFits' /\ HeapMapped' /\ TasksLoaded'
<1>1. /\ Step("switch") /\ todo # <<>> /\ Head(todo).do = "switch" /\ todo' = Tail(todo)
      /\ UNCHANGED <<directories, pages, kernel, tasks, frames, memory, placement, wand>>
  BY DEF SwitchToInitial, Step, allocation, making, Done
<1>2. tasks # <<>> /\ todo' = <<>>
  BY <1>1, SwitchIs
<1>3. Now' = <<>>
  BY <1>2, IdleThen
<1>4. Now = <<>>
  <2>1. PICK s, rest : Doing(s, rest)
    BY DEF Working, TodoFits
  <2>2. Now = s /\ todo = s \o rest /\ s \in Seq(Items)
    BY <2>1, NowIs, DoingIs DEF Doing
  <2>3. s # <<>> => Head(todo) = s[1] /\ s[1] \in Items
    BY <2>1, DoingIs
  <2>4. Items \subseteq KernelItem \cup TaskItem \cup DeviceItem
    BY DEF Items
  <2> QED BY <1>1, <2>2, <2>3, <2>4, ItemsStay
<1> QED BY <1>1, <1>2, <1>3, <1>4, NothingKeepsImages

\* A task is asked for: nothing is at hand before the clone.
LEMMA SpawnKeepsImages ==
  ASSUME Working, MemoryFits, HeapMapped, TasksLoaded, NEW program \in Programs, Spawn(program)
  PROVE  MemoryFits' /\ HeapMapped' /\ TasksLoaded'
<1>1. /\ todo = <<>> /\ todo' = MakeTask(program)
      /\ UNCHANGED <<directories, pages, kernel, tasks, frames, memory, placement, wand>>
  BY DEF Spawn, IsIdle, allocation, making, spaces
<1>2. tasks # <<>> /\ Now = <<>>
  BY <1>1, IdleIs, IdleNow
<1>3. Now' = <<>>
  <2>1. program \in AllPrograms
    BY DEF AllPrograms
  <2>2. AfterClone(program) \in Seq(TodoItem)
    BY <2>1, MakeTaskIs
  <2>3. MakeTask(program) = <<[do |-> "clone", program |-> program]>> \o AfterClone(program)
    BY DEF MakeTask
  <2>4. MakeTask(program)[1].do \in {"clone", "switch"} \/ MakeTask(program) = <<>>
    BY <2>2, <2>3, LaterBegins
  <2>5. MakeTask(program) \in Seq(TodoItem)
    BY <2>1, MakeTaskIs
  <2>6. SubSeq(MakeTask(program), 1, Extent(MakeTask(program))) = <<>>
    BY <2>4, <2>5, NothingNow
  <2> QED BY <1>1, <2>6 DEF Now
<1> QED BY <1>1, <1>2, <1>3, NothingKeepsImages

\* Memory of a device is asked for.
LEMMA MapPhysicalMemKeepsImages ==
  ASSUME Working, MemoryFits, HeapMapped, TasksLoaded, NEW s \in DevicePages, MapPhysicalMem(s)
  PROVE  MemoryFits' /\ HeapMapped' /\ TasksLoaded'
<1> DEFINE S == {[do |-> "device", page |-> s[j], frame |-> DeviceFrame + j] : j \in DOMAIN s}
           items == [j \in DOMAIN s |-> [do |-> "device", page |-> s[j], frame |-> DeviceFrame + j]]
<1>1. /\ todo = <<>> /\ todo' = items
      /\ UNCHANGED <<directories, pages, kernel, tasks, frames, memory, placement, wand>>
  BY DEF MapPhysicalMem, IsIdle, spaces, allocation
<1>2. tasks # <<>> /\ Now = <<>>
  BY <1>1, IdleIs, IdleNow
<1>3. s \in Seq(Nat)
  BY LayoutAssumption
<1>4. DOMAIN s = 1 .. Len(s) /\ Len(s) \in Nat
  BY <1>3
<1>5. items \in [1 .. Len(s) -> S]
  BY <1>4
<1>6. \A j \in DOMAIN items : items[j].do = "device"
  OBVIOUS
<1> HIDE DEF items, S
<1>7. items \in Seq(S)
  BY <1>4, <1>5, IsSequence
<1>8. <<>> \in Seq(S) /\ items \o <<>> = items
  BY <1>7
<1>9. \A j \in DOMAIN items : items[j].do \notin {"clone", "switch", "copy", "arguments"}
  BY <1>6
<1>10. SubSeq(items \o <<>>, 1, Extent(items \o <<>>)) = items
  BY <1>7, <1>8, <1>9, ExtentIs
<1>11. Now' = items
  BY <1>1, <1>8, <1>10 DEF Now
<1>12. IsBegun(Now, Now')
  BY <1>2, <1>9, <1>11 DEF IsBegun
<1> QED BY <1>1, <1>2, <1>7, <1>11, <1>12, BeginKeepsImages

\* The rest of the kernel takes a page of the heap, or gives one back.
LEMMA OthersKeepImages ==
  ASSUME Working, MemoryFits, HeapMapped, TasksLoaded, TakeOther \/ \E p \in others : FreeOther(p)
  PROVE  MemoryFits' /\ HeapMapped' /\ TasksLoaded'
<1>1. /\ todo = <<>> /\ todo' = todo
      /\ UNCHANGED <<directories, pages, kernel, tasks, frames, memory, placement, wand>>
  BY DEF TakeOther, FreeOther, IsIdle, making, spaces
<1>2. tasks # <<>> /\ Now = <<>> /\ Now' = <<>>
  BY <1>1, IdleIs, IdleNow, IdleThen
<1> QED BY <1>1, <1>2, NothingKeepsImages

-----------------------------------------------------------------------------
(* Tasks that are made.                                                    *)

\* Every segment is still to be copied, and the arguments to be written, after the
\* stack is mapped.
NothingLoaded(u, program) ==
  /\ \A j \in DOMAIN program.segments :
       \E n \in DOMAIN u : u[n] = [do |-> "copy", segment |-> j, copied |-> 0]
  /\ \A n \in DOMAIN u : u[n].do = "arguments" =>
       \E m \in DOMAIN u : m < n /\ Touches(u[m], program, TaskStack[1])
  /\ program.kind # "idle" => \E n \in DOMAIN u : u[n].do = "arguments"

\* So it is after a clone.
LEMMA AfterCloneIsAhead ==
  ASSUME NEW program \in AllPrograms
  PROVE  NothingLoaded(AfterClone(program), program)
<1> DEFINE A == IF program.kind = "idle" THEN <<>> ELSE OnPages("map", TaskStack)
           B == <<[do |-> "stack", size |-> TaskKernelStack]>>
           C == IF program.kind = "idle" THEN <<>> ELSE <<Do("arguments")>>
           D == OnPages("map", TaskHeap)
           K == [i \in DOMAIN program.segments |-> [do |-> "copy", segment |-> i, copied |-> 0]]
           T == <<Do("take_wand")>>
           U == <<Do("put_wand_back")>>
           W == IF program.kind = "elf" THEN T \o K \o U ELSE <<>>
           S == {x \in TaskItem : x.do # "arguments"}
<1>1. /\ TaskStack \in Seq(Nat) /\ TaskHeap \in Seq(Nat)
      /\ program.kind # "elf" => program.segments = <<>>
  BY LayoutAssumption, ProgramsAssumption
<1>2. OnPages("map", TaskStack) \in Seq(TaskItem)
      /\ \A i \in DOMAIN TaskStack : i \in DOMAIN OnPages("map", TaskStack)
                                     /\ OnPages("map", TaskStack)[i] = [do |-> "map", page |-> TaskStack[i]]
  <2>1. [do : {"map"}, page : ToSet(TaskStack)] \subseteq TaskItem
    BY DEF TaskItem
  <2> QED BY <1>1, <2>1, OnPagesIsSequence
<1>3. D \in Seq(S)
  <2>1. [do : {"map"}, page : ToSet(TaskHeap)] \subseteq S
    BY DEF TaskItem
  <2> HIDE DEF S
  <2> QED BY <1>1, <2>1, OnPagesIsSequence
<1>4. B \in Seq(S)
  <2> DEFINE b == [do |-> "stack", size |-> TaskKernelStack]
  <2>1. b \in S
    BY DEF TaskItem
  <2> HIDE DEF b, S
  <2>2. <<b>> \in Seq(S)
    BY <2>1
  <2> QED BY <2>2 DEF b
<1>5. \A s \in Seq(S) : s \in Seq(TaskItem) /\ \A n \in DOMAIN s : s[n].do # "arguments"
  <2>1. S \subseteq TaskItem /\ \A x \in S : x.do # "arguments"
    OBVIOUS
  <2> HIDE DEF S
  <2> DEFINE R == TaskItem
  <2>2. S \subseteq R
    BY <2>1
  <2> HIDE DEF R
  <2>3. \A s \in Seq(S) : s \in Seq(R)
    BY <2>2
  <2>4. \A s \in Seq(S) : \A n \in DOMAIN s : s[n].do # "arguments"
    BY <2>1
  <2> QED BY <2>3, <2>4 DEF R
<1>6. /\ Do("arguments") \in TaskItem /\ <<Do("arguments")>> \in Seq(TaskItem)
      /\ T \in Seq(TaskItem) /\ U \in Seq(TaskItem)
      /\ Do("arguments").do = "arguments" /\ Do("arguments") \in ToSet(<<Do("arguments")>>)
  <2>1. Do("arguments") \in TaskItem /\ Do("take_wand") \in TaskItem /\ Do("put_wand_back") \in TaskItem
    BY DEF TaskItem, Do
  <2>2. \A y \in TaskItem : <<y>> \in Seq(TaskItem) /\ y \in ToSet(<<y>>)
    BY DEF ToSet
  <2>3. Do("arguments").do = "arguments"
    BY DEF Do
  <2> QED BY <2>1, <2>2, <2>3
<1>7. K \in Seq(TaskItem)
  <2>1. Bare(K, TaskItem, program)
    BY CopiesAreBare
  <2> QED BY <2>1 DEF Bare
<1>8. AfterClone(program) = A \o B \o C \o D \o W
  BY DEF AfterClone
<1>9. \A j \in DOMAIN program.segments : [do |-> "copy", segment |-> j, copied |-> 0] \in ToSet(K)
  BY DEF ToSet
<1> HIDE DEF B, D, K, T, U
<1>10. B \in Seq(TaskItem) /\ D \in Seq(TaskItem)
  BY <1>3, <1>4, <1>5
<1>11. T \o K \in Seq(TaskItem) /\ (T \o K) \o U \in Seq(TaskItem)
  BY <1>6, <1>7
<1>12. A \in Seq(TaskItem) /\ C \in Seq(TaskItem) /\ W \in Seq(TaskItem)
  BY <1>2, <1>6, <1>11
<1>13. program.kind = "idle" => A \in Seq(S) /\ C \in Seq(S) /\ W \in Seq(S)
  OBVIOUS
<1>14. program.kind # "idle" => A = OnPages("map", TaskStack) /\ C = <<Do("arguments")>>
  OBVIOUS
<1>15. program.kind = "elf" => W = (T \o K) \o U
  OBVIOUS
<1> HIDE DEF A, C, W, S
<1> DEFINE AB == A \o B
           AC == AB \o C
           AD == AC \o D
           u == AD \o W
<1>16. /\ AB \in Seq(TaskItem) /\ AC \in Seq(TaskItem) /\ AD \in Seq(TaskItem) /\ u \in Seq(TaskItem)
       /\ AfterClone(program) = u
  BY <1>8, <1>10, <1>12
<1>17. \A x : x \in ToSet(C) \cup ToSet(W) => x \in ToSet(u)
  <2>1. ASSUME NEW x, x \in ToSet(C) PROVE x \in ToSet(AD)
    <3>1. x \in ToSet(AC)
      <4> HIDE DEF AB
      <4> QED BY <1>12, <1>16, <2>1, ElementStays
    <3> HIDE DEF AC
    <3> QED BY <1>10, <1>16, <3>1, ElementStays
  <2> HIDE DEF AD
  <2> QED BY <1>12, <1>16, <2>1, ElementStays
<1>18. ASSUME NEW j \in DOMAIN program.segments
       PROVE  \E n \in DOMAIN u : u[n] = [do |-> "copy", segment |-> j, copied |-> 0]
  <2>1. PICK x : x = [do |-> "copy", segment |-> j, copied |-> 0]
    OBVIOUS
  <2>2. program.kind = "elf"
    BY <1>1
  <2>3. x \in ToSet(K)
    BY <1>9, <2>1
  <2>4. x \in ToSet(T \o K)
    BY <1>6, <1>7, <2>3, ElementStays
  <2>5. x \in ToSet((T \o K) \o U)
    BY <1>6, <1>11, <2>4, ElementStays
  <2>6. x \in ToSet(u)
    <3> HIDE DEF u
    <3> QED BY <1>15, <1>17, <2>2, <2>5
  <2> HIDE DEF u
  <2> QED BY <2>1, <2>6 DEF ToSet
<1>19. program.kind # "idle" => \E n \in DOMAIN u : u[n].do = "arguments"
  <2>1. ASSUME program.kind # "idle" PROVE Do("arguments") \in ToSet(u)
    <3> HIDE DEF u
    <3> QED BY <1>6, <1>14, <1>17, <2>1
  <2> HIDE DEF u
  <2> QED BY <1>6, <2>1 DEF ToSet
<1>20. ASSUME NEW n \in DOMAIN u, u[n].do = "arguments"
       PROVE  \E m \in DOMAIN u : m < n /\ Touches(u[m], program, TaskStack[1])
  <2>1. program.kind # "idle"
    <3>1. ASSUME program.kind = "idle" PROVE FALSE
      <4>1. \A s, t \in Seq(S) : s \o t \in Seq(S)
        OBVIOUS
      <4>2. AB \in Seq(S)
        BY <1>4, <1>13, <3>1, <4>1
      <4>3. AC \in Seq(S)
        BY <1>13, <3>1, <4>1, <4>2
      <4>4. AD \in Seq(S)
        BY <1>3, <4>1, <4>3
      <4>5. u \in Seq(S)
        BY <1>13, <3>1, <4>1, <4>4
      <4> HIDE DEF u
      <4> QED BY <1>5, <1>20, <4>5
    <3> QED BY <3>1
  <2>2. 1 \in DOMAIN A /\ A[1].do = "map" /\ A[1].page = TaskStack[1]
    <3>1. 1 \in DOMAIN TaskStack
      BY <1>1, ProgramsAssumption
    <3>2. 1 \in DOMAIN A /\ A[1] = [do |-> "map", page |-> TaskStack[1]]
      BY <1>2, <1>14, <2>1, <3>1
    <3> QED BY <3>2
  <2>3. \A s, t \in Seq(TaskItem) : 1 \in DOMAIN s => 1 \in DOMAIN (s \o t) /\ (s \o t)[1] = s[1]
    OBVIOUS
  <2>4. 1 \in DOMAIN AB /\ AB[1] = A[1]
    BY <1>10, <1>12, <2>2, <2>3
  <2>5. 1 \in DOMAIN AC /\ AC[1] = A[1]
    <3> HIDE DEF AB
    <3> QED BY <1>12, <1>16, <2>3, <2>4
  <2>6. 1 \in DOMAIN AD /\ AD[1] = A[1]
    <3> HIDE DEF AC
    <3> QED BY <1>10, <1>16, <2>3, <2>5
  <2>7. 1 \in DOMAIN u /\ u[1] = A[1]
    <3> HIDE DEF AD
    <3> QED BY <1>12, <1>16, <2>3, <2>6
  <2> HIDE DEF u
  <2>8. Touches(u[1], program, TaskStack[1])
    BY <2>2, <2>7 DEF Touches
  <2>9. n # 1 /\ n \in Nat /\ n >= 1
    BY <1>16, <1>20, <2>2, <2>7
  <2>10. 1 < n
    BY <2>9
  <2> QED BY <2>7, <2>8, <2>10
<1> HIDE DEF u
<1> QED BY <1>16, <1>18, <1>19, <1>20 DEF NothingLoaded

\* Where nothing is loaded, nothing needs be held.
LEMMA NothingIsHeld ==
  ASSUME NEW task, NEW program \in TaskPrograms, task.program = program, NEW i, NEW u,
         \/ program = Initial /\ u = <<>>
         \/ NothingLoaded(u, program)
  PROVE  SegmentsLoaded(task, u)' /\ ArgumentsLoaded(task, i, u)'
<1>1. CASE program = Initial /\ u = <<>>
  <2>1. DOMAIN u = {} /\ program.kind = "initial" /\ DOMAIN program.segments = {}
    BY <1>1 DEF Initial
  <2> QED BY <2>1 DEF SegmentsLoaded, ArgumentsLoaded
<1>2. CASE NothingLoaded(u, program)
  <2>1. ASSUME NEW j \in DOMAIN program.segments, NEW k \in 0 .. program.segments[j].memsz - 1
        PROVE  ~IsCopiedTo(u, j, k)
    <3>1. PICK n \in DOMAIN u : u[n] = [do |-> "copy", segment |-> j, copied |-> 0]
      BY <1>2 DEF NothingLoaded
    <3>2. u[n].do = "copy" /\ u[n].segment = j /\ u[n].copied = 0
      BY <3>1
    <3>3. ~(k < 0)
      BY <2>1, ByteIsIn
    <3> QED BY <3>2, <3>3 DEF IsCopiedTo
  <2>2. SegmentsLoaded(task, u)'
    BY <2>1 DEF SegmentsLoaded
  <2>3. ArgumentsLoaded(task, i, u)'
    BY <1>2 DEF ArgumentsLoaded, NothingLoaded
  <2> QED BY <2>2, <2>3
<1> QED BY <1>1, <1>2

\* A directory is cloned for a task: the others keep what they have.
LEMMA CloneKeepsImages ==
  ASSUME Working, MapsFit, OrderFits, MemoryFits, HeapMapped, TasksLoaded, Clone
  PROVE  MemoryFits' /\ HeapMapped' /\ TasksLoaded'
<1>0. DirectorySize \in Nat \ {0}
  BY MemoryAssumption DEF DirectorySize
<1>1. /\ Step("clone") /\ Done
      /\ UNCHANGED <<frames, pages, kernel, active, others, memory, cores, wand, halted>>
  BY DEF Clone
<1>2. PICK a \in Addresses(DirectorySize) :
        /\ AllocAligned(DirectorySize, a) /\ GetsClone(a)
        /\ tasks' = Append(tasks, [directory |-> a, program |-> Head(todo).program])
  BY DEF Clone, GetsClone
<1>3. placement = 0 /\ placement' = placement
  BY <1>1, <1>2, CloneIs DEF AllocAligned
<1>4. PICK program, u, r : program \in TaskPrograms /\ CloneGoesOn(program, u, r)
  BY <1>1, CloneIs
<1>5. /\ a \in Nat \ {0} /\ a \notin DOMAIN directories /\ Physical(a) \in Nat /\ SpacesFit
      /\ kernel \in DOMAIN directories
  BY <1>0, <1>2, AddressesAreNew, PhysicalIs DEF Working, SpacesFit
<1>6. \A d \in DOMAIN directories : directories'[d] = directories[d]
  BY <1>2, <1>5, CloneIsThere
<1> DEFINE Task == [directory : Nat, program : TaskPrograms]
           x == [directory |-> a, program |-> program]
<1>7. tasks \in Seq(Task) /\ x \in Task /\ tasks' = Append(tasks, x) /\ x.program = program
  BY <1>2, <1>4, <1>5 DEF Working, TasksFit, CloneGoesOn
<1>8. /\ Len(tasks) \in Nat
      /\ DOMAIN tasks = 1 .. Len(tasks) /\ Len(tasks') = Len(tasks) + 1
      /\ DOMAIN tasks' = DOMAIN tasks \cup {Len(tasks) + 1}
      /\ \A i \in DOMAIN tasks : tasks'[i] = tasks[i]
      /\ tasks'[Len(tasks) + 1] = x
  <2> HIDE DEF Task, x
  <2> QED BY <1>7, LastOfAppend
<1>9. \A d \in DOMAIN directories : \A p \in EveryPage : FrameOf(d, p)' = FrameOf(d, p)
  BY <1>1, <1>6 DEF TableOf, FrameOf
<1>10. \A p \in HeapPages : Home(p)' = Home(p)
  <2>1. PICK d : d = kernel
    OBVIOUS
  <2>2. ASSUME NEW p \in HeapPages PROVE FrameOf(kernel, p)' = FrameOf(kernel, p)
    <3>1. FrameOf(d, p)' = FrameOf(d, p)
      BY <1>5, <1>9, <2>1, HeapPairsAre
    <3>2. kernel' = d
      BY <1>1, <2>1
    <3> QED BY <2>1, <3>1, <3>2
  <2> QED BY <1>1, <2>2 DEF Home
<1>11. HeapMapped'
  BY <1>1, <1>3, <1>10 DEF HeapMapped, HeapPages
<1>12. MemoryFits'
  BY <1>1, MemoryStaysFit
<1>13. Now = <<>> /\ Now' = u
  BY <1>1, <1>4, CloneIsAtHand
<1>14. ASSUME NEW i \in DOMAIN tasks'
       PROVE  (SegmentsLoaded(tasks[i], AtHandOf(i)) /\ ArgumentsLoaded(tasks[i], i, AtHandOf(i)))'
  <2>1. PICK task, s : task = tasks'[i] /\ s = AtHandOf(i)'
    OBVIOUS
  <2>2. CASE i \in DOMAIN tasks
    <3>1. i # Len(tasks') /\ task = tasks[i]
      BY <1>8, <2>1, <2>2
    <3>2. s = <<>> /\ AtHandOf(i) = <<>>
      BY <1>13, <2>1, <3>1 DEF AtHandOf
    <3>3. SegmentsLoaded(task, s) /\ ArgumentsLoaded(task, i, s)
      BY <2>2, <3>1, <3>2 DEF TasksLoaded
    <3>4. PICK d : d = task.directory
      OBVIOUS
    <3>5. d \in DOMAIN directories /\ task.program \in TaskPrograms
      BY <2>2, <3>1, <3>4, TaskIs DEF Working
    <3>6. ASSUME NEW p \in TaskPages PROVE PageKept(d, p)
      <4>1. FrameOf(d, p)' = FrameOf(d, p) /\ frames' = frames /\ memory' = memory /\ NoFrame' = NoFrame
        BY <1>1, <1>9, <3>5, EveryPageIs DEF NoFrame
      <4> QED BY <4>1 DEF PageKept, HasFrame
    <3>7. s \in Seq({})
      BY <3>2
    <3>8. SegmentsLoaded(task, s)' /\ ArgumentsLoaded(task, i, s)'
      BY <3>3, <3>4, <3>5, <3>6, <3>7, TaskStaysLoaded
    <3> QED BY <2>1, <3>8
  <2>3. CASE i = Len(tasks) + 1
    <3>1. i = Len(tasks') /\ task = x
      BY <1>8, <2>1, <2>3
    <3>2. s = u
      BY <1>13, <2>1, <3>1 DEF AtHandOf
    <3>3. \/ program = Initial /\ u = <<>>
          \/ program \in AllPrograms /\ u = AfterClone(program)
      BY <1>4 DEF CloneGoesOn
    <3>4. \/ program = Initial /\ u = <<>>
          \/ NothingLoaded(u, program)
      BY <3>3, AfterCloneIsAhead
    <3>5. task.program = program
      BY <1>7, <3>1
    <3>6. SegmentsLoaded(task, s)' /\ ArgumentsLoaded(task, i, s)'
      BY <1>4, <3>2, <3>4, <3>5, NothingIsHeld
    <3> QED BY <2>1, <3>6
  <2> QED BY <1>8, <2>2, <2>3
<1>15. TasksLoaded'
  BY <1>14 DEF TasksLoaded
<1> QED BY <1>11, <1>12, <1>15

\* The kernel's directory is made: no page of the heap is mapped, all of them will be.
LEMMA DirectoryKeepsImages ==
  ASSUME Early, halted = "no", AllocateKernelDirectory, MemoryFits
  PROVE  MemoryFits' /\ HeapMapped' /\ TasksLoaded'
<1>1. PICK n \in ModuleSizes : EarlyAt(n)
  BY DEF Early, EarlyAt
<1>2. /\ Head(todo).do = "kernel_directory" /\ todo' = Tail(todo)
      /\ UNCHANGED <<frames, tasks, memory>>
  BY DEF AllocateKernelDirectory, Step, Done
<1>3. /\ placement = KernelEnd + n + BitmapSize /\ placement \in Nat \ {0}
      /\ todo' = FirstSteps \o FirstRest
  BY <1>1, <1>2, EarlyIs
<1>4. placement' # 0
  <2>1. PICK a \in Addresses(DirectorySize) : AllocAligned(DirectorySize, a)
    BY DEF AllocateKernelDirectory
  <2>2. a = Aligned(placement) /\ placement' = a + DirectorySize
    BY <1>3, <2>1 DEF Addresses, AllocAligned
  <2>3. a \in Nat /\ DirectorySize \in Nat \ {0}
    <3>1. a \in Nat
      BY <1>3, <2>2, AlignedIs
    <3>2. PageSize \in Nat
      BY MemoryAssumption
    <3> QED BY <3>1, <3>2 DEF DirectorySize
  <2> QED BY <2>2, <2>3
<1>5. ModuleSizes # {}
  OBVIOUS
<1>6. PICK s : s = FirstSteps
  OBVIOUS
<1>7. Now' = s
  BY <1>3, <1>5, <1>6, FirstStepsAreNow
<1>8. ASSUME NEW p \in HeapPages PROVE ~NotTouched(s, Initial, p)
  <2>1. PICK i \in DOMAIN s : s[i] = [do |-> "map", page |-> p]
    BY <1>5, <1>6, FirstStepsAre DEF ToSet
  <2>2. s[i].do = "map" /\ s[i].page = p
    BY <2>1
  <2>3. Touches(s[i], Initial, p)
    BY <2>2 DEF Touches
  <2> QED BY <2>3 DEF NotTouched
<1>9. HeapMapped'
  <2>1. \A p \in HeapPages : ~NotTouched(Now', Initial, p)
    BY <1>7, <1>8
  <2> QED BY <1>4, <2>1 DEF HeapMapped, HeapPages, NotTouched, Initial
<1>10. TasksLoaded'
  <2>1. tasks' = <<>>
    BY <1>2 DEF Early
  <2> QED BY <2>1 DEF TasksLoaded
<1>11. MemoryFits'
  BY <1>2, MemoryStaysFit
<1> QED BY <1>9, <1>10, <1>11

-----------------------------------------------------------------------------
(* A part of an image is copied.                                           *)

\* A part of a frame, and the cells that are in it.
IsCell(cell, f, x) == cell = f * PageSize + x
LEMMA CellsOfPart ==
  ASSUME NEW f \in Nat, NEW off \in Nat, NEW n \in Nat, off + n <= PageSize,
         NEW g \in Nat, NEW x \in 0 .. PageSize - 1,
         NEW first, IsCell(first, f, off), NEW cell, IsCell(cell, g, x)
  PROVE  /\ cell \in first .. first + n - 1 <=> g = f /\ off <= x /\ x < off + n
         /\ g = f => cell - first = x - off
         /\ first \in Nat /\ cell \in Nat
<1>0. first = f * PageSize + off /\ cell = g * PageSize + x
  BY DEF IsCell
<1>1. PageSize \in Nat \ {0}
  BY MemoryAssumption
<1>2. PICK a, b : a = f * PageSize /\ b = g * PageSize
  OBVIOUS
<1>3. a \in Nat /\ b \in Nat
  BY <1>1, <1>2
<1>4. g = f => b = a
  BY <1>2
<1>5. ASSUME b + x \in a + off .. a + off + n - 1 PROVE g = f
  <2>1. PICK y : y = b + x - a
    OBVIOUS
  <2>2. y \in 0 .. PageSize - 1 /\ b + x = a + y
    BY <1>1, <1>3, <1>5, <2>1
  <2>3. g * PageSize + x = f * PageSize + y
    BY <1>2, <2>2
  <2> QED BY <2>2, <2>3, CellsApart
<1>6. g = f => (b + x \in a + off .. a + off + n - 1 <=> off <= x /\ x < off + n)
               /\ (b + x) - (a + off) = x - off
  BY <1>1, <1>3, <1>4
<1>7. a + off \in Nat /\ b + x \in Nat
  BY <1>1, <1>3
<1> QED BY <1>0, <1>2, <1>5, <1>6, <1>7

\* Of a segment more has been copied than before by as much as the part is long.
LEMMA CopiedAsFar ==
  ASSUME NEW program \in TaskPrograms, NEW S, NEW s \in Seq(S), NEW u \in Seq(S), NEW m \in {0, 1},
         s # <<>>, GoesOn(u, m, s, program), s[1] \in TaskItem, s[1].do = "copy",
         CopyFits(s[1], program), IsCopied(s, u, m, program),
         NEW j \in DOMAIN program.segments, NEW k \in 0 .. program.segments[j].memsz - 1,
         IsCopiedTo(u, j, k)
  PROVE  \/ IsCopiedTo(s, j, k)
         \/ /\ j = s[1].segment /\ s[1].copied <= k
            /\ k < s[1].copied + CopyLength(program.segments[j], s[1].copied)
<1>0. PICK item, c, g, n : /\ item = s[1] /\ c = s[1].copied /\ g = program.segments[j]
                           /\ n = CopyLength(program.segments[j], s[1].copied)
  OBVIOUS
<1>1. /\ Len(u) = Len(s) - m /\ Len(s) \in Nat /\ DOMAIN s = 1 .. Len(s) /\ DOMAIN u = 1 .. Len(u)
      /\ Len(u) \in Nat /\ Len(s) # 0
  BY DEF GoesOn
<1>2. \A i \in DOMAIN s : i # 1 => i - m \in DOMAIN u /\ u[i - m] = s[i]
  <2>1. ASSUME NEW i \in DOMAIN s, i # 1 PROVE i - m \in DOMAIN u /\ u[i - m] = s[i]
    <3>1. i - m \in 1 .. Len(u) /\ (i - m) + m = i
      BY <1>1, <2>1
    <3>2. \A h \in DOMAIN u : h + m # 1 => u[h] = s[h + m]
      BY DEF GoesOn
    <3> QED BY <1>1, <2>1, <3>1, <3>2
  <2> QED BY <2>1
<1>3. ASSUME item.segment # j \/ k < c PROVE IsCopiedTo(s, j, k)
  <2>1. ASSUME NEW i \in DOMAIN s, s[i].do = "copy", s[i].segment = j PROVE k < s[i].copied
    <3>1. CASE i = 1
      BY <1>0, <1>3, <2>1, <3>1
    <3>2. CASE i # 1
      <4>1. i - m \in DOMAIN u /\ u[i - m] = s[i]
        BY <1>2, <3>2
      <4> QED BY <2>1, <4>1 DEF IsCopiedTo
    <3> QED BY <3>1, <3>2
  <2> QED BY <2>1 DEF IsCopiedTo
<1>4. ASSUME item.segment = j, ~(k < c) PROVE c <= k /\ k < c + n
  <2>1. /\ g.virt \in Nat /\ g.memsz \in Nat \ {0} /\ c \in Nat /\ c < g.memsz
    BY <1>0, <1>4, CopyIs
  <2>2. n \in Nat
    BY <1>0, <2>1, CopyLengthIs
  <2>3. k \in Nat /\ k < g.memsz
    BY <1>0, <2>1
  <2>4. k < c + n
    <3>1. CASE m = 1
      <4>1. c + n = g.memsz
        BY <1>0, <1>4, <3>1 DEF IsCopied
      <4> QED BY <2>3, <4>1
    <3>2. CASE m = 0
      <4>1. IsNextCopy(u[1], item, program)
        BY <1>0, <3>2 DEF IsCopied
      <4>2. u[1] = [item EXCEPT !.copied = c + n]
        BY <1>0, <1>4, <4>1 DEF IsNextCopy
      <4>3. item = [do |-> "copy", segment |-> item.segment, copied |-> item.copied]
        BY <1>0 DEF TaskItem
      <4>4. u[1].do = "copy" /\ u[1].segment = j /\ u[1].copied = c + n
        BY <1>4, <4>2, <4>3
      <4>5. 1 \in DOMAIN u
        BY <1>1, <3>2
      <4> QED BY <4>4, <4>5 DEF IsCopiedTo
    <3> QED BY <3>1, <3>2
  <2> QED BY <1>4, <2>1, <2>3, <2>4
<1> QED BY <1>0, <1>3, <1>4

\* The part that is copied, by its place in the frame it is given.
PartIsWritten(f, off, n, name, j, c, left) ==
  \A g \in RamFrames : \A x \in 0 .. PageSize - 1 :
    memory'[g * PageSize + x] =
      IF g = f /\ off <= x /\ x < off + n
      THEN IF x - off < left THEN Image(name, j, c + (x - off)) ELSE Zero
      ELSE memory[g * PageSize + x]

\* The same, as the loop does it, from the first cell on.
PartIsCopied(first, n, left, name, j, c) ==
  memory' = [cell \in DOMAIN memory |->
               IF cell \in first .. first + n - 1
               THEN IF cell - first < left THEN Image(name, j, c + (cell - first)) ELSE Zero
               ELSE memory[cell]]
LEMMA PartWrites ==
  ASSUME MemoryFits, NEW f \in RamFrames, NEW off \in Nat, NEW n \in Nat, off + n <= PageSize,
         NEW name, NEW j, NEW c, NEW left, PartIsCopied(f * PageSize + off, n, left, name, j, c)
  PROVE  PartIsWritten(f, off, n, name, j, c, left) /\ DOMAIN memory' = DOMAIN memory
<1>1. PICK first : first = f * PageSize + off
  OBVIOUS
<1>2. PartIsCopied(first, n, left, name, j, c)
  BY <1>1
<1>3. DOMAIN memory' = DOMAIN memory
  BY <1>2 DEF PartIsCopied
<1>4. f \in Nat
  BY RamFramesAre
<1>5. ASSUME NEW h \in RamFrames, NEW x \in 0 .. PageSize - 1
      PROVE  memory'[h * PageSize + x] =
               IF h = f /\ off <= x /\ x < off + n
               THEN IF x - off < left THEN Image(name, j, c + (x - off)) ELSE Zero
               ELSE memory[h * PageSize + x]
  <2>1. PICK cell : cell = h * PageSize + x
    OBVIOUS
  <2>2. cell \in DOMAIN memory
    BY <2>1, RamFramesAre DEF MemoryFits
  <2>3. /\ cell \in first .. first + n - 1 <=> h = f /\ off <= x /\ x < off + n
        /\ h = f => cell - first = x - off
    <3>1. h \in Nat
      BY RamFramesAre
    <3>2. IsCell(first, f, off) /\ IsCell(cell, h, x)
      BY <1>1, <2>1 DEF IsCell
    <3> QED BY <1>4, <3>1, <3>2, CellsOfPart
  <2>4. memory'[cell] =
          IF cell \in first .. first + n - 1
          THEN IF cell - first < left THEN Image(name, j, c + (cell - first)) ELSE Zero
          ELSE memory[cell]
    BY <1>2, <2>2 DEF PartIsCopied
  <2>5. CASE h = f /\ off <= x /\ x < off + n
    <3>1. cell \in first .. first + n - 1 /\ cell - first = x - off
      BY <2>3, <2>5
    <3> QED BY <2>1, <2>4, <2>5, <3>1, Zenon
  <2>6. CASE ~(h = f /\ off <= x /\ x < off + n)
    <3>1. cell \notin first .. first + n - 1
      BY <2>3, <2>6
    <3> QED BY <2>1, <2>4, <2>6, <3>1, Zenon
  <2> QED BY <2>5, <2>6
<1> QED BY <1>3, <1>5 DEF PartIsWritten

\* Where the wand is when a part is copied.
MovedWand(page, w, f) ==
  LET given == [pages EXCEPT ![TableOf(target, page)][page % Entries] = f]
  IN  [given EXCEPT ![TableOf(active, w)][w % Entries] = f]

\* A part ends in the page it begins in.
LEMMA PartIsInPage ==
  ASSUME NEW g, g.virt \in Nat, g.memsz \in Nat, NEW c \in Nat, c < g.memsz
  PROVE  /\ ((g.virt + c) % PageSize) + CopyLength(g, c) <= PageSize
         /\ (g.virt + c) % PageSize \in 0 .. PageSize - 1
<1>1. PICK r, a, b : r = (g.virt + c) % PageSize /\ a = PageSize - r /\ b = g.memsz - c
  OBVIOUS
<1>2. PageSize \in Nat \ {0} /\ g.virt + c \in Nat
  BY MemoryAssumption
<1>3. r \in 0 .. PageSize - 1
  BY <1>1, <1>2, QuotientAndRest
<1>4. a \in Nat /\ b \in Nat
  BY <1>1, <1>2, <1>3
<1>5. \E x \in {a, b} : \A y \in {a, b} : x <= y
  BY <1>4
<1>6. CopyLength(g, c) \in {a, b} /\ \A y \in {a, b} : CopyLength(g, c) <= y
  BY <1>1, <1>5 DEF CopyLength, Min
<1>7. PICK n : n = CopyLength(g, c)
  OBVIOUS
<1>8. n \in Nat /\ n <= a
  BY <1>4, <1>6, <1>7
<1> QED BY <1>1, <1>2, <1>3, <1>7, <1>8

\* Where a byte of a part is in the page.
LEMMA PlaceInPart ==
  ASSUME NEW size \in Nat, NEW off \in 0 .. size - 1, NEW n \in Nat, off + n <= size,
         NEW c \in Nat, NEW k \in Nat, c <= k, k < c + n
  PROVE  /\ off + (k - c) \in 0 .. size - 1 /\ off <= off + (k - c) /\ off + (k - c) < off + n
         /\ (off + (k - c)) - off = k - c
OBVIOUS

\* A cell of it has the byte of the image.
IsByteOfPart(program, j, g, c, k, off) ==
  /\ j \in DOMAIN program.segments /\ g = program.segments[j]
  /\ g.virt \in Nat /\ g.memsz \in Nat /\ g.filesz \in Nat
  /\ c \in Nat /\ c < g.memsz /\ k \in Nat /\ c <= k /\ k < c + CopyLength(g, c)
  /\ off = (g.virt + c) % PageSize
LEMMA PartHasByte ==
  ASSUME NEW program, NEW j, NEW g, NEW c, NEW k, NEW off, IsByteOfPart(program, j, g, c, k, off),
         NEW f \in RamFrames,
         PartIsWritten(f, off, CopyLength(g, c), program.name, j, c, FileLeft(g, c))
  PROVE  /\ (g.virt + k) \div PageSize = (g.virt + c) \div PageSize
         /\ memory'[f * PageSize + ((g.virt + k) % PageSize)] = Byte(program, j, k)
<1>0. /\ j \in DOMAIN program.segments /\ g = program.segments[j]
      /\ g.virt \in Nat /\ g.memsz \in Nat /\ g.filesz \in Nat
      /\ c \in Nat /\ c < g.memsz /\ k \in Nat /\ c <= k /\ k < c + CopyLength(g, c)
      /\ off = (g.virt + c) % PageSize
  BY DEF IsByteOfPart
<1>1. PageSize \in Nat \ {0}
  BY MemoryAssumption
<1>2. PICK n, q, left : n = CopyLength(g, c) /\ q = (g.virt + c) \div PageSize /\ left = FileLeft(g, c)
  OBVIOUS
<1>3. off \in 0 .. PageSize - 1 /\ q \in Nat /\ g.virt + c = q * PageSize + off
  <2>1. g.virt + c \in Nat
    BY <1>0
  <2> QED BY <1>0, <1>1, <1>2, <2>1, QuotientAndRest
<1>4. n \in Nat /\ off + n <= PageSize
  BY <1>0, <1>2, <1>3, PartIsInPage, CopyLengthIs
<1>5. PICK x : x = off + (k - c)
  OBVIOUS
<1>6. x \in 0 .. PageSize - 1 /\ off <= x /\ x < off + n /\ x - off = k - c
  <2>1. k < c + n
    BY <1>0, <1>2
  <2>2. \A size \in Nat : off \in 0 .. size - 1 /\ off + n <= size =>
          /\ off + (k - c) \in 0 .. size - 1 /\ off <= off + (k - c) /\ off + (k - c) < off + n
          /\ (off + (k - c)) - off = k - c
    BY <1>0, <1>4, <2>1, PlaceInPart
  <2> QED BY <1>1, <1>3, <1>4, <1>5, <2>2, Zenon
<1>7. g.virt + k = q * PageSize + x
  <2>1. q * PageSize \in Nat
    BY <1>1, <1>3
  <2>2. PICK a : a = q * PageSize
    OBVIOUS
  <2>3. g.virt + c = a + off /\ a \in Nat
    BY <1>3, <2>1, <2>2
  <2>4. g.virt + k = a + x
    BY <1>0, <1>3, <1>5, <2>3
  <2> QED BY <2>2, <2>4
<1>8. (q * PageSize + x) \div PageSize = q /\ (q * PageSize + x) % PageSize = x
  BY <1>1, <1>3, <1>6, QuotientIs
<1>9. memory'[f * PageSize + x] = IF k - c < left THEN Image(program.name, j, c + (k - c)) ELSE Zero
  BY <1>2, <1>6 DEF PartIsWritten
<1>10. c + (k - c) = k
  BY <1>0
<1>11. k - c < left <=> k < g.filesz
  BY <1>0, <1>2 DEF FileLeft
<1>12. memory'[f * PageSize + x] = Byte(program, j, k)
  BY <1>0, <1>9, <1>10, <1>11 DEF Byte
<1> QED BY <1>2, <1>7, <1>8, <1>12

\* The frame that is given to the page and to the wand gets the part.
LEMMA CopyPartWrites ==
  ASSUME Working, MapsFit, MemoryFits, CopyPart, NEW item, item = Head(todo),
         NEW program, program = Last(tasks).program, NEW j, j = item.segment,
         NEW g, g = program.segments[j], NEW c, c = item.copied,
         NEW f, f = FreeFrame
  PROVE  /\ PartIsWritten(f, (g.virt + c) % PageSize, CopyLength(g, c), program.name, j, c, FileLeft(g, c))
         /\ DOMAIN memory' = DOMAIN memory
<1>1. Step("copy") /\ FreeFrames # {}
  BY Zenon DEF CopyPart, OnPage, AllocAnyFrame
<1>2. f \in RamFrames /\ f \in Nat
  BY <1>1, FreeFrameIsRam
<1>3. PICK w, page : w = wand.page /\ page = PageAtHand
  OBVIOUS
<1>4. /\ w \in EveryPage /\ w \in Nat /\ w # page /\ TableOf(active, w) # 0
      /\ active \in DOMAIN directories /\ target \in DOMAIN directories
  <2>1. active \in DOMAIN directories /\ target \in DOMAIN directories
    BY <1>1, TaskItemIs, TargetIs DEF Working
  <2>2. w \in EveryPage /\ TableOf(active, w) # 0
    BY <1>1, <1>3, <2>1, WandIs
  <2>3. page \in TaskPages
    <3>1. PICK rest : Doing(Now, rest)
      BY <1>1, NowAtHand
    <3>2. Now # <<>> /\ Now[1].do = "copy"
      BY <1>1, NowAtHand
    <3> QED BY <1>3, <3>1, <3>2, PageIs DEF Working
  <2>4. \A p \in TaskPages : p # w
    BY <1>1, <1>3, WandIs
  <2> QED BY <2>1, <2>2, <2>3, <2>4, EveryPageIs
<1>5. PICK off, n, left : /\ off = (g.virt + c) % PageSize /\ n = CopyLength(g, c)
                          /\ left = FileLeft(g, c)
  OBVIOUS
<1>6. /\ g.virt \in Nat /\ g.memsz \in Nat /\ c \in Nat /\ c < g.memsz
  <2>1. /\ Now # <<>> /\ Now[1] = item /\ Now[1] \in Items /\ Now[1].do = "copy"
        /\ Bare(Now, Items, TaskProgram) /\ 1 \in DOMAIN Now
    BY <1>1, NowAtHand
  <2>2. tasks # <<>> /\ TaskProgram = program /\ program \in TaskPrograms
    BY <1>1, TaskItemIs, ProgramIs DEF TaskProgram, Working
  <2>3. item \in TaskItem
    BY <2>1, <2>2 DEF Items, DeviceItem
  <2>4. CopyFits(item, program)
    BY <2>1, <2>2 DEF Bare
  <2> QED BY <2>1, <2>2, <2>3, <2>4, CopyIs
<1>7. n \in Nat /\ off \in 0 .. PageSize - 1 /\ off + n <= PageSize
  BY <1>5, <1>6, CopyLengthIs, PartIsInPage, Zenon
<1>8. PICK dest : dest = w * PageSize + off
  OBVIOUS
<1>9. dest \div PageSize = w /\ dest % PageSize = off /\ dest \in Nat
  <2>1. PageSize \in Nat \ {0}
    BY MemoryAssumption
  <2> QED BY <1>4, <1>7, <1>8, <2>1, QuotientIs
<1>10. Cell(MovedWand(page, w, f), active, dest) = f * PageSize + off
  <2> DEFINE given == [pages EXCEPT ![TableOf(target, page)][page % Entries] = f]
             moved == [given EXCEPT ![TableOf(active, w)][w % Entries] = f]
  <2>1. TableOf(active, w) \in DOMAIN pages /\ w % Entries \in Positions
    BY <1>4, FrameIs, EveryPageIs DEF Working
  <2>2. pages \in [DOMAIN pages -> [Positions -> Nat]]
    BY DEF Working, SpacesFit
  <2>3. DOMAIN given = DOMAIN pages
    OBVIOUS
  <2>4. DOMAIN given[TableOf(active, w)] = Positions
    BY <2>1, <2>2
  <2>5. moved[TableOf(active, w)][w % Entries] = f
    <3> HIDE DEF given
    <3> QED BY <2>1, <2>3, <2>4
  <2>6. MovedWand(page, w, f) = moved
    BY Zenon DEF MovedWand
  <2> HIDE DEF moved
  <2> QED BY <1>9, <2>5, <2>6 DEF Cell
<1>11. PartIsCopied(Cell(MovedWand(page, w, f), active, dest), n, left, program.name, j, c)
  <2>1. PartIsCopied(Cell(MovedWand(PageAtHand, wand.page, FreeFrame), active,
                          wand.page * PageSize
                            + ((Last(tasks).program.segments[Head(todo).segment].virt
                                  + Head(todo).copied) % PageSize)),
                     CopyLength(Last(tasks).program.segments[Head(todo).segment], Head(todo).copied),
                     FileLeft(Last(tasks).program.segments[Head(todo).segment], Head(todo).copied),
                     Last(tasks).program.name, Head(todo).segment, Head(todo).copied)
    BY Zenon DEF CopyPart, PartIsCopied, MovedWand
  <2> QED BY <1>3, <1>5, <1>8, <2>1, Zenon
<1>12. PartIsCopied(f * PageSize + off, n, left, program.name, j, c)
  BY <1>10, <1>11
<1>13. off \in Nat
  BY <1>7
<1>14. PartIsWritten(f, off, n, program.name, j, c, left) /\ DOMAIN memory' = DOMAIN memory
  BY <1>2, <1>7, <1>12, <1>13, PartWrites, Zenon
<1> QED BY <1>5, <1>14, Zenon

\* The page at hand gets the frame.
LEMMA CopyGivesFrame ==
  ASSUME Working, MapsFit, CopyPart
  PROVE  \A page : page = PageAtHand => FrameOf(target, page)' = FreeFrame
<1>0. PICK page, f, w : page = PageAtHand /\ f = FreeFrame /\ w = wand.page
  OBVIOUS
<1> DEFINE given == [pages EXCEPT ![TableOf(target, page)][page % Entries] = f]
<1>1. /\ Step("copy") /\ TableOf(target, page) # 0 /\ FreeFrames # {}
      /\ pages' = [given EXCEPT ![TableOf(active, w)][w % Entries] = f]
      /\ UNCHANGED <<directories, target>>
  BY <1>0, Zenon DEF CopyPart, OnPage, AllocAnyFrame
<1>2. /\ target \in DOMAIN directories /\ page \in EveryPage
  <2>1. PICK rest : Doing(Now, rest)
    BY <1>1, NowAtHand
  <2>2. Now # <<>> /\ Now[1].do = "copy"
    BY <1>1, NowAtHand
  <2> QED BY <1>0, <2>1, <2>2, PageIs, TargetIs DEF Working
<1>3. /\ TableOf(target, page) \in DOMAIN pages /\ page % Entries \in Positions
      /\ pages \in [DOMAIN pages -> [Positions -> Nat]]
  BY <1>1, <1>2, FrameIs, EveryPageIs DEF Working, SpacesFit
<1>4. PICK table, e, x, y : /\ table = TableOf(target, page) /\ e = page % Entries
                            /\ x = TableOf(active, w) /\ y = w % Entries
  OBVIOUS
<1>5. DOMAIN given = DOMAIN pages /\ given[table][e] = f /\ DOMAIN given[table] = Positions
  BY <1>3, <1>4
<1> HIDE DEF given
<1>6. pages'[table][e] = f
  BY <1>1, <1>3, <1>4, <1>5
<1>7. TableOf(target, page)' = table
  BY <1>1, <1>4 DEF TableOf
<1>8. FrameOf(target, page)' = f
  BY <1>1, <1>4, <1>6, <1>7 DEF FrameOf
<1> QED BY <1>0, <1>8

\* A program with a segment is one that may be spawned.
LEMMA SegmentsOfProgram ==
  ASSUME NEW program \in TaskPrograms, program.segments # <<>> \/ \E j : j \in DOMAIN program.segments
  PROVE  program \in AllPrograms
<1>1. DOMAIN <<>> = {} /\ Initial.segments = <<>>
  BY DEF Initial
<1> QED BY <1>1 DEF TaskPrograms

\* So the others keep what they have, and the byte of the image is there.
LEMMA CopyPartKeepsImages ==
  ASSUME Working, MapsFit, OrderFits, MemoryFits, HeapMapped, TasksLoaded, CopyPart
  PROVE  MemoryFits' /\ HeapMapped' /\ TasksLoaded'
<1>0. PICK page, f, S, s, u, program, item, j, g, c, t, d :
        /\ page = PageAtHand /\ f = FreeFrame /\ S = Items /\ s = Now /\ u = Now'
        /\ program = Last(tasks).program /\ item = Head(todo) /\ j = item.segment
        /\ g = program.segments[j] /\ c = item.copied /\ t = TaskStack[1] /\ d = target
  OBVIOUS
<1>1. /\ Step("copy") /\ FreeFrames # {} /\ frames' = frames \cup {f}
      /\ UNCHANGED <<placement, directories, kernel, tasks, target>>
  BY <1>0, Zenon DEF CopyPart, OnPage, AllocAnyFrame, allocation, SetFrame
<1>2. /\ s \in Seq(S) /\ s # <<>> /\ s[1] = item /\ s[1].do = "copy" /\ s[1] \in S
      /\ 1 \in DOMAIN s /\ Bare(s, S, TaskProgram)
  BY <1>0, <1>1, NowAtHand
<1>3. /\ tasks # <<>> /\ placement = 0 /\ TaskProgram = program /\ program \in TaskPrograms
  BY <1>0, <1>1, TaskItemIs, ProgramIs DEF TaskProgram, Working
<1>4. item \in TaskItem /\ CopyFits(item, program) /\ item.do = "copy"
  <2>1. item \in TaskItem
    BY <1>0, <1>2, <1>3 DEF Items, DeviceItem
  <2> QED BY <1>2, <1>3, <2>1 DEF Bare
<1>5. PICK m \in {0, 1} : u \in Seq(S) /\ GoesOn(u, m, s, program) /\ IsCopied(s, u, m, program)
  BY <1>0, <1>3, CopyPartIs
<1>6. /\ f \in RamFrames /\ f \in Nat /\ f # NoFrame /\ frames = 0 .. f - 1
  BY <1>0, <1>1, FreeFrameIsRam, FreeIsNext DEF MapsFit
<1>7. f # 0
  <2>1. HeapStart \in HeapPages
    BY LayoutAssumption, MemoryAssumption DEF HeapPages
  <2>2. Home(HeapStart) \in frames
    BY <1>3, <2>1 DEF HeapMapped
  <2> QED BY <1>6, <2>2
<1>8. KeepFrames
  BY CopyPartGoesOn
<1>9. /\ PartIsWritten(f, (g.virt + c) % PageSize, CopyLength(g, c), program.name, j, c, FileLeft(g, c))
      /\ DOMAIN memory' = DOMAIN memory
  BY <1>0, CopyPartWrites
<1>10. MemoryFits'
  BY <1>1, <1>6, <1>9, MemoryStaysFit
<1>11. HeapMapped'
  BY <1>1, <1>3, <1>8, HeapStaysMapped
<1>12. ASSUME NEW i \in DOMAIN tasks, NEW e, e = tasks[i].directory, NEW p \in TaskPages
       PROVE  PageKept(e, p)
  <2> SUFFICES ASSUME HasFrame(e, p) PROVE PageKept(e, p)
    BY DEF PageKept
  <2>1. HasFrame(e, p)' /\ FrameOf(e, p)' = FrameOf(e, p)
    BY <1>1, <1>8, <1>12, FrameStays
  <2>2. FrameOf(e, p) \in RamFrames /\ FrameOf(e, p) # f
    <3>1. FrameOf(e, p) \in frames
      BY DEF HasFrame
    <3> QED BY <1>6, <3>1 DEF MemoryFits
  <2>3. \A x \in 0 .. PageSize - 1 :
          memory'[FrameOf(e, p) * PageSize + x] = memory[FrameOf(e, p) * PageSize + x]
    BY <1>9, <2>2 DEF PartIsWritten
  <2> QED BY <2>1, <2>3 DEF PageKept
<1>13. /\ j \in DOMAIN program.segments /\ g.virt \in Nat /\ g.memsz \in Nat /\ g.filesz \in Nat
       /\ c \in Nat /\ c < g.memsz /\ page = (g.virt + c) \div PageSize
  <2>1. j \in DOMAIN program.segments
    BY <1>0, <1>4 DEF CopyFits
  <2>2. g.virt \in Nat /\ g.memsz \in Nat /\ c \in Nat /\ c < g.memsz
    BY <1>0, <1>3, <1>4, CopyIs
  <2>3. program \in AllPrograms
    BY <1>0, <1>3, <2>1, SegmentsOfProgram
  <2>4. g.filesz \in Nat
    <3> DEFINE Segment == [virt : Nat, filesz : Nat, memsz : Nat \ {0}]
    <3>1. program.segments \in Seq(Segment)
      BY <2>3, LayoutAssumption
    <3>2. \A b \in Segment : b.filesz \in Nat
      OBVIOUS
    <3> HIDE DEF Segment
    <3>3. g \in Segment
      BY <1>0, <2>1, <3>1
    <3> QED BY <3>2, <3>3
  <2>5. page = (g.virt + c) \div PageSize
    BY <1>0, <1>4 DEF PageAtHand
  <2> QED BY <2>1, <2>2, <2>4, <2>5
<1>14. /\ Len(tasks) \in DOMAIN tasks /\ Last(tasks) = tasks[Len(tasks)]
       /\ tasks[Len(tasks)].directory = d /\ tasks[Len(tasks)].program = program
  BY <1>0, <1>3, ProgramIs DEF Working, TasksFit
<1>15. HasFrame(d, page)' /\ FrameOf(d, page)' = f
  <2>1. FrameOf(target, page)' = f
    BY <1>0, CopyGivesFrame
  <2>2. FrameOf(d, page)' = f /\ f \in frames' /\ NoFrame' = NoFrame
    BY <1>0, <1>1, <2>1 DEF NoFrame
  <2> QED BY <1>6, <1>7, <2>2 DEF HasFrame
<1>16. ASSUME NEW task, task = tasks[Len(tasks)],
              SegmentsLoaded(task, s), ArgumentsLoaded(task, Len(tasks), s)
       PROVE  (SegmentsLoaded(task, u) /\ ArgumentsLoaded(task, Len(tasks), u))'
  <2>1. task.directory = d /\ task.program = program /\ Len(tasks)' = Len(tasks)
    BY <1>1, <1>14, <1>16
  <2>2. \A p \in TaskPages : PageKept(d, p)
    BY <1>12, <1>14
  <2>3. SegmentsLoaded(task, u)'
    <3>1. ASSUME NEW b \in DOMAIN program.segments, NEW o, o = program.segments[b],
                 NEW k \in 0 .. o.memsz - 1, IsCopiedTo(u, b, k)
          PROVE  InPlace(d, o.virt + k, Byte(program, b, k))'
      <4>1. PICK a, v, q, r : /\ a = o.virt + k /\ v = Byte(program, b, k)
                              /\ q = a \div PageSize /\ r = a % PageSize
        OBVIOUS
      <4>2. a \in Nat /\ k \in Nat /\ q \in TaskPages
        BY <1>3, <3>1, <4>1, ByteIsIn
      <4>3. \/ IsCopiedTo(s, b, k)
            \/ b = j /\ c <= k /\ k < c + CopyLength(g, c)
        BY <1>0, <1>2, <1>3, <1>4, <1>5, <3>1, CopiedAsFar
      <4>4. CASE IsCopiedTo(s, b, k)
        <5>1. InPlace(d, a, v)
          BY <1>16, <2>1, <3>1, <4>1, <4>4 DEF SegmentsLoaded
        <5>2. InPlace(d, a, v)'
          BY <2>2, <4>1, <4>2, <5>1, HeldStays
        <5> QED BY <4>1, <5>2
      <4>5. CASE b = j /\ c <= k /\ k < c + CopyLength(g, c)
        <5>1. o = g
          BY <1>0, <3>1, <4>5
        <5>2. /\ (g.virt + k) \div PageSize = (g.virt + c) \div PageSize
              /\ memory'[f * PageSize + ((g.virt + k) % PageSize)] = Byte(program, j, k)
          <6>1. PICK off : off = (g.virt + c) % PageSize
            OBVIOUS
          <6>2. PartIsWritten(f, off, CopyLength(g, c), program.name, j, c, FileLeft(g, c))
            BY <1>9, <6>1
          <6>3. g = program.segments[j]
            BY <1>0
          <6>4. IsByteOfPart(program, j, g, c, k, off)
            BY <1>13, <4>2, <4>5, <6>1, <6>3 DEF IsByteOfPart
          <6> QED BY <1>6, <6>2, <6>4, PartHasByte
        <5>3. q = page /\ memory'[f * PageSize + r] = v
          BY <1>13, <4>1, <4>5, <5>1, <5>2
        <5>4. HasFrame(d, q)' /\ memory'[FrameOf(d, q)' * PageSize + r] = v
          BY <1>15, <5>3
        <5>5. InPlace(d, a, v)'
          BY <4>1, <5>4 DEF InPlace, CellOf
        <5> QED BY <4>1, <5>5
      <4> QED BY <4>3, <4>4, <4>5
    <3> QED BY <2>1, <3>1 DEF SegmentsLoaded
  <2>4. ArgumentsLoaded(task, Len(tasks), u)'
    <3>1. OthersLeft(s, u, task.program)
      BY <1>2, <1>5, <2>1 DEF OthersLeft
    <3>2. ~Touches(s[1], task.program, TaskStack[1])
      <4>1. TaskStack[1] \in EveryPage
        BY StackTopIs, EveryPageIs
      <4>2. Touches(item, program, TaskStack[1]) => TaskStack[1] \in SegmentPages(g)
        BY <1>0, <1>3, <1>4, <4>1, CopyIs
      <4>3. TaskStack[1] \notin SegmentPages(g)
        <5>1. 0 \in 0 .. g.memsz - 1
          BY <1>13
        <5> QED BY <1>0, <1>3, <1>13, <5>1, ByteIsIn
      <4> QED BY <1>2, <2>1, <4>2, <4>3
    <3>3. PageKept(task.directory, TaskStack[1])
      BY <2>1, <2>2, StackTopIs
    <3>4. PICK l : l = Len(tasks)
      OBVIOUS
    <3>5. ArgumentsLoaded(task, l, u)'
      BY <1>2, <1>5, <1>16, <3>1, <3>2, <3>3, <3>4, ArgumentsStay
    <3> QED BY <2>1, <3>4, <3>5
  <2> QED BY <2>3, <2>4
<1>17. TasksLoaded'
  <2>1. ASSUME NEW i \in DOMAIN tasks
        PROVE  (SegmentsLoaded(tasks[i], AtHandOf(i)) /\ ArgumentsLoaded(tasks[i], i, AtHandOf(i)))'
    <3>1. PICK task, y, z : task = tasks[i] /\ y = AtHandOf(i) /\ z = AtHandOf(i)'
      OBVIOUS
    <3>2. SegmentsLoaded(task, y) /\ ArgumentsLoaded(task, i, y) /\ tasks'[i] = task
      BY <1>1, <3>1 DEF TasksLoaded
    <3>3. CASE i = Len(tasks)
      <4>1. y = s /\ z = u
        BY <1>0, <1>1, <3>1, <3>3 DEF AtHandOf
      <4>2. (SegmentsLoaded(task, u) /\ ArgumentsLoaded(task, Len(tasks), u))'
        BY <1>16, <3>1, <3>2, <3>3, <4>1
      <4>3. i = Len(tasks)'
        BY <1>1, <3>3
      <4> QED BY <3>1, <3>2, <4>1, <4>2, <4>3
    <3>4. CASE i # Len(tasks)
      <4>1. y = <<>> /\ z = <<>>
        BY <1>1, <3>1, <3>4 DEF AtHandOf
      <4>2. y \in Seq(S) /\ z \in Seq(S)
        BY <4>1
      <4>3. PICK e : e = task.directory
        OBVIOUS
      <4>4. \A p \in TaskPages : PageKept(e, p)
        BY <1>12, <3>1, <4>3
      <4>5. task.program \in TaskPrograms
        BY <3>1, TaskIs DEF Working
      <4>6. SegmentsLoaded(task, z)' /\ ArgumentsLoaded(task, i, z)'
        BY <3>2, <4>1, <4>2, <4>3, <4>4, <4>5, TaskStaysLoaded
      <4> QED BY <3>1, <3>2, <4>6
    <3> QED BY <3>3, <3>4
  <2> QED BY <1>1, <2>1 DEF TasksLoaded
<1> QED BY <1>10, <1>11, <1>17

-----------------------------------------------------------------------------
(* The arguments are copied.                                               *)

\* A page of the heap that is not taken is not the wand's, and has its frame in every
\* directory; no page of a task has it.
NoTaskHas(h) ==
  \A i \in DOMAIN tasks : \A p \in TaskPages : \A d : d = tasks[i].directory =>
    (HasFrame(d, p) => FrameOf(d, p) # h)
LEMMA FreePageIs ==
  ASSUME Working, MapsFit, FramesApart, MemoryFits, HeapMapped, placement = 0,
         NEW q \in HeapPages \ heap
  PROVE  /\ Home(q) \in RamFrames /\ Home(q) \in Nat /\ NoTaskHas(Home(q)) /\ q # wand.page
         /\ \A d \in DOMAIN directories : TableOf(d, q) # 0 /\ FrameOf(d, q) = Home(q)
<1>1. Home(q) \in frames /\ Home(q) \in RamFrames
  BY DEF HeapMapped, MemoryFits
<1>2. Home(q) \in Nat
  BY <1>1, RamFramesAre
<1>3. NoTaskHas(Home(q))
  BY <1>1, HeapFramesApart DEF NoTaskHas
<1>4. q # wand.page
  <2>1. CASE wand = NoWand
    <3>1. wand.page = 0 /\ q # 0
      BY <2>1, HeapPairsAre DEF NoWand
    <3> QED BY <3>1
  <2>2. CASE wand # NoWand
    BY <2>2 DEF Working, AllocationFits
  <2> QED BY <2>1, <2>2
<1>5. TableOf(kernel, q) # 0 /\ q \in EveryPage /\ FrameOf(kernel, q) = Home(q)
  BY <1>4, HeapPairsAre DEF MapsFit, KernelPaged, Home
<1>6. \A d \in DOMAIN directories : TableOf(d, q) # 0 /\ FrameOf(d, q) = Home(q)
  BY <1>5, KernelPageIs DEF Working, MapsFit
<1> QED BY <1>1, <1>2, <1>3, <1>4, <1>6

\* A frame is copied to another.
IsRam(m) == DOMAIN m = 0 .. Words * WordBits * PageSize - 1
IsStart(a, f) == a = f * PageSize
LEMMA CopyFrameIs ==
  ASSUME NEW m, IsRam(m), NEW h \in RamFrames, NEW src, IsStart(src, h),
         NEW g \in RamFrames, NEW dst, IsStart(dst, g)
  PROVE  \A f \in RamFrames : \A x \in 0 .. PageSize - 1 :
           CopyFrame(m, src, dst)[f * PageSize + x] =
             IF f = g THEN m[h * PageSize + x] ELSE m[f * PageSize + x]
<1> SUFFICES ASSUME NEW f \in RamFrames, NEW x \in 0 .. PageSize - 1
             PROVE  CopyFrame(m, src, dst)[f * PageSize + x] =
                      IF f = g THEN m[h * PageSize + x] ELSE m[f * PageSize + x]
  OBVIOUS
<1>1. PageSize \in Nat \ {0}
  BY MemoryAssumption
<1>2. f \in Nat /\ g \in Nat /\ h \in Nat
  BY RamFramesAre
<1>3. PICK cell, z, n : cell = f * PageSize + x /\ z = 0 /\ n = PageSize
  OBVIOUS
<1>4. IsCell(cell, f, x) /\ IsCell(dst, g, z)
  <2>1. g * PageSize \in Nat
    BY <1>1, <1>2
  <2>2. dst = g * PageSize + z
    BY <1>3, <2>1 DEF IsStart
  <2> QED BY <1>3, <2>2 DEF IsCell
<1>5. z \in Nat /\ n \in Nat /\ z + n <= PageSize
  BY <1>1, <1>3
<1>6. /\ cell \in dst .. dst + n - 1 <=> f = g /\ z <= x /\ x < z + n
      /\ f = g => cell - dst = x - z
  BY <1>2, <1>4, <1>5, CellsOfPart
<1>7. z <= x /\ x < z + n /\ x - z = x
  BY <1>1, <1>3
<1>8. cell \in dst .. dst + PageSize - 1 <=> f = g
  BY <1>3, <1>6, <1>7
<1>9. cell \in DOMAIN m /\ h * PageSize + x \in DOMAIN m
  BY <1>3, RamFramesAre DEF IsRam
<1>10. CopyFrame(m, src, dst)[cell] =
        IF cell \in dst .. dst + PageSize - 1 THEN At(m, src + (cell - dst)) ELSE m[cell]
  BY <1>9 DEF CopyFrame
<1>11. CASE f = g
  <2>1. CopyFrame(m, src, dst)[cell] = At(m, src + (cell - dst))
    BY <1>8, <1>10, <1>11
  <2>2. src + (cell - dst) = h * PageSize + x
    BY <1>6, <1>7, <1>11 DEF IsStart
  <2> QED BY <1>3, <1>9, <1>11, <2>1, <2>2 DEF At
<1>12. CASE f # g
  BY <1>3, <1>8, <1>10, <1>12
<1> QED BY <1>11, <1>12

\* The arguments get into the frame of the stack through a page of the heap, and what
\* is in other pages of tasks stays.
LEMMA ArgumentsAreWritten ==
  ASSUME Working, MapsFit, FramesApart, MemoryFits, HeapMapped, LoadArguments,
         NEW g, g = FrameOf(target, TaskStack[1]), g \in RamFrames
  PROVE  \E h \in RamFrames :
           /\ NoTaskHas(h) /\ DOMAIN memory' = DOMAIN memory
           /\ \A f \in RamFrames \ {g, h} : \A x \in 0 .. PageSize - 1 :
                memory'[f * PageSize + x] = memory[f * PageSize + x]
           /\ memory'[g * PageSize + (PageSize - 1)] = Arguments(Len(tasks))
<1>1. Step("arguments")
  BY DEF LoadArguments
<1>2. placement = 0 /\ active \in DOMAIN directories /\ kernel \in DOMAIN directories
  BY <1>1, TaskItemIs DEF Working, SpacesFit
<1> DEFINE writing(c) == [memory EXCEPT ![c] = Arguments(Len(tasks))]
<1>3. PICK a \in Addresses(PageSize) :
        memory' = CopyFrame(writing(Cell(pages, active, a + PageSize - 1)), Physical(a),
                            FrameOf(target, TaskStack[1]) * PageSize)
  BY Zenon DEF LoadArguments
<1>4. PageSize \in Nat \ {0}
  BY MemoryAssumption
<1>5. PICK q : q = a \div PageSize
  OBVIOUS
<1>6. a \in Nat /\ q \in Nat /\ a = q * PageSize /\ q \in HeapPages \ heap
  BY <1>2, <1>4, <1>5, AddressesAreNew DEF Working
<1>7. PICK h : h = Home(q)
  OBVIOUS
<1>8. /\ h \in RamFrames /\ h \in Nat /\ NoTaskHas(h)
      /\ TableOf(active, q) # 0 /\ FrameOf(active, q) = h /\ FrameOf(kernel, q) = h
  BY <1>2, <1>6, <1>7, FreePageIs
<1>9. PICK last, l : last = a + PageSize - 1 /\ l = PageSize - 1
  OBVIOUS
<1>10. last \div PageSize = q /\ last % PageSize = l
  <2>1. l \in 0 .. PageSize - 1 /\ last = q * PageSize + l
    <3>1. PICK b : b = q * PageSize
      OBVIOUS
    <3>2. a = b /\ b \in Nat
      BY <1>6, <3>1
    <3>3. last = b + l /\ l \in 0 .. PageSize - 1
      BY <1>4, <1>9, <3>2
    <3> QED BY <3>1, <3>3
  <2> QED BY <1>4, <1>6, <2>1, QuotientIs
<1>11. Cell(pages, active, last) = h * PageSize + l
  BY <1>8, <1>10 DEF Cell, FrameOf
<1>12. Physical(a) = h * PageSize
  <2>1. a \div PageSize = q /\ a % PageSize = 0
    BY <1>4, <1>6, MultipleIs
  <2>2. Physical(a) = h * PageSize + 0
    BY <1>2, <1>8, <2>1 DEF Physical, PhysAddr
  <2>3. h * PageSize \in Nat
    BY <1>4, <1>8
  <2> QED BY <2>2, <2>3
<1>13. PICK written, dst : written = writing(h * PageSize + l) /\ dst = g * PageSize
  OBVIOUS
<1>14. memory' = CopyFrame(written, h * PageSize, dst)
  BY <1>3, <1>9, <1>11, <1>12, <1>13
<1>15. DOMAIN written = DOMAIN memory
  BY <1>13
<1>16. DOMAIN memory' = DOMAIN memory
  BY <1>14, <1>15 DEF CopyFrame
<1>17. l \in 0 .. PageSize - 1
  BY <1>4, <1>9
<1>18. \A f \in RamFrames : \A x \in 0 .. PageSize - 1 :
         memory'[f * PageSize + x] =
           IF f = g THEN written[h * PageSize + x] ELSE written[f * PageSize + x]
  <2>1. IsStart(dst, g)
    BY <1>13 DEF IsStart
  <2>2. IsRam(written)
    BY <1>15 DEF MemoryFits, IsRam
  <2>3. PICK src : src = h * PageSize
    OBVIOUS
  <2>4. \A f \in RamFrames : \A x \in 0 .. PageSize - 1 :
          CopyFrame(written, src, dst)[f * PageSize + x] =
            IF f = g THEN written[h * PageSize + x] ELSE written[f * PageSize + x]
    <3>1. IsStart(src, h)
      BY <2>3 DEF IsStart
    <3> QED BY <1>8, <2>1, <2>2, <3>1, CopyFrameIs
  <2> QED BY <1>14, <2>3, <2>4
<1>19. ASSUME NEW f \in RamFrames \ {g, h}, NEW x \in 0 .. PageSize - 1
       PROVE  memory'[f * PageSize + x] = memory[f * PageSize + x]
  <2>1. f \in Nat /\ f \in RamFrames /\ f # h /\ f # g
    BY RamFramesAre
  <2>2. f * PageSize + x # h * PageSize + l
    BY <1>8, <1>17, <2>1, CellsApart
  <2>3. PICK cell, other : cell = f * PageSize + x /\ other = h * PageSize + l
    OBVIOUS
  <2>4. written[cell] = memory[cell]
    <3>1. cell \in DOMAIN memory
      BY <2>1, <2>3, RamFramesAre DEF MemoryFits
    <3> QED BY <1>13, <2>2, <2>3, <3>1
  <2> QED BY <1>18, <2>1, <2>3, <2>4
<1>20. memory'[g * PageSize + l] = Arguments(Len(tasks))
  <2>1. memory'[g * PageSize + l] = written[h * PageSize + l]
    BY <1>17, <1>18
  <2>2. PICK cell : cell = h * PageSize + l
    OBVIOUS
  <2>3. cell \in DOMAIN memory
    BY <1>8, <1>17, <2>2, RamFramesAre DEF MemoryFits
  <2>4. written[cell] = Arguments(Len(tasks))
    BY <1>13, <2>2, <2>3
  <2> QED BY <2>1, <2>2, <2>4
<1> QED BY <1>8, <1>9, <1>16, <1>19, <1>20

\* So the arguments are there, and nothing else has changed.
LEMMA LoadArgumentsKeepsImages ==
  ASSUME Working, MapsFit, FramesApart, MemoryFits, HeapMapped, TasksLoaded, LoadArguments
  PROVE  MemoryFits' /\ HeapMapped' /\ TasksLoaded'
<1>1. /\ Step("arguments") /\ Done
      /\ UNCHANGED <<placement, directories, pages, kernel, tasks, frames, wand>>
  BY DEF LoadArguments, spaces, making, allocation
<1>2. placement = 0 /\ tasks # <<>>
  BY <1>1, TaskItemIs
<1>3. PICK S, s, u, program, d, n, t, task :
        /\ S = Items /\ s = Now /\ u = Now' /\ program = TaskProgram /\ d = target
        /\ n = Len(tasks) /\ t = TaskStack[1] /\ task = tasks[n]
  OBVIOUS
<1>4. /\ s \in Seq(S) /\ s # <<>> /\ s[1].do = "arguments" /\ 1 \in DOMAIN s
      /\ u \in Seq(S) /\ GoesOn(u, 1, s, program)
  BY <1>1, <1>3, NowAtHand
<1>5. /\ n \in DOMAIN tasks /\ task.directory = d /\ task.program = program
      /\ program \in TaskPrograms /\ t \in TaskPages
  BY <1>2, <1>3, ProgramIs, TaskIs, StackTopIs DEF Working, TasksFit, TaskProgram
<1>6. SegmentsLoaded(task, s) /\ ArgumentsLoaded(task, n, s)
  <2>1. AtHandOf(n) = s
    BY <1>3 DEF AtHandOf
  <2> QED BY <1>3, <1>5, <2>1 DEF TasksLoaded
<1>7. HasFrame(d, t)
  <2>1. \A m \in DOMAIN s : ~(m < 1)
    BY <1>4
  <2> QED BY <1>3, <1>4, <1>5, <1>6, <2>1 DEF ArgumentsLoaded
<1>8. PICK g : g = FrameOf(d, t)
  OBVIOUS
<1>9. g \in RamFrames /\ g \in frames
  BY <1>7, <1>8 DEF HasFrame, MemoryFits
<1>10. PICK h \in RamFrames :
         /\ NoTaskHas(h) /\ DOMAIN memory' = DOMAIN memory
         /\ \A f \in RamFrames \ {g, h} : \A x \in 0 .. PageSize - 1 :
              memory'[f * PageSize + x] = memory[f * PageSize + x]
         /\ memory'[g * PageSize + (PageSize - 1)] = Arguments(n)
  BY <1>3, <1>8, <1>9, ArgumentsAreWritten
<1>11. KeepFrames
  BY <1>1, FramesAreKept
<1>12. HeapMapped'
  BY <1>1, <1>2, <1>11, HeapStaysMapped
<1>13. MemoryFits'
  BY <1>1, <1>10, MemoryStaysFit
<1>14. ASSUME NEW i \in DOMAIN tasks, NEW e, e = tasks[i].directory, NEW p \in TaskPages, i # n \/ p # t
       PROVE  PageKept(e, p)
  <2> SUFFICES ASSUME HasFrame(e, p) PROVE PageKept(e, p)
    BY DEF PageKept
  <2>1. HasFrame(e, p)' /\ FrameOf(e, p)' = FrameOf(e, p)
    BY <1>1, <1>11, <1>14, FrameStays
  <2>2. FrameOf(e, p) \in RamFrames
    BY DEF HasFrame, MemoryFits
  <2>3. FrameOf(e, p) # h
    BY <1>10, <1>14 DEF NoTaskHas
  <2>4. FrameOf(e, p) # g
    <3>1. d = tasks[n].directory
      BY <1>3, <1>5
    <3> QED BY <1>5, <1>7, <1>8, <1>14, <3>1, TaskFramesApart
  <2>5. PICK f : f = FrameOf(e, p)
    OBVIOUS
  <2>6. \A x \in 0 .. PageSize - 1 : memory'[f * PageSize + x] = memory[f * PageSize + x]
    BY <1>10, <2>2, <2>3, <2>4, <2>5
  <2> QED BY <2>1, <2>5, <2>6 DEF PageKept
<1>15. SegmentsLoaded(task, u)'
  <2>1. CopiesLeft(s, u)
    BY <1>4, NothingIsCopied
  <2>2. \A p \in TaskPages : p # TaskStack[1] => PageKept(task.directory, p)
    BY <1>3, <1>5, <1>14
  <2> QED BY <1>5, <1>6, <2>1, <2>2, SegmentsStay
<1>16. HasFrame(d, t)' /\ FrameOf(d, t)' = g
  BY <1>1, <1>3, <1>5, <1>7, <1>8, <1>11, FrameStays
<1>17. ArgumentsLoaded(task, n, u)'
  <2>1. PICK a, v : a = StackTop /\ v = Arguments(n)
    OBVIOUS
  <2>2. a \div PageSize = t /\ a % PageSize = PageSize - 1
    BY <1>3, <2>1, StackTopIs
  <2>3. CellOf(d, a)' = g * PageSize + (PageSize - 1)
    BY <1>16, <2>2 DEF CellOf
  <2>4. InPlace(d, a, v)'
    BY <1>10, <1>16, <2>1, <2>2, <2>3 DEF InPlace
  <2>5. HasFrame(d, TaskStack[1])'
    BY <1>3, <1>16
  <2> QED BY <1>5, <2>1, <2>4, <2>5 DEF ArgumentsLoaded
<1>18. TasksLoaded'
  <2>1. ASSUME NEW i \in DOMAIN tasks
        PROVE  (SegmentsLoaded(tasks[i], AtHandOf(i)) /\ ArgumentsLoaded(tasks[i], i, AtHandOf(i)))'
    <3>1. PICK own, y, z : own = tasks[i] /\ y = AtHandOf(i) /\ z = AtHandOf(i)'
      OBVIOUS
    <3>2. SegmentsLoaded(own, y) /\ ArgumentsLoaded(own, i, y) /\ tasks'[i] = own
      BY <1>1, <3>1 DEF TasksLoaded
    <3>3. CASE i = n
      <4>1. z = u /\ own = task
        BY <1>1, <1>3, <3>1, <3>3 DEF AtHandOf
      <4> QED BY <1>15, <1>17, <3>1, <3>2, <3>3, <4>1
    <3>4. CASE i # n
      <4>1. y = <<>> /\ z = <<>>
        BY <1>1, <1>3, <3>1, <3>4 DEF AtHandOf
      <4>2. y \in Seq(S) /\ z \in Seq(S)
        BY <4>1
      <4>3. PICK e : e = own.directory
        OBVIOUS
      <4>4. \A p \in TaskPages : PageKept(e, p)
        BY <1>14, <3>1, <3>4, <4>3
      <4>5. own.program \in TaskPrograms
        BY <3>1, TaskIs DEF Working
      <4>6. SegmentsLoaded(own, z)' /\ ArgumentsLoaded(own, i, z)'
        BY <3>2, <4>1, <4>2, <4>3, <4>4, <4>5, TaskStaysLoaded
      <4> QED BY <3>1, <3>2, <4>6
    <3> QED BY <3>3, <3>4
  <2> QED BY <1>1, <2>1 DEF TasksLoaded
<1> QED BY <1>12, <1>13, <1>18

-----------------------------------------------------------------------------
(* A core is dumped.                                                       *)

\* What is copied next: a page to the helper, and from there to the file.
CopiedNext(done, d, helper, page) ==
  LET m == CopyFrame(done.memory, FrameOf(d, page) * PageSize, PhysAddr(helper))
  IN  [memory |-> m,
       cells |-> done.cells
                   \o [k \in 1 .. PageSize |-> At(m, Cell(pages, active, helper + k - 1))]]

\* The recursion of Copied has a solution.
LEMMA CopiedSteps ==
  ASSUME NEW d, NEW helper, Len(CorePages(d)) \in Nat
  PROVE  \E f : /\ Copied(d, helper) = f[Len(CorePages(d))]
                /\ f[0] = [memory |-> memory, cells |-> <<>>]
                /\ \A i \in 1 .. Len(CorePages(d)) :
                     f[i] = CopiedNext(f[i - 1], d, helper, CorePages(d)[i])
<1> DEFINE none == [memory |-> memory, cells |-> <<>>]
           list == CorePages(d)
           after(done, page) == CopiedNext(done, d, helper, page)
           Solved(m) == \E f : f = [i \in 0 .. m |-> IF i = 0 THEN none ELSE after(f[i - 1], list[i])]
           I == {m \in Nat : ~Solved(m)}
           n == Len(list)
           F == CHOOSE f : f = [i \in 0 .. n |-> IF i = 0 THEN none ELSE after(f[i - 1], list[i])]
<1>0. Copied(d, helper) = F[n]
  BY Zenon DEF Copied, CopiedNext
<1>1. n \in Nat
  OBVIOUS
<1> HIDE DEF n, none, list, after, Solved
<1>2. I \subseteq Nat /\ \A m \in Nat : m \in I <=> ~Solved(m)
  OBVIOUS
<1> HIDE DEF I
<1>3. \A m \in Nat : Solved(m)
  <2> SUFFICES ASSUME I # {} PROVE FALSE
    BY <1>2
  <2>1. PICK m \in I : \A j \in I : m <= j
    BY <1>2, LeastElement
  <2>2. m \in Nat /\ ~Solved(m)
    BY <1>2
  <2>3. CASE m = 0
    <3> DEFINE f == [i \in 0 .. 0 |-> none]
               h == [i \in 0 .. 0 |-> IF i = 0 THEN none ELSE after(f[i - 1], list[i])]
    <3>1. f = h
      OBVIOUS
    <3> HIDE DEF f
    <3> QED BY <2>2, <2>3, <3>1 DEF Solved
  <2>4. CASE m # 0
    <3>1. m - 1 \in Nat /\ ~(m <= m - 1)
      BY <2>2, <2>4
    <3>2. Solved(m - 1)
      BY <1>2, <2>1, <3>1
    <3>3. PICK g : g = [i \in 0 .. m - 1 |-> IF i = 0 THEN none ELSE after(g[i - 1], list[i])]
      BY <3>2 DEF Solved
    <3>4. \A i \in 0 .. m - 1 : g[i] = IF i = 0 THEN none ELSE after(g[i - 1], list[i])
      BY <3>3
    <3> DEFINE f == [i \in 0 .. m |-> IF i = m THEN after(g[m - 1], list[m]) ELSE g[i]]
               h == [i \in 0 .. m |-> IF i = 0 THEN none ELSE after(f[i - 1], list[i])]
    <3>5. ASSUME NEW i \in 0 .. m PROVE f[i] = IF i = 0 THEN none ELSE after(f[i - 1], list[i])
      <4>1. CASE i = 0
        <5>1. f[i] = g[i] /\ i \in 0 .. m - 1
          BY <2>2, <2>4, <4>1
        <5> QED BY <3>4, <4>1, <5>1
      <4>2. CASE i # 0
        <5>1. i - 1 \in 0 .. m /\ i - 1 # m /\ f[i - 1] = g[i - 1]
          BY <2>2, <4>2
        <5>2. CASE i = m
          BY <4>2, <5>1, <5>2
        <5>3. CASE i # m
          <6>1. i \in 0 .. m - 1 /\ f[i] = g[i]
            BY <2>2, <5>3
          <6> QED BY <3>4, <4>2, <5>1, <6>1
        <5> QED BY <5>2, <5>3
      <4> QED BY <4>1, <4>2
    <3>6. f = h
      BY <3>5
    <3> HIDE DEF f
    <3>7. Solved(m)
      BY <3>6 DEF Solved
    <3> QED BY <2>2, <3>7
  <2> QED BY <2>3, <2>4
<1>4. F = [i \in 0 .. n |-> IF i = 0 THEN none ELSE after(F[i - 1], list[i])]
  <2>1. Solved(n)
    BY <1>1, <1>3
  <2> QED BY <2>1 DEF Solved
<1> HIDE DEF F
<1>5. F[0] = none /\ \A i \in 1 .. n : F[i] = after(F[i - 1], list[i])
  <2>1. \A i \in 0 .. n : F[i] = IF i = 0 THEN none ELSE after(F[i - 1], list[i])
    BY <1>4
  <2>2. 0 \in 0 .. n
    BY <1>1
  <2>3. \A i \in 1 .. n : i \in 0 .. n /\ i # 0
    BY <1>1
  <2> QED BY <2>1, <2>2, <2>3
<1> QED BY <1>0, <1>5 DEF none, after, list, n

\* So cells that are not the helper's stay.
LEMMA CopiedKeeps ==
  ASSUME NEW d, NEW helper, Len(CorePages(d)) \in Nat,
         NEW cells, cells \subseteq DOMAIN memory,
         \A c \in cells : c \notin PhysAddr(helper) .. PhysAddr(helper) + PageSize - 1
  PROVE  /\ DOMAIN Copied(d, helper).memory = DOMAIN memory
         /\ \A c \in cells : Copied(d, helper).memory[c] = memory[c]
<1>1. PICK f : /\ Copied(d, helper) = f[Len(CorePages(d))]
               /\ f[0] = [memory |-> memory, cells |-> <<>>]
               /\ \A i \in 1 .. Len(CorePages(d)) :
                    f[i] = CopiedNext(f[i - 1], d, helper, CorePages(d)[i])
  BY CopiedSteps
<1>2. PICK n \in Nat : n = Len(CorePages(d))
  OBVIOUS
<1> DEFINE KeptAt(i) == DOMAIN f[i].memory = DOMAIN memory /\ \A c \in cells : f[i].memory[c] = memory[c]
           Bad == {i \in 0 .. n : ~KeptAt(i)}
<1>3. KeptAt(0)
  BY <1>1
<1>4. ASSUME NEW i \in 1 .. n, KeptAt(i - 1) PROVE KeptAt(i)
  <2>1. PICK m, src, dst : /\ m = f[i - 1].memory /\ dst = PhysAddr(helper)
                           /\ src = FrameOf(d, CorePages(d)[i]) * PageSize
    OBVIOUS
  <2>2. f[i] = CopiedNext(f[i - 1], d, helper, CorePages(d)[i])
    BY <1>1, <1>2
  <2>3. f[i].memory = CopyFrame(m, src, dst)
    BY <2>1, <2>2 DEF CopiedNext
  <2>4. CopyFrame(m, src, dst) =
          [c \in DOMAIN m |-> IF c \in dst .. dst + PageSize - 1 THEN At(m, src + (c - dst)) ELSE m[c]]
    BY DEF CopyFrame
  <2>5. DOMAIN m = DOMAIN memory /\ \A c \in cells : m[c] = memory[c]
    BY <1>4, <2>1
  <2>6. \A c \in cells : c \notin dst .. dst + PageSize - 1
    BY <2>1
  <2> QED BY <2>3, <2>4, <2>5, <2>6
<1> HIDE DEF KeptAt
<1>5. Bad \subseteq Nat /\ \A i \in 0 .. n : i \in Bad <=> ~KeptAt(i)
  OBVIOUS
<1>6. Bad = {}
  <2> HIDE DEF Bad
  <2> SUFFICES ASSUME Bad # {} PROVE FALSE
    OBVIOUS
  <2>1. PICK i \in Bad : \A j \in Bad : i <= j
    BY <1>5, LeastElement
  <2>2. i \in 0 .. n /\ ~KeptAt(i)
    BY DEF Bad
  <2>3. i # 0
    BY <1>3, <2>2
  <2>4. i \in 1 .. n /\ i - 1 \in 0 .. n /\ ~(i <= i - 1)
    BY <2>2, <2>3
  <2>5. KeptAt(i - 1)
    BY <1>5, <2>1, <2>4
  <2> QED BY <1>4, <2>2, <2>4, <2>5
<1>7. KeptAt(n)
  <2>1. n \in 0 .. n
    OBVIOUS
  <2> QED BY <1>5, <1>6, <2>1
<1> QED BY <1>1, <1>2, <1>7 DEF KeptAt

\* A run of pages has an end, in its table.
LEMMA RunLengthIs ==
  ASSUME NEW d, NEW page \in Nat, StartsRun(d, page)
  PROVE  RunLength(d, page) \in Nat
<1>0. Entries \in Nat \ {0}
  BY MemoryAssumption
<1> DEFINE Ends(n) == (page + n) % Entries = 0 \/ ~IsOwn(d, page + n)
           N == {n \in Nat \ {0} : Ends(n)}
           L == {n \in 1 .. Entries : EndsRun(d, page + n - 1)}
<1>1. PICK m \in 1 .. Entries : (page + m) % Entries = 0
  <2>1. PICK q \in Nat, r \in 0 .. Entries - 1 : page = q * Entries + r
    BY <1>0, QuotientAndRest
  <2>2. Entries - r \in 1 .. Entries /\ page + (Entries - r) = (q + 1) * Entries + 0
    BY <1>0, <2>1
  <2>3. q + 1 \in Nat /\ 0 \in 0 .. Entries - 1
    BY <1>0, <2>1
  <2>4. ((q + 1) * Entries + 0) % Entries = 0
    BY <1>0, <2>3, QuotientIs
  <2> QED BY <2>2, <2>4
<1>2. m \in N
  BY <1>0, <1>1
<1>3. N \subseteq Nat /\ N # {}
  BY <1>2
<1>4. PICK n \in N : \A j \in N : n <= j
  BY <1>3, LeastElement
<1>5. n \in 1 .. Entries /\ Ends(n)
  <2>1. n \in Nat \ {0} /\ Ends(n)
    OBVIOUS
  <2> HIDE DEF N, Ends
  <2>2. n <= m
    BY <1>2, <1>4
  <2> QED BY <1>0, <1>1, <2>1, <2>2
<1>6. IsOwn(d, page + (n - 1))
  <2>1. CASE n = 1
    <3>1. IsOwn(d, page) /\ page + (n - 1) = page
      BY <2>1 DEF StartsRun
    <3> QED BY <3>1
  <2>2. CASE n # 1
    <3>1. n - 1 \in Nat \ {0} /\ ~(n <= n - 1)
      BY <1>0, <1>5, <2>2
    <3>2. ~Ends(n - 1)
      BY <1>4, <3>1
    <3> QED BY <3>2
  <2> QED BY <2>1, <2>2
<1>7. EndsRun(d, page + n - 1)
  <2>1. PICK k : k = page + (n - 1)
    OBVIOUS
  <2>2. k = page + n - 1 /\ k + 1 = page + n
    BY <1>0, <1>5, <2>1
  <2>3. EndsRun(d, k)
    BY <1>5, <1>6, <2>1, <2>2 DEF EndsRun
  <2> QED BY <2>2, <2>3
<1>8. L \subseteq Nat /\ L # {}
  <2>1. 1 .. Entries \subseteq Nat
    BY <1>0
  <2>2. n \in L
    BY <1>5, <1>7
  <2> QED BY <2>1, <2>2
<1>9. RunLength(d, page) = CHOOSE x \in L : \A y \in L : x <= y
  BY DEF RunLength, Min
<1> HIDE DEF L
<1>10. \E x \in L : \A y \in L : x <= y
  BY <1>8, LeastElement
<1> QED BY <1>8, <1>9, <1>10

\* The pages of a core are a sequence.
LEMMA CorePagesAre ==
  ASSUME NEW d
  PROVE  CorePages(d) \in Seq(Nat)
<1> DEFINE run(i) == IF StartsRun(d, AllPages[i])
                     THEN [n \in 1 .. RunLength(d, AllPages[i]) |-> AllPages[i] + n - 1] ELSE <<>>
           runs == [i \in DOMAIN AllPages |-> run(i)]
<1>1. PICK t \in Nat : t = Tables * Entries
  <2>1. Tables \in Nat /\ Entries \in Nat
    BY MemoryAssumption
  <2> QED BY <2>1
<1>2. DOMAIN AllPages = 1 .. t /\ \A i \in 1 .. t : AllPages[i] = i - 1
  BY <1>1 DEF AllPages
<1>3. ASSUME NEW i \in 1 .. t PROVE run(i) \in Seq(Nat)
  <2>1. PICK page \in Nat : page = AllPages[i]
    BY <1>2
  <2>2. CASE StartsRun(d, page)
    <3>1. PICK l \in Nat : l = RunLength(d, page)
      BY <2>2, RunLengthIs
    <3> DEFINE c == [n \in 1 .. l |-> page + n - 1]
    <3>2. c \in [1 .. l -> Nat]
      OBVIOUS
    <3>3. run(i) = c
      BY <2>1, <2>2, <3>1
    <3> HIDE DEF c, run
    <3> QED BY <3>2, <3>3, IsSequence
  <2>3. CASE ~StartsRun(d, page)
    <3>1. run(i) = <<>>
      BY <2>1, <2>3
    <3> HIDE DEF run
    <3> QED BY <3>1
  <2> QED BY <2>2, <2>3
<1>4. CorePages(d) = FlattenSeq(runs)
  BY DEF CorePages
<1> HIDE DEF run
<1>5. runs \in [1 .. t -> Seq(Nat)]
  BY <1>2, <1>3
<1> HIDE DEF runs
<1>6. runs \in Seq(Seq(Nat))
  BY <1>5, IsSequence
<1>7. <<>> \in Seq(Nat)
  OBVIOUS
<1>8. FlattenSeq(runs) \in Seq(Nat)
  BY <1>6, <1>7, FlattenSeqCons
<1> QED BY <1>4, <1>8

\* Its size is a number of cells.
LEMMA CoreSizeIs ==
  ASSUME NEW d
  PROVE  CoreSize(d) \in Nat /\ PagesFor(CoreSize(d)) \in Nat
<1> DEFINE A == {page \in ToSet(AllPages) : EndsRun(d, page)}
           B == {page \in ToSet(AllPages) : IsOwn(d, page)}
<1>1. PICK t \in Nat : t = Tables * Entries
  <2>1. Tables \in Nat /\ Entries \in Nat
    BY MemoryAssumption
  <2> QED BY <2>1
<1>2. ToSet(AllPages) \subseteq 0 .. t
  BY <1>1 DEF AllPages, ToSet
<1>3. IsFiniteSet(0 .. t)
  BY FS_Interval
<1>4. A \subseteq 0 .. t /\ B \subseteq 0 .. t
  BY <1>2
<1>5. CoreSize(d) = 3 + Cardinality(A) + Cardinality(B) * PageSize
  BY DEF CoreSize, CoreHeaders
<1> HIDE DEF A, B
<1>6. Cardinality(A) \in Nat /\ Cardinality(B) \in Nat
  BY <1>3, <1>4, FS_Subset, FS_CardinalityType
<1>7. PageSize \in Nat \ {0}
  BY MemoryAssumption
<1>8. CoreSize(d) \in Nat
  BY <1>5, <1>6, <1>7
<1>9. Aligned(CoreSize(d)) \in Nat
  BY <1>8, AlignedIs
<1> QED BY <1>7, <1>8, <1>9, QuotientAndRest DEF PagesFor

-----------------------------------------------------------------------------
(* A core is dumped.                                                       *)

\* A page of cells lies in a frame and the next.
LEMMA CellsAcross ==
  ASSUME NEW h \in Nat, NEW off \in 0 .. PageSize - 1, NEW f \in Nat, NEW x \in 0 .. PageSize - 1,
         f # h, f # h + 1, NEW first, IsCell(first, h, off), NEW cell, IsCell(cell, f, x)
  PROVE  cell \notin first .. first + PageSize - 1
<1>0. first = h * PageSize + off /\ cell = f * PageSize + x
  BY DEF IsCell
<1>1. PageSize \in Nat \ {0}
  BY MemoryAssumption
<1>2. PICK a, b, c : a = h * PageSize /\ b = f * PageSize /\ c = (h + 1) * PageSize
  OBVIOUS
<1>3. a \in Nat /\ b \in Nat /\ c = a + PageSize
  BY <1>1, <1>2
<1>4. SUFFICES ASSUME b + x \in a + off .. a + off + PageSize - 1 PROVE FALSE
  BY <1>0, <1>2
<1>5. PICK y, z : y = b + x - a /\ z = b + x - c
  OBVIOUS
<1>6. CASE y < PageSize
  <2>1. y \in 0 .. PageSize - 1 /\ b + x = a + y
    BY <1>1, <1>3, <1>4, <1>5, <1>6
  <2>2. f * PageSize + x = h * PageSize + y
    BY <1>2, <2>1
  <2> QED BY <2>1, <2>2, CellsApart
<1>7. CASE ~(y < PageSize)
  <2>1. z \in 0 .. PageSize - 1 /\ b + x = c + z
    BY <1>1, <1>3, <1>4, <1>5, <1>7
  <2>2. PICK g \in Nat : g = h + 1
    OBVIOUS
  <2>3. f * PageSize + x = g * PageSize + z
    BY <1>2, <2>1, <2>2
  <2>4. f = g
    BY <2>1, <2>2, <2>3, CellsApart
  <2> QED BY <2>2, <2>4
<1> QED BY <1>6, <1>7

\* The core of a task is copied through two pages of the heap that are not taken.
DumpsThrough(d, p, off) ==
  /\ p \in HeapPages \ heap /\ p + 1 \in HeapPages \ heap /\ off \in 0 .. PageSize - 1
  /\ memory' = Copied(d, p * PageSize + off).memory
LEMMA CoreIsDumped ==
  ASSUME NEW i \in DOMAIN tasks, DumpCore(i), halted' = "no"
  PROVE  /\ \E d, p, off : DumpsThrough(d, p, off)
         /\ todo = <<>> /\ todo' = <<>>
         /\ UNCHANGED <<placement, directories, pages, kernel, tasks, frames, wand>>
<1> DEFINE d == tasks[i].directory
           n == PagesFor(CoreSize(d))
<1>1. IsIdle /\ ~Panic("no_hole")
  BY DEF DumpCore, Panic
<1>2. /\ \E p \in SmallestHoles(2 + 2 * n), off \in 0 .. PageSize - 1 :
           memory' = Copied(d, p * PageSize + off).memory
      /\ UNCHANGED <<placement, placed, spaces, frames, others, tasks, target, wand, todo, halted>>
  BY <1>1 DEF DumpCore
<1>3. n \in Nat
  BY CoreSizeIs
<1> HIDE DEF d, n
<1>4. PICK m \in Nat : m = 2 + 2 * n /\ m >= 2
  BY <1>3
<1>5. PICK p \in SmallestHoles(m), off \in 0 .. PageSize - 1 :
        memory' = Copied(d, p * PageSize + off).memory
  BY <1>2, <1>4
<1>6. p \in Holes(m) /\ p \in HeapPages \ heap
  BY DEF SmallestHoles, Holes
<1>7. p \in Nat
  <2>1. HeapStart \in Nat /\ HeapEnd \in Nat
    BY MemoryAssumption
  <2> QED BY <1>6, <2>1 DEF HeapPages
<1>8. p + 1 \in HeapPages \ heap
  BY <1>4, <1>6, <1>7, NextPageOfHole
<1>9. DumpsThrough(d, p, off)
  BY <1>5, <1>6, <1>8 DEF DumpsThrough
<1> QED BY <1>1, <1>2, <1>9 DEF IsIdle, spaces

\* Those pages follow each other, so that no page of a task is written.
LEMMA DumpSparesTasks ==
  ASSUME Working, MapsFit, FramesApart, MemoryFits, HeapMapped, placement = 0,
         NEW d, NEW p, NEW off, DumpsThrough(d, p, off)
  PROVE  /\ DOMAIN memory' = DOMAIN memory
         /\ \A i \in DOMAIN tasks : \A q \in TaskPages : \A e : e = tasks[i].directory /\ HasFrame(e, q) =>
              \A f : f = FrameOf(e, q) =>
                \A x \in 0 .. PageSize - 1 : memory'[f * PageSize + x] = memory[f * PageSize + x]
<1>1. /\ p \in HeapPages \ heap /\ p + 1 \in HeapPages \ heap /\ off \in 0 .. PageSize - 1
      /\ memory' = Copied(d, p * PageSize + off).memory
  BY DEF DumpsThrough
<1>2. PageSize \in Nat \ {0}
  BY MemoryAssumption
<1>3. p \in Nat
  <2>1. HeapStart \in Nat /\ HeapEnd \in Nat
    BY MemoryAssumption
  <2> QED BY <1>1, <2>1 DEF HeapPages
<1>4. PICK h, g : h = Home(p) /\ g = Home(p + 1)
  OBVIOUS
<1>5. /\ h \in Nat /\ NoTaskHas(h) /\ FrameOf(kernel, p) = h
  BY <1>1, <1>4, FreePageIs DEF Working, SpacesFit
<1>6. NoTaskHas(g)
  <2>1. PICK q : q = p + 1
    OBVIOUS
  <2> QED BY <1>1, <1>4, <2>1, FreePageIs
<1>7. g = h + 1
  <2>1. p \in HeapPairs
    BY <1>1, HeapPairsAre DEF HeapPairs
  <2> QED BY <1>4, <2>1 DEF MapsFit, KernelPaged
<1>8. PICK helper, first : helper = p * PageSize + off /\ first = PhysAddr(helper)
  OBVIOUS
<1>9. helper \div PageSize = p /\ helper % PageSize = off
  BY <1>1, <1>2, <1>3, <1>8, QuotientIs
<1>10. IsCell(first, h, off)
  BY <1>5, <1>8, <1>9 DEF IsCell, PhysAddr
<1> DEFINE Apart == {f \in RamFrames : f # h /\ f # g}
           cells == {f * PageSize + x : f \in Apart, x \in 0 .. PageSize - 1}
<1>11. ASSUME NEW c \in cells PROVE c \in DOMAIN memory /\ c \notin first .. first + PageSize - 1
  <2>1. PICK f \in Apart, x \in 0 .. PageSize - 1 : c = f * PageSize + x
    OBVIOUS
  <2>2. f \in RamFrames /\ f \in Nat /\ f # h /\ f # h + 1
    BY <1>7, RamFramesAre
  <2>3. IsCell(c, f, x)
    BY <2>1 DEF IsCell
  <2>4. c \in DOMAIN memory
    BY <2>1, <2>2, RamFramesAre DEF MemoryFits
  <2> QED BY <1>1, <1>5, <1>10, <2>2, <2>3, <2>4, CellsAcross
<1>12. \A f \in RamFrames : f # h /\ f # g => \A x \in 0 .. PageSize - 1 : f * PageSize + x \in cells
  OBVIOUS
<1> HIDE DEF cells
<1>13. Len(CorePages(d)) \in Nat
  BY CorePagesAre
<1>14. \A c \in cells : c \notin PhysAddr(helper) .. PhysAddr(helper) + PageSize - 1
  BY <1>8, <1>11
<1>15. /\ DOMAIN Copied(d, helper).memory = DOMAIN memory
       /\ \A c \in cells : Copied(d, helper).memory[c] = memory[c]
  BY <1>11, <1>13, <1>14, CopiedKeeps
<1>16. DOMAIN memory' = DOMAIN memory /\ \A c \in cells : memory'[c] = memory[c]
  BY <1>1, <1>8, <1>15
<1>17. ASSUME NEW i \in DOMAIN tasks, NEW q \in TaskPages, NEW e, e = tasks[i].directory, HasFrame(e, q),
              NEW f, f = FrameOf(e, q), NEW x \in 0 .. PageSize - 1
       PROVE  memory'[f * PageSize + x] = memory[f * PageSize + x]
  <2>1. f \in RamFrames
    BY <1>17 DEF HasFrame, MemoryFits
  <2>2. f # h /\ f # g
    BY <1>5, <1>6, <1>17 DEF NoTaskHas
  <2> QED BY <1>12, <1>16, <2>1, <2>2
<1> QED BY <1>16, <1>17

\* So what tasks hold stays.
LEMMA DumpCoreKeepsImages ==
  ASSUME Working, MapsFit, FramesApart, MemoryFits, HeapMapped, TasksLoaded,
         NEW i \in DOMAIN tasks, DumpCore(i), halted' = "no"
  PROVE  MemoryFits' /\ HeapMapped' /\ TasksLoaded'
<1>1. /\ todo = <<>> /\ todo' = <<>>
      /\ UNCHANGED <<placement, directories, pages, kernel, tasks, frames, wand>>
  BY CoreIsDumped
<1>2. PICK d, p, off : DumpsThrough(d, p, off)
  BY CoreIsDumped
<1>3. Now = <<>> /\ Now' = <<>>
  BY <1>1, IdleNow, IdleThen
<1>4. tasks # <<>> /\ placement = 0
  BY DEF Working, TasksFit
<1>5. KeepFrames
  BY <1>1, FramesAreKept
<1>6. HeapMapped'
  BY <1>1, <1>4, <1>5, HeapStaysMapped
<1>7. DOMAIN memory' = DOMAIN memory
  BY <1>2, <1>4, DumpSparesTasks
<1>8. MemoryFits'
  BY <1>1, <1>7, MemoryStaysFit
<1>9. ASSUME NEW j \in DOMAIN tasks, NEW e, e = tasks[j].directory, NEW q \in TaskPages
      PROVE  PageKept(e, q)
  <2> SUFFICES ASSUME HasFrame(e, q) PROVE PageKept(e, q)
    BY DEF PageKept
  <2>1. HasFrame(e, q)' /\ FrameOf(e, q)' = FrameOf(e, q)
    BY <1>1, <1>5, <1>9, FrameStays
  <2>2. PICK f : f = FrameOf(e, q)
    OBVIOUS
  <2>3. \A x \in 0 .. PageSize - 1 : memory'[f * PageSize + x] = memory[f * PageSize + x]
    BY <1>2, <1>4, <1>9, <2>2, DumpSparesTasks
  <2> QED BY <2>1, <2>2, <2>3 DEF PageKept
<1>10. TaskPagesKept
  BY <1>9 DEF TaskPagesKept
<1>11. PICK S : S = {0}
  OBVIOUS
<1>12. Now \in Seq(S) /\ Now' \in Seq(S) /\ Now' = Now
  BY <1>3
<1>13. TasksLoaded'
  BY <1>1, <1>10, <1>12, TasksStayLoaded DEF Working
<1> QED BY <1>6, <1>8, <1>13

-----------------------------------------------------------------------------
(* Every step.                                                             *)

\* Images are there while nothing changes.
LEMMA ImagesHold ==
  ASSUME ImageInv, UNCHANGED spacesVars, memory' = memory, todo' = todo, halted' = halted
  PROVE  ImageInv'
<1>1. UNCHANGED <<placement, placed, frames, directories, pages, kernel, heap, others, tasks, wand>>
  BY DEF spacesVars
<1>2. Now' = Now
  BY DEF Now
<1>3. MemoryFits'
  BY <1>1, MemoryStaysFit DEF ImageInv
<1>4. \A d, p : FrameOf(d, p)' = FrameOf(d, p) /\ HasFrame(d, p)' = HasFrame(d, p)
  BY <1>1 DEF TableOf, FrameOf, HasFrame
<1>5. \A d, a, v : InPlace(d, a, v)' = InPlace(d, a, v)
  BY <1>4 DEF InPlace, CellOf
<1>6. ASSUME HeapMapped PROVE HeapMapped'
  <2>1. \A p : FrameOf(kernel, p)' = FrameOf(kernel, p) /\ Home(p)' = Home(p)
    BY <1>1 DEF TableOf, FrameOf, Home
  <2>2. PICK s : s = Now
    OBVIOUS
  <2> QED BY <1>1, <1>2, <1>6, <2>1, <2>2 DEF HeapMapped, HeapPages, NotTouched, Initial
<1>7. ASSUME TasksLoaded PROVE TasksLoaded'
  <2>1. ASSUME NEW i \in DOMAIN tasks
        PROVE  (SegmentsLoaded(tasks[i], AtHandOf(i)) /\ ArgumentsLoaded(tasks[i], i, AtHandOf(i)))'
    <3>1. PICK own, y : own = tasks[i] /\ y = AtHandOf(i)
      OBVIOUS
    <3>2. SegmentsLoaded(own, y) /\ ArgumentsLoaded(own, i, y)
      BY <1>7, <3>1 DEF TasksLoaded
    <3>3. AtHandOf(i)' = y /\ tasks'[i] = own
      BY <1>1, <1>2, <3>1 DEF AtHandOf
    <3>4. SegmentsLoaded(own, y)'
      BY <1>5, <3>2 DEF SegmentsLoaded
    <3>5. ArgumentsLoaded(own, i, y)'
      BY <1>4, <1>5, <3>2 DEF ArgumentsLoaded
    <3> QED BY <3>3, <3>4, <3>5
  <2> QED BY <1>1, <2>1 DEF TasksLoaded
<1> QED BY <1>1, <1>3, <1>6, <1>7 DEF ImageInv

\* When the machine stops, the memory is left as it is.
LEMMA PanicKeepsMemory ==
  ASSUME MemoryFits, NEW what, Panic(what), what # "no"
  PROVE  MemoryFits' /\ halted' # "no"
<1>1. memory' = memory /\ frames' = frames /\ halted' = what
  BY DEF Panic
<1> QED BY <1>1, MemoryStaysFit

\* Each step keeps the images, or stops the machine.
LEMMA ImagesGoOn ==
  ASSUME Working, MapsFit, OrderFits, FramesApart, MemoryFits, HeapMapped, TasksLoaded,
         halted = "no", MemoryNext
  PROVE  MemoryFits' /\ (halted' = "no" => HeapMapped' /\ TasksLoaded')
<1>1. ~Alloc /\ ~AllocateKernelDirectory /\ ~Halted
  BY EarlyIsOver
<1>2. CASE MakeTable
  BY <1>2, MakeTableKeepsImages
<1>3. CASE GetPage
  BY <1>3, GetPageKeepsImages
<1>4. CASE IdentityMap
  <2>1. halted' = "no"
    BY <1>4, IdentityMapKeeps
  <2> QED BY <1>4, <2>1, IdentityMapKeepsImages
<1>5. CASE MapPage
  BY <1>5, MapPageKeepsImages
<1>6. CASE SetPaging
  BY <1>6, SetPagingKeepsImages
<1>7. CASE AllocateStack
  BY <1>7, AllocateStackKeepsImages
<1>8. CASE Clone
  BY <1>8, CloneKeepsImages
<1>9. CASE LoadArguments
  BY <1>9, LoadArgumentsKeepsImages
<1>10. CASE TakeWand
  BY <1>10, TakeWandKeepsImages
<1>11. CASE CopyPart
  BY <1>11, CopyPartKeepsImages
<1>12. CASE PutWandBack
  BY <1>12, PutWandBackKeepsImages
<1>13. CASE MapDevice
  BY <1>13, MapDeviceKeepsImages
<1>14. CASE SwitchToInitial
  BY <1>14, SwitchToInitialKeepsImages
<1>15. CASE \E i \in DOMAIN tasks : SwitchTo(i)
  BY <1>15, SwitchToKeepsImages
<1>16. CASE \E program \in Programs : Spawn(program)
  BY <1>16, SpawnKeepsImages
<1>17. CASE \E s \in DevicePages : MapPhysicalMem(s)
  BY <1>17, MapPhysicalMemKeepsImages
<1>18. CASE \E i \in DOMAIN tasks : DumpCore(i)
  <2>1. PICK i \in DOMAIN tasks : DumpCore(i)
    BY <1>18
  <2>2. CASE halted' = "no"
    BY <2>1, <2>2, DumpCoreKeepsImages
  <2>3. CASE halted' # "no"
    <3>1. Panic("no_hole")
      BY <2>1, <2>3 DEF DumpCore
    <3> QED BY <3>1, PanicKeepsMemory
  <2> QED BY <2>2, <2>3
<1>19. CASE TakeOther \/ \E p \in others : FreeOther(p)
  BY <1>19, OthersKeepImages
<1>20. CASE OutOfHeap
  <2>1. Panic("no_hole")
    BY <1>20 DEF OutOfHeap
  <2> QED BY <2>1, PanicKeepsMemory
<1>21. CASE NoFrameFor
  <2>1. PICK what \in {"page_has_a_frame", "no_frames_free"} : Panic(what)
    BY <1>21 DEF NoFrameFor
  <2>2. what # "no"
    OBVIOUS
  <2> QED BY <2>1, <2>2, PanicKeepsMemory
<1> QED
  BY <1>1, <1>2, <1>3, <1>4, <1>5, <1>6, <1>7, <1>8, <1>9, <1>10, <1>11, <1>12, <1>13, <1>14,
     <1>15, <1>16, <1>17, <1>18, <1>19, <1>20, <1>21, Zenon DEF MemoryNext

\* ImageInv is inductive with MemoryInv and SpacesInv: whatever the kernel does, what
\* the ELF loader, CopyPart and LoadArguments have put into the memory of a task stays
\* there, and the pages of the heap through which they copy are mapped.
THEOREM MemoryKeepsImages == MemorySpec => []ImageInv
<1>1. MemoryInit => ImageInv
  <2> SUFFICES ASSUME MemoryInit PROVE ImageInv
    OBVIOUS
  <2>1. directories = <<>> /\ frames = {}
    BY DEF MemoryInit
  <2>2. DOMAIN memory = 0 .. Words * WordBits * PageSize - 1
    BY DEF MemoryInit
  <2> QED BY <2>1, <2>2 DEF ImageInv, MemoryFits
<1>2. MemoryInv /\ SpacesInv /\ ImageInv /\ [MemoryNext]_memoryVars => ImageInv'
  <2> SUFFICES ASSUME MemoryInv, SpacesInv, ImageInv, [MemoryNext]_memoryVars PROVE ImageInv'
    OBVIOUS
  <2>1. CASE UNCHANGED memoryVars
    <3>1. UNCHANGED spacesVars /\ memory' = memory /\ todo' = todo /\ halted' = halted
      BY <2>1 DEF memoryVars, spacesVars
    <3> QED BY <3>1, ImagesHold
  <2>2. CASE halted # "no" /\ MemoryNext
    BY <2>1, <2>2, HaltedStays DEF Halted
  <2>3. MemoryFits
    BY DEF ImageInv
  <2>4. CASE halted = "no" /\ MemoryNext /\ Early
    <3>1. directories = <<>>
      BY <2>4, EarlyHasNoSpaces
    <3>2. CASE Alloc
      <4>1. directories' = <<>> /\ memory' = memory /\ frames' = frames
        BY <3>1, <3>2 DEF Alloc, Place, spaces
      <4> QED BY <2>3, <4>1, MemoryStaysFit DEF ImageInv
    <3>3. CASE AllocateKernelDirectory
      BY <2>3, <2>4, <3>3, DirectoryKeepsImages DEF ImageInv
    <3>4. CASE OutOfHeap
      <4>1. Panic("no_hole")
        BY <3>4 DEF OutOfHeap
      <4> QED BY <2>3, <4>1, PanicKeepsMemory DEF ImageInv
    <3> QED BY <2>4, <3>2, <3>3, <3>4, EarlyDoes
  <2>5. CASE halted = "no" /\ MemoryNext /\ Working
    <3>1. FramesApart
      BY DEF MemoryInv
    <3>2. directories # <<>>
      BY <2>5, WorkingHasSpaces
    <3>3. MapsFit /\ OrderFits
      BY <2>5, <3>2 DEF SpacesInv
    <3>4. HeapMapped /\ TasksLoaded
      BY <2>5, <3>2 DEF ImageInv
    <3>5. MemoryFits' /\ (halted' = "no" => HeapMapped' /\ TasksLoaded')
      BY <2>3, <2>5, <3>1, <3>3, <3>4, ImagesGoOn
    <3> QED BY <3>5 DEF ImageInv
  <2> QED BY <2>1, <2>2, <2>4, <2>5 DEF MemoryInv, Working
<1> QED BY <1>1, <1>2, MemoryKeepsInv, MemoryKeepsSpaces, PTL DEF MemorySpec

\* What is held is there to be read.
LEMMA HeldIsThere ==
  ASSUME NEW d, NEW a, NEW v, InPlace(d, a, v)
  PROVE  Holds(d, a, v)
<1>1. PICK p : p = a \div PageSize
  OBVIOUS
<1>2. HasFrame(d, p) /\ memory[FrameOf(d, p) * PageSize + (a % PageSize)] = v
  BY <1>1 DEF InPlace, CellOf
<1>3. TableOf(d, p) # 0
  BY <1>2 DEF HasFrame, FrameOf
<1>4. FrameOf(d, p) = pages[TableOf(d, p)][p % Entries]
  BY <1>3 DEF FrameOf
<1>5. Cell(pages, d, a) = FrameOf(d, p) * PageSize + (a % PageSize)
  BY <1>1, <1>4 DEF Cell
<1> QED BY <1>1, <1>2, <1>3, <1>5 DEF Holds

\* ImagesAreLoaded, whatever programs are run, in whatever order: a task finds its
\* image and its arguments where they should be, and no other task, no core dump and
\* no allocation of the kernel writes over them.
THEOREM ImagesAreAlwaysLoaded == MemorySpec => []ImagesAreLoaded
<1>1. MemoryInv /\ ImageInv => ImagesAreLoaded
  <2> SUFFICES ASSUME MemoryInv, ImageInv, IsIdle, NEW i \in DOMAIN tasks
               PROVE  LET program == tasks[i].program
                          d == tasks[i].directory
                      IN  /\ \A j \in DOMAIN program.segments :
                               LET s == program.segments[j]
                               IN  \A k \in 0 .. s.memsz - 1 :
                                     Holds(d, s.virt + k,
                                           IF k < s.filesz THEN Image(program.name, j, k) ELSE Zero)
                          /\ program.kind \in {"elf", "not_elf"} =>
                               Holds(d, TaskStack[1] * PageSize + PageSize - 1, Arguments(i))
    BY Zenon DEF ImagesAreLoaded
  <2>1. halted = "no" /\ todo = <<>>
    BY DEF IsIdle
  <2>2. tasks # <<>>
    OBVIOUS
  <2>3. Working
    <3>1. ~Early
      BY <2>2 DEF Early
    <3> QED BY <2>1, <3>1 DEF MemoryInv, Working
  <2>4. AtHandOf(i) = <<>>
    BY <2>1, IdleNow DEF AtHandOf
  <2>5. SegmentsLoaded(tasks[i], <<>>) /\ ArgumentsLoaded(tasks[i], i, <<>>)
    BY <2>1, <2>3, <2>4, WorkingHasSpaces DEF ImageInv, TasksLoaded
  <2>6. PICK task, program, d : task = tasks[i] /\ program = task.program /\ d = task.directory
    OBVIOUS
  <2>7. ASSUME NEW j \in DOMAIN program.segments, NEW s, s = program.segments[j],
               NEW k \in 0 .. s.memsz - 1
        PROVE  Holds(d, s.virt + k, IF k < s.filesz THEN Image(program.name, j, k) ELSE Zero)
    <3>1. IsCopiedTo(<<>>, j, k)
      BY DEF IsCopiedTo
    <3>2. InPlace(d, s.virt + k, Byte(program, j, k))
      BY <2>5, <2>6, <2>7, <3>1 DEF SegmentsLoaded
    <3> QED BY <2>7, <3>2, HeldIsThere DEF Byte
  <2>8. ASSUME program.kind \in {"elf", "not_elf"} PROVE Holds(d, StackTop, Arguments(i))
    <3>1. \A n \in DOMAIN <<>> : FALSE
      OBVIOUS
    <3>2. InPlace(d, StackTop, Arguments(i))
      BY <2>5, <2>6, <2>8, <3>1 DEF ArgumentsLoaded
    <3> QED BY <3>2, HeldIsThere
  <2> QED BY <2>6, <2>7, <2>8 DEF StackTop
<1> QED BY <1>1, MemoryKeepsInv, MemoryKeepsImages, PTL
=============================================================================
