---------------------------- MODULE Disk_proofs ------------------------------
(***************************************************************************)
(* The driver of the disk (Mindrvr), and above it the service that makes   *)
(* transfers of sectors out of requests (Ata, whose state Fat has) and the *)
(* file system that reads through it (Fat).                                *)
(*                                                                         *)
(* The driver: for any drives, sectors, buffers and lists, however the     *)
(* drive answers, after a failure it moves nothing any more, and until     *)
(* then it does what DiskCommands promises.                                *)
(*                                                                         *)
(* The first: sub_select fails once there was an error, but only for a     *)
(* drive that it knows.  So the argument needs that the service does not   *)
(* get beyond the boot record without a known drive, which the signature   *)
(* of the record sees to (MindrvrInv).                                     *)
(*                                                                         *)
(* The second: without an error, driver and drive agree at every place how *)
(* far the command is, the drive has spoken whenever the driver looks, and *)
(* an interrupt is taken once (CommandInv); an error has a cause in the    *)
(* hardware.  What the bus master moves then follows from what set_up_xfer *)
(* writes: the list stands for the addresses of the buffer in their order  *)
(* (PrdListCovers), and it is never too long (PrdListFits).                *)
(*                                                                         *)
(* The service: for any size of a sector and of a command, and wherever a  *)
(* request begins and ends, its head, whole sectors and tail together are  *)
(* the cells that it names (SplitIs), and the commands for the sectors are *)
(* one read or write of them (ReadSectorsIs, WriteSectorsIs).  So ata does *)
(* what FlatDisk promises.                                                 *)
(*                                                                         *)
(* fat: nobody writes before the data, so the entries of the FAT stay what *)
(* they were and link the clusters of the volume to a chain (FatInv,       *)
(* ChainIs).  The clusters that it leads to are stretches of what the      *)
(* chain holds (ContentIs), so on its way a read has always copied what    *)
(* lies before the place where it is (OnTheWay), and every iteration of    *)
(* its loops brings it nearer to the end (GetsOn).                         *)
(***************************************************************************)
EXTENDS Mindrvr, FatProperties, SequenceLemmas, FiniteSetTheorems, TLAPS

\* Why a failure is for good: while there is an error, the driver is in no place
\* where it would move data, and what it waits for is the boot record; a bus
\* master only runs while its command waits.
Transferring == {"in", "inCheck", "poll", "out", "outCheck", "next", "dma"}
ErrorsEnd ==
  /\ ec # 0 => at \notin Transferring /\ (at = "wait" => request.op = "read")
  /\ bm.start => at \in {"wait", "dma"} /\ request.op = "dma"

\* A drive that is not back from the reset has left an error; one that is not
\* there stays silent.
Detecting == {"config", "reset0", "reset1"}
DrivesAreFound ==
  /\ at # "config" => (types[0] = "none" => kinds[0] = "none")
  /\ at # "config" => (kinds[0] = "none" => types[0] = "none")
  /\ kinds[0] = "none" => hits = 0 /\ ~drive.bsy
  /\ at = "reset1" /\ types[0] # "none" /\ drive.bsy => ec # 0
  /\ at \notin Detecting /\ types[0] = "unknown" => ec # 0
  /\ types[0] \in {"none", "unknown", "ATA", "ATAPI"}

\* Without drive 0 there is no boot record, and the service does not come up.
Unsigned == memory[MbrBuffer + SectorSize - 1] # Signature
BootNeedsDrive ==
  /\ at \in Detecting \cup {"found"} => Unsigned
  /\ at \notin Detecting \cup {"found", "exited"} /\ types[0] \notin {"ATA", "ATAPI"} =>
       /\ at \in {"select", "wait", "panicked"} /\ Unsigned
       /\ request.op = "read" /\ request.buffer = MbrBuffer

\* Records have their fields, and the boot record its place.
Records ==
  /\ bm = [int |-> bm.int, err |-> bm.err, start |-> bm.start, prds |-> bm.prds]
  /\ drive = [bsy |-> drive.bsy, drq |-> drive.drq, err |-> drive.err, op |-> drive.op,
              sector |-> drive.sector, left |-> drive.left]
  /\ request = [op |-> request.op, sector |-> request.sector, count |-> request.count,
                buffer |-> request.buffer]
  /\ DOMAIN memory = 0 .. MemorySize - 1
  /\ kinds[0] \in {"none", "ATA", "ATAPI"}

\* Inductive invariant.
MindrvrInv == Records /\ ErrorsEnd /\ DrivesAreFound /\ BootNeedsDrive

\* The types that sub_select waits for.
Known == {"ATA", "ATAPI"}

LEMMA InitInv == Init => MindrvrInv
<1> SUFFICES ASSUME Init PROVE MindrvrInv
  OBVIOUS
<1>1. Records
  <2>1. kinds[0] \in {"none", "ATA", "ATAPI"}
    BY MindrvrAssumption DEF Init
  <2>2. DOMAIN memory = 0 .. MemorySize - 1
    BY DEF Init
  <2>3. /\ bm = [int |-> bm.int, err |-> bm.err, start |-> bm.start, prds |-> bm.prds]
        /\ drive = [bsy |-> drive.bsy, drq |-> drive.drq, err |-> drive.err, op |-> drive.op,
                    sector |-> drive.sector, left |-> drive.left]
        /\ request = [op |-> request.op, sector |-> request.sector, count |-> request.count,
                      buffer |-> request.buffer]
    BY DEF Init, IdleDrive, NoRequest
  <2> QED BY <2>1, <2>2, <2>3 DEF Records
<1>2. ErrorsEnd
  BY DEF Init, ErrorsEnd
<1>3. DrivesAreFound
  BY DEF Init, DrivesAreFound, IdleDrive
<1>4. BootNeedsDrive
  <2> DEFINE x == MbrBuffer + SectorSize - 1
  <2>1. x \in 0 .. MemorySize - 1 /\ x \in 0 .. MemorySize
    BY MindrvrAssumption
  <2>2. Signature # <<"memory", x>>
    BY <2>1, MindrvrAssumption
  <2>3. memory[x] = <<"memory", x>>
    BY <2>1 DEF Init
  <2>4. Unsigned
    BY <2>2, <2>3 DEF Unsigned
  <2> QED BY <2>4 DEF Init, BootNeedsDrive, Detecting
<1> QED BY <1>1, <1>2, <1>3, <1>4 DEF MindrvrInv

-----------------------------------------------------------------------------
(* What the steps have in common.                                          *)

\* The hardware answers: the driver stays where it is.
LEMMA HardwareKeepsInv ==
  ASSUME MindrvrInv, UNCHANGED <<at, ec, types, request, kinds>>, Records',
         bm'.start => bm.start, drive'.bsy => drive.bsy, ~drive.bsy => hits' = hits,
         Unsigned => Unsigned'
  PROVE  MindrvrInv'
<1> USE DEF MindrvrInv
<1>1. ErrorsEnd'
  BY DEF ErrorsEnd
<1>2. DrivesAreFound'
  BY DEF DrivesAreFound
<1>3. BootNeedsDrive'
  BY DEF BootNeedsDrive
<1> QED BY <1>1, <1>2, <1>3

\* A command of a known drive goes on: there was no error.
LEMMA GoingOnKeepsInv ==
  ASSUME MindrvrInv, at \notin Detecting, types[0] \in Known, ec = 0, ec' = 0,
         at' \in Transferring \cup {"wait"}, UNCHANGED <<request, types, kinds>>, Records',
         bm'.start => at' \in {"wait", "dma"} /\ request.op = "dma"
  PROVE  MindrvrInv'
<1> USE DEF MindrvrInv, Known
<1>1. ErrorsEnd'
  BY DEF ErrorsEnd
<1>2. kinds[0] # "none" /\ at' \notin Detecting \cup {"found"}
  BY DEF DrivesAreFound, Detecting, Transferring
<1>3. DrivesAreFound'
  BY <1>2 DEF DrivesAreFound, Detecting
<1>4. BootNeedsDrive'
  BY <1>2 DEF BootNeedsDrive
<1> QED BY <1>1, <1>3, <1>4

\* A command ends: it was not the boot record, or main looks at it.
LEMMA EndKeepsInv ==
  ASSUME MindrvrInv, at \notin Detecting \cup {"found", "exited"}, NEW e, End(e),
         types[0] = "unknown" => e # 0,
         UNCHANGED <<request, types, kinds, memory>>, Records', ~bm'.start,
         drive'.bsy => drive.bsy, hits = 0 => hits' = 0
  PROVE  MindrvrInv'
<1> USE DEF MindrvrInv
<1>1. at' \in {"panicked", "idle"} /\ ec' = e
  BY DEF End
<1>2. ErrorsEnd'
  BY <1>1 DEF ErrorsEnd, Transferring
<1>3. DrivesAreFound'
  BY <1>1 DEF DrivesAreFound, Detecting
<1>4. BootNeedsDrive'
  <2>1. CASE types[0] \in Known
    BY <1>1, <2>1 DEF BootNeedsDrive, Detecting, Known
  <2>2. CASE types[0] \notin Known
    <3>1. Unsigned /\ request.op = "read" /\ request.buffer = MbrBuffer
      BY <2>2 DEF BootNeedsDrive, Detecting, Known
    <3>2. at' = "panicked"
      BY <3>1 DEF End, Unsigned
    <3> QED BY <3>1, <3>2 DEF BootNeedsDrive, Detecting, Unsigned
  <2> QED BY <2>1, <2>2
<1> QED BY <1>2, <1>3, <1>4

\* main begins with a request: a drive is known, and nothing is under way.
LEMMA RequestKeepsInv ==
  ASSUME MindrvrInv, at = "idle", at' \in {"idle", "select"}, ec = 0 \/ ec' # 0,
         UNCHANGED <<types, kinds, hits, drive>>, Records', ~bm'.start
  PROVE  MindrvrInv'
<1> USE DEF MindrvrInv
<1>1. types[0] \in Known /\ kinds[0] # "none"
  BY DEF BootNeedsDrive, DrivesAreFound, Detecting, Known
<1>2. ErrorsEnd'
  BY DEF ErrorsEnd, Transferring
<1>3. DrivesAreFound'
  BY <1>1 DEF DrivesAreFound, Detecting, Known
<1>4. BootNeedsDrive'
  BY <1>1 DEF BootNeedsDrive, Detecting, Known
<1> QED BY <1>2, <1>3, <1>4

\* While data moves, the drive is known and there was no error.
LEMMA TransferringIsSound ==
  ASSUME MindrvrInv, at \in Transferring
  PROVE  /\ at \notin Detecting \cup {"found", "exited"} /\ types[0] \in Known /\ ec = 0
         /\ at # "dma" => ~bm.start
<1>1. at \notin Detecting \cup {"found", "exited", "select", "wait", "panicked"}
  BY DEF Transferring, Detecting
<1> QED BY <1>1 DEF MindrvrInv, ErrorsEnd, BootNeedsDrive, Known

-----------------------------------------------------------------------------
(* The hardware.                                                           *)

LEMMA AnswerKeepsInv == ASSUME MindrvrInv, Answer PROVE MindrvrInv'
<1> USE DEF MindrvrInv, Answer, Interrupt, driverVars, lines
<1>1. Records'
  BY DEF Records
<1>2. bm'.start => bm.start
  BY DEF Records
<1>3. drive.bsy
  OBVIOUS
<1>4. Unsigned => Unsigned'
  BY DEF Unsigned
<1> QED BY <1>1, <1>2, <1>3, <1>4, HardwareKeepsInv

LEMMA DriveFailsKeepsInv == ASSUME MindrvrInv, DriveFails PROVE MindrvrInv'
<1> USE DEF MindrvrInv, DriveFails, Interrupt, driverVars, lines
<1>1. Records'
  BY DEF Records
<1>2. bm'.start => bm.start
  BY DEF Records
<1>3. drive.bsy
  OBVIOUS
<1>4. Unsigned => Unsigned'
  BY DEF Unsigned
<1> QED BY <1>1, <1>2, <1>3, <1>4, HardwareKeepsInv

\* The bus master runs for no boot record.
LEMMA BusMasterMovesKeepsInv == ASSUME MindrvrInv, BusMasterMoves PROVE MindrvrInv'
<1> USE DEF MindrvrInv, BusMasterMoves, driverVars, lines
<1>1. bm.start /\ drive.bsy /\ UNCHANGED <<at, ec, types, request, kinds, bm, hits>>
  OBVIOUS
<1>2. DOMAIN memory' = DOMAIN memory
  OBVIOUS
<1>3. drive' = [drive EXCEPT !.sector = @ + 1, !.left = @ - 1]
  OBVIOUS
<1>4. Records'
  BY <1>1, <1>2, <1>3 DEF Records
<1>5. at \in {"wait", "dma"} /\ request.op = "dma"
  BY <1>1 DEF ErrorsEnd
<1>6. ErrorsEnd'
  BY <1>1 DEF ErrorsEnd
<1>7. DrivesAreFound'
  BY <1>1 DEF DrivesAreFound
<1>8. BootNeedsDrive'
  BY <1>1, <1>5 DEF BootNeedsDrive, Detecting
<1> QED BY <1>4, <1>6, <1>7, <1>8

LEMMA ResetEndsKeepsInv == ASSUME MindrvrInv, ResetEnds PROVE MindrvrInv'
<1> USE DEF MindrvrInv, ResetEnds, driverVars, lines
<1>1. drive' = drive \/ drive' = IdleDrive
  OBVIOUS
<1>2. Records'
  BY <1>1 DEF Records, IdleDrive
<1>3. ~drive'.bsy \/ drive' = drive
  BY <1>1 DEF IdleDrive
<1>4. Unsigned => Unsigned'
  BY DEF Unsigned
<1> QED BY <1>2, <1>3, <1>4, HardwareKeepsInv

-----------------------------------------------------------------------------
(* Detection.                                                              *)

LEMMA DetectKeepsInv == ASSUME MindrvrInv, Detect PROVE MindrvrInv'
<1> USE DEF MindrvrInv
<1>1. /\ at = "config" /\ at' = "reset0"
      /\ types'[0] = (IF kinds[0] = "none" THEN "none" ELSE "unknown")
      /\ drive' = IF kinds[0] = "none" THEN drive ELSE [IdleDrive EXCEPT !.bsy = TRUE, !.op = "reset"]
      /\ UNCHANGED <<request, bm, ec, hits, kinds, memory>>
  BY DEF Detect, lines
<1>2. Records'
  BY <1>1 DEF Records, IdleDrive
<1>3. ErrorsEnd'
  BY <1>1 DEF ErrorsEnd, Transferring
<1>4. DrivesAreFound'
  BY <1>1 DEF DrivesAreFound, Detecting
<1>5. BootNeedsDrive'
  BY <1>1 DEF BootNeedsDrive, Unsigned, Detecting
<1> QED BY <1>2, <1>3, <1>4, <1>5

LEMMA AwaitDrive0KeepsInv == ASSUME MindrvrInv, AwaitDrive0 PROVE MindrvrInv'
<1> USE DEF MindrvrInv
<1>1. /\ at = "reset0" /\ at' = "reset1"
      /\ (types[0] # "none" /\ drive.bsy => ec' = 1)
      /\ UNCHANGED <<request, types, bm, hits, kinds, drive, memory>>
  BY DEF AwaitDrive0, driverVars
<1>2. Records'
  BY <1>1 DEF Records
<1>3. ErrorsEnd'
  BY <1>1 DEF ErrorsEnd, Transferring
<1>4. DrivesAreFound'
  <2>1. /\ types[0] = "none" => kinds[0] = "none"
        /\ kinds[0] = "none" => types[0] = "none" /\ hits = 0 /\ ~drive.bsy
        /\ types[0] \in {"none", "unknown", "ATA", "ATAPI"}
    BY <1>1 DEF DrivesAreFound
  <2>2. ASSUME types[0] # "none", drive.bsy PROVE ec' # 0
    <3>1. ec' = 1
      BY <1>1, <2>2
    <3> QED BY <3>1
  <2> QED BY <1>1, <2>1, <2>2 DEF DrivesAreFound, Detecting
<1>5. BootNeedsDrive'
  BY <1>1 DEF BootNeedsDrive, Unsigned, Detecting
<1> QED BY <1>2, <1>3, <1>4, <1>5

\* Drive 0 stays unknown only where the first wait was too short.
LEMMA AwaitDrive1KeepsInv == ASSUME MindrvrInv, AwaitDrive1 PROVE MindrvrInv'
<1> USE DEF MindrvrInv
<1>1. /\ at = "reset1" /\ at' = "found"
      /\ types'[0] = Classify(0, drive.bsy)
      /\ UNCHANGED <<request, bm, hits, kinds, drive, memory>>
  BY DEF AwaitDrive1, lines
<1>2. ec # 0 => ec' # 0
  <2>1. ec' = 2 \/ ec' = 3 \/ ec' = ec
    BY DEF AwaitDrive1
  <2> QED BY <2>1
<1>3. Records'
  BY <1>1 DEF Records
<1>4. ErrorsEnd'
  BY <1>1 DEF ErrorsEnd, Transferring
<1>5. kinds[0] \in {"none", "ATA", "ATAPI"}
  BY DEF Records
<1>6. DrivesAreFound'
  <2>1. CASE types[0] = "unknown" /\ ~drive.bsy
    BY <1>1, <1>5, <2>1 DEF DrivesAreFound, Detecting, Classify
  <2>2. CASE ~(types[0] = "unknown" /\ ~drive.bsy)
    <3>1. types'[0] = types[0]
      BY <1>1, <2>2 DEF Classify
    <3> QED BY <1>1, <1>2, <2>2, <3>1 DEF DrivesAreFound, Detecting
  <2> QED BY <2>1, <2>2
<1>7. BootNeedsDrive'
  BY <1>1 DEF BootNeedsDrive, Unsigned, Detecting
<1> QED BY <1>3, <1>4, <1>6, <1>7

LEMMA ReadBootRecordKeepsInv == ASSUME MindrvrInv, ReadBootRecord PROVE MindrvrInv'
<1> USE DEF MindrvrInv
<1>1. /\ at = "found"
      /\ UNCHANGED <<types, ec, bm, hits, kinds, drive, memory>>
      /\ \/ at' = "exited" /\ request' = request
         \/ /\ at' = "select"
            /\ request' = [op |-> "read", sector |-> 0, count |-> 1, buffer |-> MbrBuffer]
  BY DEF ReadBootRecord, lines
<1>2. Records'
  BY <1>1 DEF Records
<1>3. ErrorsEnd'
  BY <1>1 DEF ErrorsEnd, Transferring
<1>4. DrivesAreFound'
  BY <1>1 DEF DrivesAreFound, Detecting
<1>5. BootNeedsDrive'
  <2>1. Unsigned'
    BY <1>1 DEF BootNeedsDrive, Unsigned
  <2>2. CASE at' = "exited"
    BY <2>2 DEF BootNeedsDrive, Detecting
  <2>3. CASE at' = "select" /\ request'.op = "read" /\ request'.buffer = MbrBuffer
    BY <2>1, <2>3 DEF BootNeedsDrive, Detecting
  <2> QED BY <1>1, <2>2, <2>3
<1> QED BY <1>2, <1>3, <1>4, <1>5

-----------------------------------------------------------------------------
(* Requests.                                                               *)

\* Between commands the bus master does not run.
LEMMA IdleIsStill == ASSUME MindrvrInv, at = "idle" PROVE ~bm.start
  BY DEF MindrvrInv, ErrorsEnd

LEMMA StartPioKeepsInv ==
  ASSUME MindrvrInv, NEW op, NEW sector, NEW n, NEW buffer, StartPio(op, sector, n, buffer)
  PROVE  MindrvrInv'
<1>1. /\ at = "idle" /\ at' = "select"
      /\ request' = [op |-> op, sector |-> sector, count |-> n, buffer |-> buffer]
      /\ bm' = [bm EXCEPT !.err = @ /\ ~dma]
      /\ UNCHANGED <<ec, types, hits, kinds, drive, memory>>
  BY DEF StartPio, MayStart, Begin
<1>2. Records'
  BY <1>1 DEF MindrvrInv, Records
<1>3. ~bm'.start
  BY <1>1, IdleIsStill DEF MindrvrInv, Records
<1> QED BY <1>1, <1>2, <1>3, RequestKeepsInv

LEMMA StartDmaKeepsInv ==
  ASSUME MindrvrInv, NEW sector, NEW n, NEW buffer, StartDma(sector, n, buffer)
  PROVE  MindrvrInv'
<1> DEFINE p == PrdList(buffer, n * SectorSize)
<1>1. /\ at = "idle" /\ at' \in {"idle", "select"} /\ (ec = 0 \/ ec' # 0)
      /\ request' = [op |-> "dma", sector |-> sector, count |-> n, buffer |-> buffer]
      /\ bm' = [int |-> FALSE, err |-> FALSE, start |-> FALSE, prds |-> p]
      /\ UNCHANGED <<types, hits, kinds, drive, memory>>
  BY DEF StartDma, MayStart, Begin
<1> HIDE DEF p
<1>2. Records'
  BY <1>1 DEF MindrvrInv, Records
<1> QED BY <1>1, <1>2, RequestKeepsInv

LEMMA SetBar4KeepsInv == ASSUME MindrvrInv, SetBar4 PROVE MindrvrInv'
<1>1. /\ at = "idle" /\ UNCHANGED <<at, ec, request, types, bm, hits, kinds, drive, memory>>
  BY DEF SetBar4, lines
<1>2. Records'
  BY <1>1 DEF MindrvrInv, Records
<1> QED BY <1>1, <1>2, IdleIsStill, RequestKeepsInv

-----------------------------------------------------------------------------
(* A command, from its selection to its end.                               *)

\* Once the driver has looked for the drives it has their error.
LEMMA UnknownIsAnError ==
  ASSUME MindrvrInv, at \in Transferring \cup {"select", "wait"}
  PROVE  /\ types[0] = "unknown" => ec # 0
         /\ types[0] \in {"none", "unknown", "ATA", "ATAPI"}
         /\ types[0] = "none" => hits = 0
         /\ at \notin Detecting \cup {"found", "exited"}
<1>1. at \notin Detecting \cup {"config", "found", "exited"}
  BY DEF Transferring, Detecting
<1> QED BY <1>1 DEF MindrvrInv, DrivesAreFound

\* The drive takes the command.
LEMMA IssueKeepsRecords ==
  ASSUME MindrvrInv, Issue, UNCHANGED <<request, kinds, memory>>
  PROVE  /\ Records' /\ (drive'.bsy => drive.bsy \/ kinds[0] # "none")
         /\ bm'.start => request.op = "dma"
<1>1. /\ drive' = Accept(request.op, request.sector, request.count % MaxTransfer)
      /\ bm' = [bm EXCEPT !.start = (request.op = "dma")]
  BY DEF Issue
<1>2. \/ drive' = drive
      \/ /\ kinds[0] # "none"
         /\ \E op, n, a : drive' = [bsy |-> TRUE, drq |-> FALSE, err |-> FALSE,
                                    op |-> op, sector |-> a, left |-> n]
  BY <1>1 DEF Accept
<1>3. drive' = [bsy |-> drive'.bsy, drq |-> drive'.drq, err |-> drive'.err, op |-> drive'.op,
                sector |-> drive'.sector, left |-> drive'.left]
  BY <1>2 DEF MindrvrInv, Records
<1>4. bm' = [int |-> bm'.int, err |-> bm'.err, start |-> bm'.start, prds |-> bm'.prds]
  BY <1>1 DEF MindrvrInv, Records
<1>5. bm'.start => request.op = "dma"
  BY <1>1 DEF MindrvrInv, Records
<1>6. drive'.bsy => drive.bsy \/ kinds[0] # "none"
  BY <1>2
<1>7. Records'
  BY <1>3, <1>4 DEF MindrvrInv, Records
<1> QED BY <1>5, <1>6, <1>7

\* With an error only the boot record is asked for, of a drive that is not known.
LEMMA SelectKeepsInv == ASSUME MindrvrInv, Select PROVE MindrvrInv'
<1>1. at = "select" /\ UNCHANGED <<request, types, kinds, memory, hits>>
  BY DEF Select, driverVars
<1>2. ~bm.start
  BY <1>1 DEF MindrvrInv, ErrorsEnd
<1>3. CASE End(ec) /\ UNCHANGED <<drive, bm>>
  <2>1. Records'
    BY <1>1, <1>3 DEF MindrvrInv, Records
  <2>2. /\ types[0] = "unknown" => ec # 0
        /\ at \notin Detecting \cup {"found", "exited"}
    BY <1>1, UnknownIsAnError
  <2> QED BY <1>1, <1>2, <1>3, <2>1, <2>2, EndKeepsInv
<1>4. ASSUME Issue
      PROVE  /\ Records' /\ (drive'.bsy => drive.bsy \/ kinds[0] # "none")
             /\ bm'.start => request.op = "dma"
             /\ ec' = ec
             /\ at' = IF request.op = "write" THEN "poll" ELSE "wait"
  <2>1. /\ Records' /\ (drive'.bsy => drive.bsy \/ kinds[0] # "none")
        /\ bm'.start => request.op = "dma"
    BY <1>1, <1>4, IssueKeepsRecords
  <2> QED BY <1>4, <2>1 DEF Issue, Continue
<1>5. CASE types[0] \in Known /\ ec = 0 /\ Issue
  <2>1. at' \in Transferring \cup {"wait"}
    BY <1>4, <1>5 DEF Transferring
  <2>2. bm'.start => at' \in {"wait", "dma"} /\ request.op = "dma"
    BY <1>4, <1>5
  <2>3. at \notin Detecting
    BY <1>1 DEF Detecting
  <2> QED BY <1>1, <1>4, <1>5, <2>1, <2>2, <2>3, GoingOnKeepsInv
<1>6. CASE types[0] \in {"none", "unknown"} /\ Issue
  <2>1. Unsigned /\ request.op = "read" /\ request.buffer = MbrBuffer
    BY <1>1, <1>6 DEF MindrvrInv, BootNeedsDrive, Detecting
  <2>2. at' = "wait" /\ ec' = ec /\ Records' /\ ~bm'.start
    BY <1>4, <1>6, <2>1
  <2>3. ErrorsEnd'
    BY <1>1, <2>1, <2>2 DEF ErrorsEnd, Transferring
  <2>4. kinds[0] = "none" => hits' = 0 /\ ~drive'.bsy
    BY <1>1, <1>4, <1>6, <2>2 DEF MindrvrInv, DrivesAreFound
  <2>5. DrivesAreFound'
    BY <1>1, <2>2, <2>4 DEF MindrvrInv, DrivesAreFound, Detecting
  <2>6. BootNeedsDrive'
    BY <1>1, <2>1, <2>2 DEF BootNeedsDrive, Unsigned, Detecting
  <2> QED BY <2>2, <2>3, <2>5, <2>6 DEF MindrvrInv
<1>7. \/ types[0] \in {"none", "unknown"} /\ Issue
      \/ types[0] \in Known /\ ec = 0 /\ Issue
      \/ End(ec) /\ UNCHANGED <<drive, bm>>
  BY DEF Select, SelectFails, Known
<1> QED BY <1>3, <1>5, <1>6, <1>7

LEMMA SelectTimesOutKeepsInv == ASSUME MindrvrInv, SelectTimesOut PROVE MindrvrInv'
<1>1. /\ at = "select" /\ End(11) /\ UNCHANGED <<request, types, kinds, memory, hits, drive, bm>>
  BY DEF SelectTimesOut, driverVars
<1>2. ~bm.start /\ Records'
  BY <1>1 DEF MindrvrInv, ErrorsEnd, Records
<1>3. at \notin Detecting \cup {"found", "exited"} /\ 11 # 0
  BY <1>1 DEF Detecting
<1> QED BY <1>1, <1>2, <1>3, EndKeepsInv

\* Without drive 0 no interrupt comes; with an error the wait is for the record.
LEMMA WaitKeepsInv == ASSUME MindrvrInv, Wait PROVE MindrvrInv'
<1>1. /\ at = "wait" /\ hits # 0
      /\ bm' = [bm EXCEPT !.int = @ /\ ~dma]
      /\ UNCHANGED <<request, types, kinds, memory, drive>>
  BY DEF Wait, TakeStatus, driverVars
<1>2. /\ Records'
      /\ bm'.start => bm.start
  BY <1>1 DEF MindrvrInv, Records
<1>3. /\ types[0] = "unknown" => ec # 0
      /\ types[0] \in {"unknown", "ATA", "ATAPI"}
      /\ at \notin Detecting \cup {"found", "exited"}
  BY <1>1, UnknownIsAnError
<1>4. CASE ec # 0
  <2>1. request.op = "read" /\ ~bm.start
    BY <1>1, <1>4 DEF MindrvrInv, ErrorsEnd
  <2>2. End(Final(ec))
    BY <1>4, <2>1 DEF Wait
  <2>3. Final(ec) # 0
    BY <1>4 DEF Final
  <2> QED BY <1>1, <1>2, <1>3, <2>1, <2>2, <2>3, EndKeepsInv
<1>5. CASE ec = 0
  <2>1. at' = AfterWait /\ ec' = 0
    BY <1>5 DEF Wait, Continue
  <2>2. at' \in Transferring /\ (request.op = "dma" => at' = "dma")
    BY <2>1 DEF AfterWait, Transferring
  <2>3. bm.start => request.op = "dma"
    BY DEF MindrvrInv, ErrorsEnd
  <2> QED BY <1>1, <1>2, <1>3, <1>5, <2>1, <2>2, <2>3, GoingOnKeepsInv DEF Known
<1> QED BY <1>4, <1>5

LEMMA WaitTimesOutKeepsInv == ASSUME MindrvrInv, WaitTimesOut PROVE MindrvrInv'
<1> DEFINE e == IF request.op = "dma" THEN 73 ELSE Final(TimeOutCode)
<1>1. /\ at = "wait" /\ End(e)
      /\ bm' = [bm EXCEPT !.int = @ /\ ~dma, !.start = FALSE]
      /\ UNCHANGED <<request, types, kinds, memory, drive, hits>>
  BY DEF WaitTimesOut, driverVars
<1>2. Records' /\ ~bm'.start
  BY <1>1 DEF MindrvrInv, Records
<1>3. e # 0
  BY DEF Final, TimeOutCode
<1>4. at \notin Detecting \cup {"found", "exited"}
  BY <1>1 DEF Detecting
<1> HIDE DEF e
<1> QED BY <1>1, <1>2, <1>3, <1>4, EndKeepsInv

\* Commands by ports: data moves, and is looked at.
LEMMA TransferInKeepsInv == ASSUME MindrvrInv, TransferIn PROVE MindrvrInv'
<1>1. /\ at = "in" /\ at' = "inCheck" /\ ec' = ec
      /\ UNCHANGED <<request, types, kinds, bm>>
      /\ DOMAIN memory' = DOMAIN memory
      /\ \/ drive' = drive
         \/ drive' = [drive EXCEPT !.drq = FALSE, !.sector = @ + 1, !.left = @ - 1,
                                   !.bsy = drive.left > 1 /\ ~drive.err]
  BY DEF TransferIn, Continue, lines, Put
<1>2. at \in Transferring /\ at # "dma" /\ at' \in Transferring
  BY <1>1 DEF Transferring
<1>3. Records'
  BY <1>1 DEF MindrvrInv, Records
<1>4. types[0] \in Known /\ ec = 0 /\ ~bm.start /\ at \notin Detecting
  BY <1>2, TransferringIsSound
<1> QED BY <1>1, <1>2, <1>3, <1>4, GoingOnKeepsInv

LEMMA TransferOutKeepsInv == ASSUME MindrvrInv, TransferOut PROVE MindrvrInv'
<1>1. /\ at = "out" /\ at' = "outCheck" /\ ec' = ec
      /\ UNCHANGED <<request, types, kinds, bm, memory>>
      /\ \/ drive' = drive
         \/ drive' = [drive EXCEPT !.drq = FALSE, !.sector = @ + 1, !.left = @ - 1,
                                   !.bsy = ~drive.err]
  BY DEF TransferOut, Continue, lines
<1>2. at \in Transferring /\ at # "dma" /\ at' \in Transferring
  BY <1>1 DEF Transferring
<1>3. Records'
  BY <1>1 DEF MindrvrInv, Records
<1>4. types[0] \in Known /\ ec = 0 /\ ~bm.start /\ at \notin Detecting
  BY <1>2, TransferringIsSound
<1> QED BY <1>1, <1>2, <1>3, <1>4, GoingOnKeepsInv

\* From a place between transfers the command goes on or ends.
LEMMA CheckKeepsInv ==
  ASSUME MindrvrInv, at \in Transferring, UNCHANGED <<request, types, kinds, memory, drive, hits>>,
         Records', ~bm'.start,
         \/ \E e : End(e)
         \/ \E w \in Transferring \cup {"wait"} : Continue(w)
  PROVE  MindrvrInv'
<1>1. types[0] \in Known /\ ec = 0 /\ at \notin Detecting \cup {"found", "exited"}
  BY TransferringIsSound
<1>2. types[0] # "unknown"
  BY <1>1 DEF Known
<1>3. ASSUME NEW e, End(e) PROVE MindrvrInv'
  BY <1>1, <1>2, <1>3, EndKeepsInv
<1>4. ASSUME NEW w \in Transferring \cup {"wait"}, Continue(w) PROVE MindrvrInv'
  <2>1. at' \in Transferring \cup {"wait"} /\ ec' = 0
    BY <1>1, <1>4 DEF Continue
  <2> QED BY <1>1, <2>1, GoingOnKeepsInv
<1> QED BY <1>3, <1>4

LEMMA CheckInKeepsInv == ASSUME MindrvrInv, CheckIn PROVE MindrvrInv'
<1>1. /\ at = "inCheck" /\ UNCHANGED <<request, types, kinds, memory, drive, hits, bm>>
      /\ (\E e : End(e)) \/ \E w \in Transferring \cup {"wait"} : Continue(w)
  BY DEF CheckIn, driverVars, lines, Transferring
<1>2. at \in Transferring /\ at # "dma"
  BY <1>1 DEF Transferring
<1>3. Records' /\ ~bm'.start
  BY <1>1, <1>2, TransferringIsSound DEF MindrvrInv, Records
<1> QED BY <1>1, <1>2, <1>3, CheckKeepsInv

LEMMA PollKeepsInv == ASSUME MindrvrInv, Poll PROVE MindrvrInv'
<1>1. /\ at = "poll" /\ UNCHANGED <<request, types, kinds, memory, drive, hits, bm>>
      /\ (\E e : End(e)) \/ \E w \in Transferring \cup {"wait"} : Continue(w)
  BY DEF Poll, driverVars, lines, Transferring
<1>2. at \in Transferring /\ at # "dma"
  BY <1>1 DEF Transferring
<1>3. Records' /\ ~bm'.start
  BY <1>1, <1>2, TransferringIsSound DEF MindrvrInv, Records
<1> QED BY <1>1, <1>2, <1>3, CheckKeepsInv

LEMMA PollTimesOutKeepsInv == ASSUME MindrvrInv, PollTimesOut PROVE MindrvrInv'
<1>1. /\ at = "poll" /\ UNCHANGED <<request, types, kinds, memory, drive, hits, bm>>
      /\ (\E e : End(e)) \/ \E w \in Transferring \cup {"wait"} : Continue(w)
  BY DEF PollTimesOut, driverVars, lines, Transferring
<1>2. at \in Transferring /\ at # "dma"
  BY <1>1 DEF Transferring
<1>3. Records' /\ ~bm'.start
  BY <1>1, <1>2, TransferringIsSound DEF MindrvrInv, Records
<1> QED BY <1>1, <1>2, <1>3, CheckKeepsInv

LEMMA CheckOutKeepsInv == ASSUME MindrvrInv, CheckOut PROVE MindrvrInv'
<1>1. /\ at = "outCheck" /\ UNCHANGED <<request, types, kinds, memory, drive, hits, bm>>
      /\ (\E e : End(e)) \/ \E w \in Transferring \cup {"wait"} : Continue(w)
  BY DEF CheckOut, driverVars, lines, Transferring
<1>2. at \in Transferring /\ at # "dma"
  BY <1>1 DEF Transferring
<1>3. Records' /\ ~bm'.start
  BY <1>1, <1>2, TransferringIsSound DEF MindrvrInv, Records
<1> QED BY <1>1, <1>2, <1>3, CheckKeepsInv

LEMMA NextOutKeepsInv == ASSUME MindrvrInv, NextOut PROVE MindrvrInv'
<1>1. /\ at = "next" /\ UNCHANGED <<request, types, kinds, memory, drive, hits, bm>>
      /\ (\E e : End(e)) \/ \E w \in Transferring \cup {"wait"} : Continue(w)
  BY DEF NextOut, driverVars, lines, Transferring
<1>2. at \in Transferring /\ at # "dma"
  BY <1>1 DEF Transferring
<1>3. Records' /\ ~bm'.start
  BY <1>1, <1>2, TransferringIsSound DEF MindrvrInv, Records
<1> QED BY <1>1, <1>2, <1>3, CheckKeepsInv

LEMMA CheckDmaKeepsInv == ASSUME MindrvrInv, CheckDma PROVE MindrvrInv'
<1>1. /\ at = "dma" /\ UNCHANGED <<request, types, kinds, memory, drive, hits>>
      /\ bm' = [bm EXCEPT !.start = FALSE]
      /\ \E e : End(e)
  BY DEF CheckDma, driverVars
<1>2. at \in Transferring
  BY <1>1 DEF Transferring
<1>3. Records' /\ ~bm'.start
  BY <1>1 DEF MindrvrInv, Records
<1> QED BY <1>1, <1>2, <1>3, CheckKeepsInv

-----------------------------------------------------------------------------
LEMMA StutterKeepsInv == ASSUME MindrvrInv, UNCHANGED vars PROVE MindrvrInv'
<1>1. UNCHANGED <<at, ec, types, request, kinds, bm, drive, hits, memory>>
  BY DEF vars, driverVars, lines
<1>2. Records' /\ (Unsigned => Unsigned')
  BY <1>1 DEF MindrvrInv, Records, Unsigned
<1> QED BY <1>1, <1>2, HardwareKeepsInv

\* The inductive invariant: every step of driver, hardware and main keeps it.
THEOREM MindrvrKeepsInv == Spec => []MindrvrInv
<1>1. Init => MindrvrInv
  BY InitInv
<1>2. MindrvrInv /\ [Next]_vars => MindrvrInv'
  <2> SUFFICES ASSUME MindrvrInv, [Next]_vars PROVE MindrvrInv'
    OBVIOUS
  <2>1. CASE Hardware
    BY <2>1, AnswerKeepsInv, DriveFailsKeepsInv, BusMasterMovesKeepsInv, ResetEndsKeepsInv
       DEF Hardware
  <2>2. CASE Requests
    BY <2>2, StartPioKeepsInv, StartDmaKeepsInv, SetBar4KeepsInv DEF Requests
  <2>3. CASE Driver
    BY <2>3, DetectKeepsInv, AwaitDrive0KeepsInv, AwaitDrive1KeepsInv, ReadBootRecordKeepsInv,
       SelectKeepsInv, SelectTimesOutKeepsInv, WaitKeepsInv, WaitTimesOutKeepsInv,
       TransferInKeepsInv, CheckInKeepsInv, PollKeepsInv, PollTimesOutKeepsInv,
       TransferOutKeepsInv, CheckOutKeepsInv, NextOutKeepsInv, CheckDmaKeepsInv
       DEF Driver
  <2> QED BY <2>1, <2>2, <2>3, StutterKeepsInv DEF Next
<1> QED BY <1>1, <1>2, PTL DEF Spec

\* Only three steps move data, and none of them comes after an error.
LEMMA NothingMovesAfterErrors ==
  ASSUME MindrvrInv, [Next]_vars, ec # 0
  PROVE  UNCHANGED <<disk, memory>>
<1>1. at \notin Transferring /\ ~bm.start
  <2>1. at \notin Transferring /\ (at = "wait" => request.op = "read")
    BY DEF MindrvrInv, ErrorsEnd
  <2>2. at # "dma"
    BY <2>1 DEF Transferring
  <2> QED BY <2>1, <2>2 DEF MindrvrInv, ErrorsEnd
<1>2. CASE Hardware
  BY <1>1, <1>2 DEF Hardware, Answer, DriveFails, BusMasterMoves, ResetEnds
<1>3. CASE Requests
  BY <1>3 DEF Requests, StartPio, StartDma, SetBar4
<1>4. CASE Driver
  <2>1. at \notin {"in", "out"}
    BY <1>1 DEF Transferring
  <2>2. CASE Detect \/ AwaitDrive0 \/ AwaitDrive1 \/ ReadBootRecord
    BY <2>2 DEF Detect, AwaitDrive0, AwaitDrive1, ReadBootRecord
  <2>3. CASE Select \/ SelectTimesOut \/ Wait \/ WaitTimesOut
    BY <2>3 DEF Select, SelectTimesOut, Wait, WaitTimesOut
  <2>4. CASE CheckIn \/ Poll \/ PollTimesOut \/ CheckOut \/ NextOut \/ CheckDma
    BY <2>4 DEF CheckIn, Poll, PollTimesOut, CheckOut, NextOut, CheckDma
  <2> QED BY <1>4, <2>1, <2>2, <2>3, <2>4 DEF Driver, TransferIn, TransferOut
<1> QED BY <1>2, <1>3, <1>4 DEF Next, vars

\* After an error nothing is read or written any more, whatever comes from the
\* drive: the code that sub_select returns, which nothing resets, sees to it.
THEOREM FailuresStay == Spec => FailuresAreForGood
<1>1. MindrvrInv /\ [Next]_vars => [ec # 0 => UNCHANGED <<disk, memory>>]_vars
  BY NothingMovesAfterErrors
<1> QED BY <1>1, MindrvrKeepsInv, PTL DEF Spec, FailuresAreForGood

-----------------------------------------------------------------------------
(* The list of set_up_xfer.                                               *)

\* The smaller of two numbers.
LEMMA MinOfTwo ==
  ASSUME NEW a \in Nat, NEW b \in Nat
  PROVE  Min({a, b}) = IF a <= b THEN a ELSE b
<1> DEFINE m == IF a <= b THEN a ELSE b
<1>1. m \in {a, b} /\ \A y \in {a, b} : m <= y
  OBVIOUS
<1>2. \A x \in {a, b} : (\A y \in {a, b} : x <= y) => x = m
  OBVIOUS
<1> QED BY <1>1, <1>2 DEF Min

\* set_up_xfer cuts at the end of a segment.
LEMMA PieceLengthIs ==
  ASSUME NEW a \in Nat, NEW left \in Nat \ {0}
  PROVE  /\ PieceLength(a, left) =
              IF left <= Segment - (a % Segment) THEN left ELSE Segment - (a % Segment)
         /\ PieceLength(a, left) \in 1 .. left
         /\ PieceLength(a, left) \in 1 .. Segment - (a % Segment)
<1> DEFINE q == a \div Segment
           r == a % Segment
           n == IF Segment <= left THEN Segment ELSE left
<1>1. Segment \in Nat \ {0}
  BY MindrvrAssumption
<1>2. q \in Nat /\ r \in 0 .. Segment - 1 /\ a = q * Segment + r
  BY <1>1, QuotientAndRest
<1>3. Min({Segment, left}) = n
  BY <1>1, MinOfTwo
<1>4. n \in 1 .. Segment /\ n \in 1 .. left /\ (n = left \/ n = Segment)
  BY <1>1
<1>5. PieceLength(a, left) =
        IF (a + n) \div Segment # q THEN ((a + n) \div Segment) * Segment - a ELSE n
  BY <1>3 DEF PieceLength
<1> HIDE DEF q, r, n
<1>6. CASE r + n < Segment
  <2>1. a + n = q * Segment + (r + n) /\ r + n \in 0 .. Segment - 1
    BY <1>1, <1>2, <1>4, <1>6
  <2>2. (a + n) \div Segment = q
    BY <1>1, <1>2, <2>1, QuotientIs
  <2>3. PieceLength(a, left) = n
    BY <1>5, <2>2
  <2>4. n = left
    BY <1>1, <1>2, <1>4, <1>6
  <2> QED BY <1>1, <1>2, <1>4, <1>6, <2>3, <2>4 DEF r
<1>7. CASE r + n >= Segment
  <2>1. a + n = (q + 1) * Segment + (r + n - Segment) /\ r + n - Segment \in 0 .. Segment - 1
    BY <1>1, <1>2, <1>4, <1>7
  <2>2. (a + n) \div Segment = q + 1
    BY <1>1, <1>2, <2>1, QuotientIs
  <2>3. PieceLength(a, left) = (q + 1) * Segment - a
    BY <1>2, <1>5, <2>2
  <2>4. (q + 1) * Segment - a = Segment - r
    BY <1>1, <1>2
  <2>5. Segment - r <= n /\ Segment - r <= left /\ Segment - r >= 1
    BY <1>1, <1>2, <1>4, <1>7
  <2>6. left <= Segment - r => left = Segment - r
    BY <1>1, <1>2, <1>4, <2>5
  <2> HIDE DEF PieceLength
  <2> QED BY <1>1, <1>2, <1>4, <2>3, <2>4, <2>5, <2>6 DEF r
<1> QED BY <1>1, <1>2, <1>4, <1>6, <1>7

\* The entry of a list for the last left cells of bc.
Piece(address, bc, left) == PieceLength(address + bc - left, left)
PrdEntry(address, bc, left) ==
  [address |-> address + bc - left, count |-> Piece(address, bc, left) % Segment]

\* set_up_xfer makes its list entry by entry.
LEMMA PrdListSteps ==
  ASSUME NEW address \in Nat, NEW bc \in Nat
  PROVE  \E f : /\ PrdList(address, bc) = f[bc]
                /\ f[0] = <<>>
                /\ \A l \in 1 .. bc :
                     f[l] = <<PrdEntry(address, bc, l)>> \o f[l - Piece(address, bc, l)]
<1> DEFINE N(l) == Piece(address, bc, l)
           Step(f, l) == IF l = 0 THEN <<>> ELSE <<PrdEntry(address, bc, l)>> \o f[l - N(l)]
           Solves(f, m) == f = [l \in 0 .. m |-> Step(f, l)]
           Unsolved == {m \in 0 .. bc : ~ \E f : Solves(f, m)}
<1>1. \A l \in 1 .. bc : N(l) \in 1 .. l
  BY PieceLengthIs DEF Piece
<1> HIDE DEF N
<1>2. Unsolved = {}
  <2> SUFFICES ASSUME Unsolved # {} PROVE FALSE
    OBVIOUS
  <2>1. Unsolved \subseteq 0 .. bc
    OBVIOUS
  <2>2. PICK n \in Unsolved : \A m \in Unsolved : n <= m
    <3> HIDE DEF Unsolved
    <3>1. Unsolved \subseteq Nat
      BY <2>1
    <3> QED BY <3>1, LeastElement
  <2>3. CASE n = 0
    <3> DEFINE f == [l \in 0 .. 0 |-> <<>>]
    <3>1. \A l \in 0 .. 0 : Step(f, l) = <<>>
      OBVIOUS
    <3>2. Solves(f, 0)
      <4> HIDE DEF Step
      <4> QED BY <3>1
    <3> QED BY <2>2, <2>3, <3>2
  <2>4. CASE n > 0
    <3>1. n - 1 \in 0 .. bc /\ n - 1 \notin Unsolved /\ n \in 1 .. bc
      <4> HIDE DEF Unsolved
      <4> QED BY <2>1, <2>2, <2>4
    <3>2. PICK g : Solves(g, n - 1)
      BY <3>1
    <3> DEFINE f == [l \in 0 .. n |-> IF l = n THEN Step(g, n) ELSE g[l]]
    <3>3. \A l \in 0 .. n - 1 : f[l] = g[l]
      BY <3>1
    <3>4. f[n] = Step(g, n)
      BY <3>1
    <3>5. f = [l \in 0 .. n |-> f[l]]
      OBVIOUS
    <3> HIDE DEF f
    <3>6. ASSUME NEW l \in 0 .. n PROVE f[l] = Step(f, l)
      <4>1. l # 0 => l - N(l) \in 0 .. n - 1
        BY <1>1, <3>1
      <4>2. Step(f, l) = Step(g, l)
        BY <3>3, <4>1
      <4>3. CASE l = n
        BY <3>4, <4>2, <4>3
      <4>4. CASE l # n
        <5>1. l \in 0 .. n - 1
          BY <3>1, <4>4
        <5>2. g[l] = Step(g, l)
          <6> HIDE DEF Step
          <6> QED BY <3>2, <5>1
        <5> QED BY <3>3, <4>2, <5>1, <5>2
      <4> QED BY <4>3, <4>4
    <3>7. Solves(f, n)
      <4> HIDE DEF Step
      <4> QED BY <3>5, <3>6
    <3> QED BY <2>2, <3>7
  <2> QED BY <2>2, <2>3, <2>4
<1> DEFINE F == CHOOSE f : Solves(f, bc)
<1>3. PrdList(address, bc) = F[bc]
  BY DEF PrdList, N, Piece, PrdEntry
<1>4. Solves(F, bc)
  <2> HIDE DEF Solves
  <2> QED BY <1>2
<1> HIDE DEF F
<1>5. \A l \in 0 .. bc : F[l] = Step(F, l)
  <2> HIDE DEF Step
  <2> QED BY <1>4
<1>6. F[0] = <<>>
  <2>1. 0 \in 0 .. bc
    OBVIOUS
  <2>2. F[0] = Step(F, 0)
    <3> HIDE DEF Step
    <3> QED BY <1>5, <2>1
  <2> QED BY <2>2, Zenon
<1>7. ASSUME NEW l \in 1 .. bc PROVE F[l] = <<PrdEntry(address, bc, l)>> \o F[l - N(l)]
  <2>1. l \in 0 .. bc /\ l # 0
    OBVIOUS
  <2>2. F[l] = Step(F, l)
    <3> HIDE DEF Step
    <3> QED BY <1>5, <2>1
  <2> QED BY <2>1, <2>2, Zenon
<1> QED BY <1>3, <1>6, <1>7 DEF N

\* The addresses that an entry stands for.
EntryAddresses(e) ==
  LET n == IF e.count = 0 THEN Segment ELSE e.count
  IN  [k \in 1 .. n |-> (e.address \div Segment) * Segment + ((e.address + k - 1) % Segment)]

\* The bus master, which does not count over the end of a segment, gets from an
\* entry of set_up_xfer to every cell of it.
LEMMA EntryAddressesAre ==
  ASSUME NEW address \in Nat, NEW bc \in Nat, NEW left \in 1 .. bc
  PROVE  LET a == address + bc - left
             e == PrdEntry(address, bc, left)
         IN  EntryAddresses(e) = [k \in 1 .. Piece(address, bc, left) |-> a + k - 1]
<1> DEFINE a == address + bc - left
           n == Piece(address, bc, left)
           e == PrdEntry(address, bc, left)
           q == a \div Segment
           r == a % Segment
<1>1. Segment \in Nat \ {0} /\ a \in Nat
  BY MindrvrAssumption
<1>2. q \in Nat /\ r \in 0 .. Segment - 1 /\ a = q * Segment + r
  BY <1>1, QuotientAndRest
<1>3. n \in 1 .. Segment - r
  <2>1. n = PieceLength(a, left) /\ left \in Nat \ {0}
    BY DEF Piece
  <2> HIDE DEF a, n
  <2> QED BY <1>1, <2>1, PieceLengthIs
<1>4. e.address = a /\ e.count = n % Segment
  BY DEF PrdEntry
<1> HIDE DEF a, n, q, r, e
<1>5. (IF e.count = 0 THEN Segment ELSE e.count) = n
  <2>1. CASE n = Segment
    <3>1. n = 1 * Segment + 0 /\ 0 \in 0 .. Segment - 1
      BY <1>1, <2>1
    <3>2. n % Segment = 0
      BY <1>1, <3>1, QuotientIs
    <3> QED BY <1>4, <2>1, <3>2
  <2>2. CASE n # Segment
    <3>1. n = 0 * Segment + n /\ n \in 0 .. Segment - 1 /\ n # 0
      BY <1>1, <1>2, <1>3, <2>2
    <3>2. n % Segment = n
      BY <1>1, <3>1, QuotientIs
    <3> QED BY <1>4, <3>1, <3>2
  <2> QED BY <2>1, <2>2
<1>6. ASSUME NEW k \in 1 .. n
      PROVE  q * Segment + ((a + k - 1) % Segment) = a + k - 1
  <2>1. r + k - 1 \in 0 .. Segment - 1
    BY <1>1, <1>2, <1>3
  <2>2. a + k - 1 = q * Segment + (r + k - 1)
    BY <1>1, <1>2, <1>3
  <2>3. (q * Segment + (r + k - 1)) % Segment = r + k - 1
    BY <1>1, <1>2, <2>1, QuotientIs
  <2> QED BY <2>2, <2>3
<1>7. EntryAddresses(e) = [k \in 1 .. n |-> q * Segment + ((a + k - 1) % Segment)]
  BY <1>4, <1>5 DEF EntryAddresses, q
<1>8. EntryAddresses(e) = [k \in 1 .. n |-> a + k - 1]
  BY <1>6, <1>7
<1> QED BY <1>8 DEF a, n, e

\* What a list is made of.
Entries == [address : Nat, count : Nat]
LEMMA EntryAddressesTyped ==
  ASSUME NEW e \in Entries
  PROVE  EntryAddresses(e) \in Seq(Nat)
<1> DEFINE n == IF e.count = 0 THEN Segment ELSE e.count
           x(k) == (e.address \div Segment) * Segment + ((e.address + k - 1) % Segment)
<1>1. Segment \in Nat \ {0} /\ n \in Nat /\ e.address \in Nat
  BY MindrvrAssumption DEF Entries
<1>2. ASSUME NEW k \in 1 .. n PROVE x(k) \in Nat
  <2>1. e.address + k - 1 \in Nat
    BY <1>1
  <2>2. (e.address + k - 1) % Segment \in Nat
    BY <1>1, <2>1, QuotientAndRest
  <2>3. e.address \div Segment \in Nat
    BY <1>1, QuotientAndRest
  <2>4. (e.address \div Segment) * Segment \in Nat
    BY <1>1, <2>3
  <2> QED BY <2>2, <2>4
<1>3. EntryAddresses(e) = [k \in 1 .. n |-> x(k)]
  BY DEF EntryAddresses
<1> HIDE DEF n, x
<1>4. [k \in 1 .. n |-> x(k)] \in Seq(Nat)
  BY <1>1, <1>2
<1> QED BY <1>3, <1>4

\* The addresses of a list are those of its first entry and those of the others.
LEMMA AddressesCons ==
  ASSUME NEW e \in Entries, NEW p \in Seq(Entries)
  PROVE  /\ Addresses(<<e>> \o p) = EntryAddresses(e) \o Addresses(p)
         /\ Addresses(p) \in Seq(Nat)
<1> DEFINE A(s) == [i \in DOMAIN s |-> EntryAddresses(s[i])]
           x == EntryAddresses(e)
           s == <<e>> \o p
           n == Len(p)
<1>1. /\ n \in Nat /\ Len(s) = n + 1 /\ s[1] = e /\ \A i \in 1 .. n : s[i + 1] = p[i]
      /\ DOMAIN s = 1 .. n + 1 /\ DOMAIN p = 1 .. n
  <2>1. <<e>> \in Seq(Entries) /\ Len(<<e>>) = 1 /\ <<e>>[1] = e
    OBVIOUS
  <2>2. \A i \in 1 .. n : (<<e>> \o p)[1 + i] = p[i]
    BY <2>1, ConcatAt
  <2>3. \A i \in 1 .. n : 1 + i = i + 1
    OBVIOUS
  <2>4. Len(s) = n + 1 /\ s[1] = e /\ DOMAIN s = 1 .. n + 1
    OBVIOUS
  <2>5. n \in Nat /\ DOMAIN p = 1 .. n
    OBVIOUS
  <2> HIDE DEF n
  <2> QED BY <2>2, <2>3, <2>4, <2>5
<1>2. x \in Seq(Nat)
  BY EntryAddressesTyped
<1>3. \A i \in 1 .. n : EntryAddresses(p[i]) \in Seq(Nat)
  <2>1. \A i \in 1 .. n : p[i] \in Entries
    OBVIOUS
  <2> QED BY <2>1, EntryAddressesTyped
<1> HIDE DEF n, s
<1>4. A(p) \in Seq(Seq(Nat)) /\ Len(A(p)) = n /\ \A i \in 1 .. n : A(p)[i] = EntryAddresses(p[i])
  BY <1>1, <1>3
<1>5. A(s) = [i \in 1 .. n + 1 |-> EntryAddresses(s[i])]
  BY <1>1
<1> HIDE DEF x
<1>6. <<x>> \o A(p) = A(s)
  <2> DEFINE y == A(p)
             z == <<x>> \o A(p)
  <2>1. /\ z \in Seq(Seq(Nat)) /\ Len(z) = 1 + n /\ z[1] = x
        /\ \A i \in 1 .. n : z[1 + i] = y[i]
    <3>1. <<x>> \in Seq(Seq(Nat)) /\ Len(<<x>>) = 1 /\ <<x>>[1] = x
      BY <1>2
    <3> HIDE DEF y
    <3>2. /\ <<x>> \o y \in Seq(Seq(Nat)) /\ Len(<<x>> \o y) = 1 + n
          /\ \A i \in 1 .. 1 : (<<x>> \o y)[i] = <<x>>[i]
          /\ \A i \in 1 .. n : (<<x>> \o y)[1 + i] = y[i]
      BY <1>4, <3>1, ConcatAt DEF y
    <3>3. (<<x>> \o y)[1] = x
      BY <3>1, <3>2
    <3>4. z = <<x>> \o y
      BY Zenon DEF y
    <3> HIDE DEF z
    <3> QED BY <3>2, <3>3, <3>4
  <2>2. ASSUME NEW i \in 1 .. n + 1 PROVE z[i] = EntryAddresses(s[i])
    <3>1. CASE i = 1
      BY <1>1, <2>1, <3>1 DEF x
    <3>2. CASE i # 1
      <4>1. PICK j \in 1 .. n : i = 1 + j /\ i = j + 1
        <5>1. i - 1 \in 1 .. n /\ i = 1 + (i - 1) /\ i = (i - 1) + 1
          BY <1>1, <3>2
        <5> QED BY <5>1
      <4>2. z[i] = y[j] /\ s[i] = p[j]
        <5> HIDE DEF z, y
        <5> QED BY <1>1, <2>1, <4>1
      <4>3. y[j] = EntryAddresses(p[j])
        BY <1>4
      <4> HIDE DEF z, y
      <4> QED BY <4>2, <4>3
    <3> QED BY <3>1, <3>2
  <2>3. z = [i \in 1 .. n + 1 |-> z[i]]
    <3> HIDE DEF z
    <3> QED BY <1>1, <2>1
  <2>4. z = A(s)
    <3> HIDE DEF z
    <3> QED BY <1>5, <2>2, <2>3
  <2> QED BY <2>4
<1>7. /\ FlattenSeq(<<x>> \o A(p)) = x \o FlattenSeq(A(p))
      /\ FlattenSeq(A(p)) \in Seq(Nat)
  <2> HIDE DEF A
  <2> QED BY <1>2, <1>4, FlattenSeqCons
<1>8. Addresses(s) = FlattenSeq(A(s)) /\ Addresses(p) = FlattenSeq(A(p))
  BY DEF Addresses, EntryAddresses
<1> HIDE DEF A
<1>9. Addresses(s) = x \o Addresses(p) /\ Addresses(p) \in Seq(Nat)
  BY <1>6, <1>7, <1>8
<1> QED BY <1>9 DEF s, x

\* The list for bc cells at an address stands for just those cells, and has no
\* more entries than segments that it touches.
LEMMA PrdListCovers ==
  ASSUME NEW address \in Nat, NEW bc \in Nat
  PROVE  /\ Addresses(PrdList(address, bc)) = [k \in 1 .. bc |-> address + k - 1]
         /\ PrdList(address, bc) \in Seq(Entries)
         /\ \A k \in Nat : (address % Segment) + bc <= k * Segment => Len(PrdList(address, bc)) <= k
<1>0. Segment \in Nat \ {0}
  BY MindrvrAssumption
<1>1. PICK f : /\ PrdList(address, bc) = f[bc]
               /\ f[0] = <<>>
               /\ \A l \in 1 .. bc :
                    f[l] = <<PrdEntry(address, bc, l)>> \o f[l - Piece(address, bc, l)]
  BY PrdListSteps
<1> DEFINE a(l) == address + bc - l
           Cover(l) == [k \in 1 .. l |-> a(l) + k - 1]
           Fits(l) == \A k \in Nat : (a(l) % Segment) + l <= k * Segment => Len(f[l]) <= k
           Good(l) == f[l] \in Seq(Entries) /\ Addresses(f[l]) = Cover(l) /\ Fits(l)
           Wrong == {l \in 0 .. bc : ~Good(l)}
<1>2. Good(0)
  <2>1. f[0] = <<>> /\ f[0] \in Seq(Entries)
    BY <1>1
  <2>2. Addresses(<<>>) = <<>>
    BY DEF Addresses, FlattenSeq
  <2>3. Cover(0) = <<>>
    OBVIOUS
  <2>4. Len(f[0]) = 0
    BY <2>1
  <2>5. Fits(0)
    BY <2>4
  <2> HIDE DEF Cover, Fits
  <2> QED BY <2>1, <2>2, <2>3, <2>5
<1>3. ASSUME NEW l \in 1 .. bc, \A m \in 0 .. l - 1 : Good(m) PROVE Good(l)
  <2> DEFINE n == Piece(address, bc, l)
             e == PrdEntry(address, bc, l)
             m == l - n
             r == a(l) % Segment
  <2>1. /\ n = (IF l <= Segment - r THEN l ELSE Segment - r)
        /\ n \in 1 .. l /\ n \in 1 .. Segment - r
        /\ a(l) \in Nat
    <3>1. a(l) \in Nat /\ l \in Nat \ {0} /\ n = PieceLength(a(l), l)
      BY DEF Piece
    <3> HIDE DEF a, n
    <3> QED BY <1>0, <3>1, PieceLengthIs
  <2>2. m \in 0 .. l - 1 /\ l = n + m /\ a(m) = a(l) + n
    BY <2>1
  <2>3. Good(m)
    <3> HIDE DEF Good, m
    <3> QED BY <1>3, <2>2
  <2>4. e \in Entries
    <3>1. n % Segment \in Nat
      BY <1>0, <2>1, QuotientAndRest
    <3>2. e = [address |-> a(l), count |-> n % Segment]
      BY DEF PrdEntry
    <3> HIDE DEF e, n, a
    <3> QED BY <2>1, <3>1, <3>2 DEF Entries
  <2>5. f[l] = <<e>> \o f[m]
    BY <1>1, Zenon
  <2>6. EntryAddresses(e) = [k \in 1 .. n |-> a(l) + k - 1]
    BY EntryAddressesAre
  <2> HIDE DEF e, n, m, r
  <2>7. f[l] \in Seq(Entries) /\ Len(f[l]) = 1 + Len(f[m]) /\ Len(f[m]) \in Nat
    <3>1. f[m] \in Seq(Entries)
      BY <2>3
    <3>2. <<e>> \in Seq(Entries) /\ Len(<<e>>) = 1
      BY <2>4
    <3> QED BY <2>5, <3>1, <3>2, ConcatAt
  <2>8. Addresses(f[l]) = EntryAddresses(e) \o Cover(m)
    <3> HIDE DEF Cover
    <3> QED BY <2>3, <2>4, <2>5, AddressesCons
  <2>9. EntryAddresses(e) \o Cover(m) = Cover(l)
    <3> DEFINE u == [k \in 1 .. n |-> a(l) + k - 1]
               v == Cover(m)
    <3>1. u \in Seq(Nat) /\ Len(u) = n /\ \A k \in 1 .. n : u[k] = a(l) + k - 1
      BY <2>1
    <3>2. v \in Seq(Nat) /\ Len(v) = m /\ \A k \in 1 .. m : v[k] = a(l) + n + k - 1
      BY <2>1, <2>2
    <3>3. Cover(l) = [k \in 1 .. l |-> a(l) + k - 1]
      OBVIOUS
    <3> HIDE DEF u, v, Cover, a
    <3>4. u \o v \in Seq(Nat) /\ Len(u \o v) = l
      <4>1. u \o v \in Seq(Nat) /\ Len(u \o v) = Len(u) + Len(v)
        BY <3>1, <3>2, ConcatAt
      <4> QED BY <2>2, <3>1, <3>2, <4>1
    <3>5. ASSUME NEW k \in 1 .. l PROVE (u \o v)[k] = a(l) + k - 1
      <4>1. CASE k \in 1 .. n
        BY <3>1, <3>2, <4>1, ConcatAt
      <4>2. CASE k \notin 1 .. n
        <5>1. k - n \in 1 .. m /\ k = n + (k - n)
          BY <2>1, <2>2, <4>2
        <5>2. (u \o v)[n + (k - n)] = v[k - n]
          BY <3>1, <3>2, <5>1, ConcatAt, SMTT(30)
        <5>3. v[k - n] = a(l) + n + (k - n) - 1
          BY <3>2, <5>1
        <5>4. (u \o v)[k] = v[k - n]
          BY <5>1, <5>2
        <5> QED BY <2>1, <5>1, <5>3, <5>4
      <4> QED BY <4>1, <4>2
    <3>6. u \o v = [k \in 1 .. l |-> (u \o v)[k]]
      <4> DEFINE w == u \o v
      <4>1. w \in Seq(Nat) /\ Len(w) = l
        BY <3>4
      <4> HIDE DEF w
      <4>2. w = [k \in 1 .. l |-> w[k]]
        BY <4>1
      <4> QED BY <4>2 DEF w
    <3>7. u \o v = Cover(l)
      BY <3>3, <3>5, <3>6
    <3> QED BY <2>6, <3>7 DEF u, v
  <2>10. Fits(l)
    <3> SUFFICES ASSUME NEW k \in Nat, r + l <= k * Segment PROVE Len(f[l]) <= k
      BY DEF r
    <3> HIDE DEF a
    <3>1. r \in 0 .. Segment - 1
      BY <1>0, <2>1, QuotientAndRest DEF r
    <3>2. k # 0
      BY <1>0, <3>1
    <3>3. CASE l <= Segment - r
      <4>1. m = 0
        BY <2>1, <2>2, <3>3
      <4>2. Len(f[0]) = 0
        BY <1>1
      <4> QED BY <2>7, <3>2, <4>1, <4>2
    <3>4. CASE ~(l <= Segment - r)
      <4>1. n = Segment - r
        BY <2>1, <3>4
      <4>2. a(l) = (a(l) \div Segment) * Segment + r /\ a(l) \div Segment \in Nat
        BY <1>0, <2>1, QuotientAndRest DEF r
      <4> DEFINE q == a(l) \div Segment
      <4>8. q \in Nat /\ a(l) = q * Segment + r
        BY <4>2
      <4> HIDE DEF q
      <4>3. q \in Nat /\ a(m) = (q + 1) * Segment + 0
        BY <1>0, <2>2, <3>1, <4>1, <4>8
      <4>4. a(m) % Segment = 0
        <5>1. ((q + 1) * Segment + 0) % Segment = 0
          BY <1>0, <4>3, QuotientIs
        <5> QED BY <4>3, <5>1
      <4>5. k - 1 \in Nat /\ 0 + m <= (k - 1) * Segment
        BY <1>0, <2>2, <3>1, <3>2, <4>1
      <4>6. Len(f[m]) <= k - 1
        <5>1. Fits(m)
          BY <2>3
        <5> QED BY <4>4, <4>5, <5>1
      <4> QED BY <2>7, <4>5, <4>6
    <3> QED BY <3>3, <3>4
  <2> HIDE DEF Fits, Cover
  <2> QED BY <2>7, <2>8, <2>9, <2>10
<1> HIDE DEF Good
<1>4. Wrong = {}
  <2> SUFFICES ASSUME Wrong # {} PROVE FALSE
    OBVIOUS
  <2>1. /\ Wrong \subseteq 0 .. bc /\ \A l \in 0 .. bc : l \notin Wrong => Good(l)
        /\ \A l \in Wrong : ~Good(l)
    OBVIOUS
  <2> HIDE DEF Wrong
  <2>2. PICK l \in Wrong : \A m \in Wrong : l <= m
    <3>1. Wrong \subseteq Nat
      BY <2>1
    <3> QED BY <3>1, LeastElement
  <2>3. l \in 1 .. bc
    BY <1>2, <2>1, <2>2
  <2>4. \A m \in 0 .. l - 1 : Good(m)
    BY <2>1, <2>2, <2>3
  <2> QED BY <1>3, <2>1, <2>2, <2>3, <2>4
<1>5. Good(bc)
  <2>1. bc \in 0 .. bc
    OBVIOUS
  <2> QED BY <1>4, <2>1
<1>6. a(bc) = address
  OBVIOUS
<1> QED BY <1>1, <1>5, <1>6 DEF Good

\* ata_read_sectors asks for no more cells than a list has room for.
LEMMA PrdListFits ==
  ASSUME NEW address \in Nat, NEW n \in 1 .. MaxTransfer
  PROVE  Len(PrdList(address, n * SectorSize)) <= MaxPrd
<1> DEFINE bc == n * SectorSize
           r == address % Segment
<1>1. /\ Segment \in Nat \ {0} /\ MaxPrd \in Nat \ {0} /\ SectorSize \in Nat /\ MaxTransfer \in Nat
      /\ MaxTransfer * SectorSize <= (MaxPrd - 1) * Segment
  BY MindrvrAssumption
<1>2. bc \in Nat /\ bc <= MaxTransfer * SectorSize
  BY <1>1, ProductOrder
<1>3. r \in 0 .. Segment - 1
  BY <1>1, QuotientAndRest
<1>4. (MaxPrd - 1) * Segment + Segment = MaxPrd * Segment /\ MaxPrd * Segment \in Nat
  BY <1>1
<1>5. (MaxPrd - 1) * Segment \in Nat /\ MaxTransfer * SectorSize \in Nat
  BY <1>1
<1> HIDE DEF bc, r
<1>6. r + bc <= MaxPrd * Segment
  BY <1>1, <1>2, <1>3, <1>4, <1>5
<1> QED BY <1>1, <1>2, <1>6, PrdListCovers DEF bc, r

\* Where an address is in a sequence, and among those of a sector.
IndexIn(u, a) == SelectInSeq(u, LAMBDA y : y = a)
Run(address, bc) == [k \in 1 .. bc |-> address + k - 1]
IndexInRun(a, n, x) == IF x \in a .. a + n - 1 THEN x - a + 1 ELSE 0

\* Where an address is among those of a part of a run.
LEMMA CellOfSector ==
  ASSUME NEW bc \in Nat, NEW address \in Nat, NEW m \in Nat, NEW n \in Nat, m + n <= bc,
         NEW x \in Nat
  PROVE  IndexIn(SubSeq(Run(address, bc), m + 1, m + n), x) = IndexInRun(address + m, n, x)
<1> DEFINE s == [k \in 1 .. bc |-> address + k - 1]
           u == SubSeq(s, m + 1, m + n)
           I == {i \in 1 .. Len(u) : u[i] = x}
           j == x - (address + m) + 1
<1>1. s \in Seq(Nat) /\ Len(s) = bc /\ \A k \in 1 .. bc : s[k] = address + k - 1
  OBVIOUS
<1>2. Len(u) = n /\ \A i \in 1 .. n : u[i] = address + m + i - 1
  <2> HIDE DEF s
  <2>1. Len(u) = n /\ \A i \in 1 .. n : u[i] = s[m + i]
    BY <1>1
  <2> HIDE DEF u
  <2> QED BY <1>1, <2>1
<1>3. IndexIn(u, x) = IF I # {} THEN Min(I) ELSE 0
  BY DEF IndexIn, SelectInSeq
<1> HIDE DEF u
<1>4. I = IF x \in address + m .. address + m + n - 1 THEN {j} ELSE {}
  BY <1>2
<1>5. x \in address + m .. address + m + n - 1 => Min({j}) = j
  <2> SUFFICES ASSUME x \in address + m .. address + m + n - 1 PROVE Min({j}) = j
    OBVIOUS
  <2>1. j \in Nat
    OBVIOUS
  <2> HIDE DEF j
  <2> QED BY <2>1 DEF Min
<1> HIDE DEF I, j
<1>6. IndexIn(u, x) =
        IF x \in address + m .. address + m + n - 1 THEN j ELSE 0
  BY <1>3, <1>4, <1>5
<1> QED BY <1>6 DEF u, j, Run, IndexInRun

-----------------------------------------------------------------------------
(* Where a command is.                                                     *)

\* A drive that is known, before the first error.
Sound == types[0] \in Known /\ ec = 0
Active == {"select", "wait"} \cup Transferring

\* An error has a cause.
Faults == ec # 0 \/ drive.err \/ bm.err \/ status.err => faulted

\* Nothing is under way, and no interrupt is left over.
Rest == ~drive.bsy /\ ~drive.drq /\ hits = 0
Rested == Sound /\ at \in {"found", "idle", "select"} => Rest
Detected ==
  at \in Detecting \cup {"found"} =>
    /\ moved = 0 /\ ~drive.drq /\ hits = 0
    /\ drive.op \in {"none", "reset"} /\ (drive.bsy => drive.op = "reset")

\* The command that the service is at.
Requested ==
  at \in Active =>
    /\ request.op \in {"read", "write", "dma"} /\ request.sector \in Sectors \cup {0}
    /\ request.count \in 1 .. MaxTransfer /\ request.buffer \in Buffers \cup {MbrBuffer}
    /\ at = "select" => moved = 0 /\ numSect = request.count /\ bufAddr = request.buffer
    /\ at \in {"in", "inCheck"} => request.op = "read"
    /\ at \in {"poll", "out", "outCheck", "next"} => request.op = "write"
    /\ at = "dma" => request.op = "dma"
    /\ request.op = "dma" => bm.prds = PrdList(request.buffer, request.count * SectorSize)

\* Drive and driver agree on how far it is.
Done == request.count - drive.left
Progress ==
  /\ drive.op \in {request.op, "refused"}
  /\ drive.left \in 0 .. request.count
  /\ drive.sector = request.sector + Done
  /\ moved = Done * SectorSize
  /\ request.op # "dma" => numSect = drive.left /\ bufAddr = request.buffer + moved
  /\ drive.bsy => ~drive.drq /\ ~drive.err /\ ~intrq /\ hits = 0
  /\ drive.drq => drive.left > 0 /\ request.op # "dma"

\* What a drive that is no longer busy has to say, and that its interrupt comes
\* once and is taken once.
HasAnswered ==
  \/ drive.err
  \/ request.op = "read" /\ drive.drq
  \/ request.op = "write" /\ (drive.drq <=> drive.left > 0)
  \/ request.op = "dma" /\ drive.left = 0
Interrupted == ~drive.bsy => hits = 1 /\ bm.int /\ HasAnswered
Silent == ~drive.err => hits = 0 /\ ~intrq
Looked == ~drive.bsy /\ status = Stat /\ HasAnswered /\ Silent
Checking ==
  /\ ~status.bsy /\ (status.err \/ status.drq)
  /\ status.err => ~drive.bsy

\* What holds at each place of the driver.
Place ==
  /\ at = "wait" => /\ Interrupted
                    /\ request.op = "read" => drive.left > 0
                    /\ request.op = "write" => drive.left < request.count
  /\ at \in {"in", "out", "next", "dma"} => Looked
  /\ at \in {"in", "out"} => drive.left > 0
  /\ at = "poll" => drive.left = request.count /\ (~drive.bsy => HasAnswered /\ Silent)
  /\ at \in {"inCheck", "outCheck"} => Checking
  /\ at = "inCheck" /\ ~status.err =>
       IF drive.left = 0 THEN Rest /\ ~drive.err ELSE Interrupted
  /\ at = "outCheck" /\ ~status.err => drive.left < request.count /\ Interrupted
Underway == Sound /\ at \in Active \ {"select"} => Progress /\ Place

\* Inductive together with MindrvrInv.
CommandInv == Faults /\ Rested /\ Detected /\ Requested /\ Underway

\* At first there is no command.
LEMMA InitCommands == Init => CommandInv
<1> SUFFICES ASSUME Init PROVE CommandInv
  OBVIOUS
<1>1. at = "config" /\ at \notin Active /\ at \notin {"found", "idle", "select"}
  BY DEF Init, Active, Transferring
<1>2. Faults
  BY DEF Init, Faults, IdleDrive, NoStatus
<1>3. Detected
  BY DEF Init, Detected, IdleDrive
<1> QED BY <1>1, <1>2, <1>3 DEF CommandInv, Rested, Requested, Underway

-----------------------------------------------------------------------------
(* The hardware keeps the invariant of commands.                           *)

\* A drive that is busy has a command of the driver, or the reset.
LEMMA BusyIsUnderway ==
  ASSUME MindrvrInv, CommandInv, drive.bsy
  PROVE  /\ Rested /\ (Sound => at \notin {"found", "idle", "select"})
         /\ at \in Detecting \cup {"found"} => drive.op = "reset"
         /\ Sound /\ at \in Active \ {"select"} =>
              /\ Progress /\ Place
              /\ drive.op \in {request.op, "refused"}
              /\ request.op \in {"read", "write", "dma"}
              /\ ~drive.drq /\ ~drive.err /\ ~intrq /\ hits = 0
              /\ at \notin {"in", "out", "next", "dma"}
              /\ at \in {"inCheck", "outCheck"} => ~status.err
<1>1. /\ Rested /\ (Sound => at \notin {"found", "idle", "select"})
      /\ at \in Detecting \cup {"found"} => drive.op = "reset"
  BY DEF CommandInv, Rested, Rest, Detected
<1>2. ASSUME Sound, at \in Active \ {"select"}
      PROVE  /\ Progress /\ Place
             /\ drive.op \in {request.op, "refused"}
             /\ request.op \in {"read", "write", "dma"}
             /\ ~drive.drq /\ ~drive.err /\ ~intrq /\ hits = 0
             /\ at \notin {"in", "out", "next", "dma"}
             /\ at \in {"inCheck", "outCheck"} => ~status.err
  <2>1. Progress /\ Place
    BY <1>2 DEF CommandInv, Underway
  <2>2. request.op \in {"read", "write", "dma"}
    BY <1>2 DEF CommandInv, Requested
  <2> QED BY <2>1, <2>2 DEF Progress, Place, Looked, Checking
<1> QED BY <1>1, <1>2

\* The numbers of a command.
LEMMA CountsAreNumbers ==
  ASSUME CommandInv, at \in Active
  PROVE  /\ request.count \in Nat /\ request.count >= 1 /\ request.count <= MaxTransfer
         /\ request.sector \in Nat /\ request.buffer \in Nat
         /\ SectorSize \in Nat \ {0} /\ MaxTransfer \in Nat \ {0}
<1>1. /\ request.count \in 1 .. MaxTransfer /\ request.sector \in Sectors \cup {0}
      /\ request.buffer \in Buffers \cup {MbrBuffer}
  BY DEF CommandInv, Requested
<1>2. /\ SectorSize \in Nat \ {0} /\ MaxTransfer \in Nat \ {0}
      /\ \A s \in Sectors \cup {0} : s \in Nat
      /\ \A b \in Buffers \cup {MbrBuffer} : b \in Nat
  BY MindrvrAssumption
<1>3. request.count \in Nat /\ request.count >= 1 /\ request.count <= MaxTransfer
  BY <1>1, <1>2
<1>4. request.sector \in Nat /\ request.buffer \in Nat
  BY <1>1, <1>2
<1> QED BY <1>2, <1>3, <1>4

\* Only no sectors are no cells.
LEMMA NothingMoved ==
  ASSUME NEW n \in Nat
  PROVE  /\ (n * SectorSize = 0 <=> n = 0)
         /\ (n + 1) * SectorSize = n * SectorSize + SectorSize
<1>1. SectorSize \in Nat \ {0}
  BY MindrvrAssumption
<1> QED BY <1>1

LEMMA AnswerKeepsCommands == ASSUME MindrvrInv, CommandInv, Answer PROVE CommandInv'
<1>1. /\ drive.bsy
      /\ UNCHANGED <<at, request, numSect, bufAddr, types, ec, status, moved, faulted>>
  BY DEF Answer, driverVars
<1>2. /\ drive' = [drive EXCEPT !.bsy = FALSE, !.drq = drive'.drq]
      /\ drive.op \in {"read", "write", "dma"}
      /\ drive.op = "read" => drive'.drq
      /\ drive.op = "write" => (drive'.drq <=> drive.left > 0)
      /\ drive.op = "dma" => drive'.drq = drive.drq /\ drive.left = 0
  BY DEF Answer, MindrvrInv, Records
<1>3. /\ drive'.bsy = FALSE /\ drive'.err = drive.err /\ drive'.op = drive.op
      /\ drive'.sector = drive.sector /\ drive'.left = drive.left
  BY <1>2 DEF MindrvrInv, Records
<1>4. /\ bm'.err = bm.err /\ bm'.prds = bm.prds
      /\ (drive.op = "write" /\ moved = 0) => bm' = bm /\ hits' = hits /\ intrq' = intrq
      /\ ~(drive.op = "write" /\ moved = 0) /\ ~intrq /\ hits = 0 => bm'.int /\ hits' = 1
  BY DEF Answer, Interrupt, lines, MindrvrInv, Records
<1>5. Faults'
  BY <1>1, <1>3, <1>4 DEF CommandInv, Faults
<1>6. Rested' /\ Detected'
  BY <1>1, <1>2, BusyIsUnderway DEF Rested, Detected, Sound
<1>7. Requested'
  BY <1>1, <1>4 DEF CommandInv, Requested
<1>8. ASSUME Sound, at \in Active \ {"select"} PROVE Progress' /\ Place'
  <2>1. /\ Progress /\ Place
        /\ request.op = drive.op
        /\ ~drive.drq /\ ~drive.err /\ ~intrq /\ hits = 0
        /\ at \notin {"in", "out", "next", "dma"}
        /\ at \in {"inCheck", "outCheck"} => ~status.err
    BY <1>1, <1>2, <1>8, BusyIsUnderway
  <2>2. request.count \in Nat /\ request.count >= 1 /\ drive.left \in 0 .. request.count
    BY <1>8, <2>1, CountsAreNumbers DEF Progress
  <2>3. HasAnswered'
    BY <1>1, <1>2, <1>3, <2>1 DEF HasAnswered
  <2>4. drive.op = "write" => (moved = 0 <=> drive.left = request.count)
    <3>1. Done \in Nat /\ moved = Done * SectorSize
      BY <2>1, <2>2 DEF Progress, Done
    <3>2. moved = 0 <=> Done = 0
      BY <3>1, NothingMoved
    <3> QED BY <2>2, <3>2 DEF Done
  <2>5. drive.op = "read" => drive.left > 0
    <3>1. drive.op = "read" => at \in {"wait", "inCheck"}
      BY <1>8, <2>1 DEF Active, Transferring, CommandInv, Requested
    <3>2. at = "inCheck" => drive.left # 0
      BY <1>1, <2>1 DEF Place, Rest
    <3> QED BY <2>1, <2>2, <3>1, <3>2 DEF Place
  <2>6. Progress'
    BY <1>1, <1>2, <1>3, <2>1, <2>2, <2>5 DEF Progress, Done
  <2>7. at = "poll" <=> (drive.op = "write" /\ moved = 0)
    <3>1. at = "poll" => drive.op = "write" /\ drive.left = request.count
      BY <1>8, <2>1 DEF CommandInv, Requested, Place
    <3>2. drive.op = "write" => at \in {"poll", "wait", "outCheck"}
      BY <1>8, <2>1 DEF Active, Transferring, CommandInv, Requested
    <3>3. at \in {"wait", "outCheck"} /\ drive.op = "write" => drive.left < request.count
      BY <2>1 DEF Place
    <3> QED BY <2>2, <2>4, <3>1, <3>2, <3>3
  <2>8. at # "poll" => Interrupted'
    BY <1>4, <2>1, <2>3, <2>7 DEF Interrupted
  <2>9. at = "poll" => Silent'
    BY <1>4, <2>1, <2>7 DEF Silent
  <2>10. at = "inCheck" => drive.left # 0
    BY <1>1, <2>1 DEF Place, Rest
  <2>11. at \in {"inCheck", "outCheck"} => Checking'
    BY <1>1, <1>3, <2>1 DEF Place, Checking
  <2> QED BY <1>1, <1>3, <2>1, <2>3, <2>6, <2>8, <2>9, <2>10, <2>11 DEF Place
<1>9. Underway'
  BY <1>1, <1>8 DEF Underway, Sound
<1> QED BY <1>5, <1>6, <1>7, <1>9 DEF CommandInv

LEMMA DriveFailsKeepsCommands == ASSUME MindrvrInv, CommandInv, DriveFails PROVE CommandInv'
<1>1. /\ drive.bsy /\ drive.op # "reset" /\ faulted'
      /\ UNCHANGED <<at, request, numSect, bufAddr, types, ec, status, moved>>
  BY DEF DriveFails, driverVars
<1>2. PICK drq \in BOOLEAN : /\ drq => drive.op \in {"read", "write"} /\ drive.left > 0
                             /\ drive' = [drive EXCEPT !.bsy = FALSE, !.drq = drq, !.err = TRUE]
  BY DEF DriveFails
<1>3. /\ drive'.bsy = FALSE /\ drive'.err = TRUE /\ drive'.drq = drq /\ drive'.op = drive.op
      /\ drive'.sector = drive.sector /\ drive'.left = drive.left
  BY <1>2 DEF MindrvrInv, Records
<1>4. /\ bm'.prds = bm.prds /\ bm'.int
      /\ ~intrq /\ hits = 0 => hits' = 1
  BY DEF DriveFails, Interrupt, MindrvrInv, Records
<1>5. Faults'
  BY <1>1 DEF Faults
<1>6. Rested' /\ Detected'
  BY <1>1, BusyIsUnderway DEF Rested, Detected, Sound
<1>7. Requested'
  BY <1>1, <1>4 DEF CommandInv, Requested
<1>8. ASSUME Sound, at \in Active \ {"select"} PROVE Progress' /\ Place'
  <2>1. /\ Progress /\ Place
        /\ drive.op \in {request.op, "refused"}
        /\ ~drive.drq /\ ~drive.err /\ ~intrq /\ hits = 0
        /\ at \notin {"in", "out", "next", "dma"}
        /\ at \in {"inCheck", "outCheck"} => ~status.err
    BY <1>1, <1>8, BusyIsUnderway
  <2>2. Progress'
    BY <1>1, <1>2, <1>3, <2>1 DEF Progress, Done
  <2>3. Interrupted' /\ Silent' /\ HasAnswered'
    BY <1>3, <1>4, <2>1 DEF Interrupted, Silent, HasAnswered
  <2>4. at = "inCheck" => drive.left # 0
    BY <1>1, <2>1 DEF Place, Rest
  <2>5. at \in {"inCheck", "outCheck"} => Checking'
    BY <1>1, <1>3, <2>1 DEF Place, Checking
  <2> QED BY <1>1, <1>3, <2>1, <2>2, <2>3, <2>4, <2>5 DEF Place
<1>9. Underway'
  BY <1>1, <1>8 DEF Underway, Sound
<1> QED BY <1>5, <1>6, <1>7, <1>9 DEF CommandInv

\* The bus master runs for a command that is under way.
LEMMA BusMasterIsUnderway ==
  ASSUME MindrvrInv, CommandInv, BusMasterMoves
  PROVE  /\ Sound /\ at = "wait" /\ request.op = "dma" /\ drive.bsy
         /\ Progress /\ Place /\ drive.left \in 1 .. request.count
<1>1. bm.start /\ drive.bsy /\ drive.left > 0
  BY DEF BusMasterMoves
<1>2. at \in {"wait", "dma"} /\ request.op = "dma"
  BY <1>1 DEF MindrvrInv, ErrorsEnd
<1>3. Sound
  <2>1. ec = 0
    BY <1>2 DEF MindrvrInv, ErrorsEnd, Transferring
  <2>2. types[0] \in Known
    BY <1>2 DEF MindrvrInv, BootNeedsDrive, Detecting, Known
  <2> QED BY <2>1, <2>2 DEF Sound
<1>4. at \in Active \ {"select"}
  BY <1>2 DEF Active, Transferring
<1>5. Progress /\ Place /\ at \notin {"in", "out", "next", "dma"}
  BY <1>1, <1>3, <1>4, BusyIsUnderway
<1>6. drive.left \in 1 .. request.count
  <2>1. drive.left \in 0 .. request.count
    BY <1>5 DEF Progress
  <2>2. request.count \in Nat
    BY <1>4, CountsAreNumbers
  <2> QED BY <1>1, <2>1, <2>2
<1> QED BY <1>1, <1>2, <1>3, <1>5, <1>6

\* One sector more is done.
LEMMA OneSectorMore ==
  ASSUME CommandInv, at \in Active, Progress, drive.left \in 1 .. request.count,
         request' = request, drive'.left = drive.left - 1
  PROVE  /\ drive'.left \in 0 .. request'.count
         /\ drive'.left < request'.count
         /\ Done' = Done + 1 /\ request'.sector + Done' = drive.sector + 1
         /\ Done' * SectorSize = moved + SectorSize
         /\ moved \in Nat /\ moved + SectorSize <= request.count * SectorSize
         /\ drive.sector * SectorSize = request.sector * SectorSize + moved
<1>1. /\ request.count \in Nat /\ request.sector \in Nat /\ SectorSize \in Nat \ {0}
  BY CountsAreNumbers
<1>2. drive.sector = request.sector + Done /\ moved = Done * SectorSize
  BY DEF Progress
<1>3. Done \in Nat /\ Done + 1 <= request.count /\ Done' = Done + 1
  BY <1>1 DEF Done
<1>4. (Done + 1) * SectorSize = moved + SectorSize
  BY <1>1, <1>2, <1>3
<1>5. moved \in Nat
  BY <1>1, <1>2, <1>3
<1>6. (Done + 1) * SectorSize <= request.count * SectorSize
  BY <1>1, <1>3, ProductOrder
<1>7. (request.sector + Done) * SectorSize = request.sector * SectorSize + Done * SectorSize
  BY <1>1, <1>3
<1>8. drive'.left \in 0 .. request'.count /\ drive'.left < request'.count
  BY <1>1
<1>9. request'.sector + Done' = drive.sector + 1
  BY <1>1, <1>2, <1>3
<1> QED BY <1>2, <1>3, <1>4, <1>5, <1>6, <1>7, <1>8, <1>9

LEMMA BusMasterMovesKeepsCommands ==
  ASSUME MindrvrInv, CommandInv, BusMasterMoves PROVE CommandInv'
<1>1. /\ Sound /\ at = "wait" /\ request.op = "dma" /\ drive.bsy
      /\ Progress /\ Place /\ drive.left \in 1 .. request.count
  BY BusMasterIsUnderway
<1>2. /\ UNCHANGED <<at, request, numSect, bufAddr, types, ec, status, faulted, hits, intrq, bm>>
      /\ drive' = [drive EXCEPT !.sector = @ + 1, !.left = @ - 1]
      /\ moved' = moved + SectorSize
  BY DEF BusMasterMoves, driverVars, lines
<1>3. /\ drive'.bsy = drive.bsy /\ drive'.err = drive.err /\ drive'.drq = drive.drq
      /\ drive'.op = drive.op /\ drive'.sector = drive.sector + 1 /\ drive'.left = drive.left - 1
  BY <1>2 DEF MindrvrInv, Records
<1>4. at \in Active
  BY <1>1 DEF Active
<1>5. /\ drive'.left \in 0 .. request'.count
      /\ request'.sector + Done' = drive.sector + 1
      /\ Done' * SectorSize = moved + SectorSize
  BY <1>1, <1>2, <1>3, <1>4, OneSectorMore
<1>6. /\ drive.op \in {request.op, "refused"}
      /\ ~drive.drq /\ ~drive.err /\ ~intrq /\ hits = 0
  BY <1>1 DEF Progress
<1>7. Progress'
  BY <1>1, <1>2, <1>3, <1>5, <1>6 DEF Progress
<1>8. Place'
  BY <1>1, <1>2, <1>3 DEF Place, Interrupted
<1>9. Faults' /\ Rested' /\ Detected'
  BY <1>1, <1>2, <1>3 DEF CommandInv, Faults, Rested, Detected, Detecting
<1>10. Requested'
  BY <1>1, <1>2 DEF CommandInv, Requested
<1> QED BY <1>7, <1>8, <1>9, <1>10 DEF CommandInv, Underway

\* Nothing of a command changes.
LEMMA CommandsAreKept ==
  ASSUME CommandInv,
         UNCHANGED <<at, request, numSect, bufAddr, types, ec, status, hits, intrq, bm, drive,
                     moved, faulted>>
  PROVE  CommandInv'
<1>1. Faults' /\ Rested' /\ Detected' /\ Requested'
  BY DEF CommandInv, Faults, Rested, Detected, Requested, Rest, Sound
<1>2. (Progress => Progress') /\ (Place => Place')
  BY DEF Progress, Place, Done, Interrupted, HasAnswered, Silent, Looked, Checking, Rest, Stat
<1> QED BY <1>1, <1>2 DEF CommandInv, Underway, Sound

LEMMA ResetEndsKeepsCommands == ASSUME MindrvrInv, CommandInv, ResetEnds PROVE CommandInv'
<1>1. UNCHANGED <<at, request, numSect, bufAddr, types, ec, status, hits, intrq, bm, moved,
                  faulted>>
  BY DEF ResetEnds, driverVars, lines
<1>2. CASE drive' = drive
  BY <1>1, <1>2, CommandsAreKept
<1>3. CASE drive.bsy /\ drive.op = "reset" /\ drive' = IdleDrive
  <2>1. /\ drive'.bsy = FALSE /\ drive'.err = FALSE /\ drive'.drq = FALSE /\ drive'.op = "none"
    BY <1>3 DEF IdleDrive
  <2>2. Faults' /\ Rested' /\ Detected' /\ Requested'
    BY <1>1, <1>3, <2>1 DEF CommandInv, Faults, Rested, Detected, Requested, Rest, Sound
  <2>3. ~(Sound /\ at \in Active \ {"select"})
    BY <1>3, BusyIsUnderway
  <2> QED BY <1>1, <2>2, <2>3 DEF CommandInv, Underway, Sound
<1> QED BY <1>2, <1>3 DEF ResetEnds

-----------------------------------------------------------------------------
(* Detection and requests keep the invariant of commands.                  *)

LEMMA DetectKeepsCommands == ASSUME MindrvrInv, CommandInv, Detect PROVE CommandInv'
<1>1. /\ at = "config" /\ at' = "reset0"
      /\ \/ drive' = drive
         \/ drive' = [IdleDrive EXCEPT !.bsy = TRUE, !.op = "reset"]
      /\ UNCHANGED <<ec, status, hits, bm, moved, faulted>>
  BY DEF Detect, lines
<1>2. \/ drive' = drive
      \/ drive'.err = FALSE /\ drive'.drq = FALSE /\ drive'.op = "reset"
  BY <1>1 DEF IdleDrive
<1>3. Faults' /\ Detected'
  BY <1>1, <1>2 DEF CommandInv, Faults, Detected, Detecting
<1> QED BY <1>1, <1>3 DEF CommandInv, Rested, Requested, Underway, Active, Transferring

LEMMA AwaitDrive0KeepsCommands == ASSUME MindrvrInv, CommandInv, AwaitDrive0 PROVE CommandInv'
<1>1. /\ at = "reset0" /\ at' = "reset1"
      /\ (ec' = ec /\ faulted' = faulted) \/ faulted'
      /\ UNCHANGED <<drive, status, hits, bm, moved>>
  BY DEF AwaitDrive0
<1>2. Faults' /\ Detected'
  BY <1>1 DEF CommandInv, Faults, Detected, Detecting
<1> QED BY <1>1, <1>2 DEF CommandInv, Rested, Requested, Underway, Active, Transferring

\* A drive 0 that is known and has left no error is at rest.
LEMMA AwaitDrive1KeepsCommands == ASSUME MindrvrInv, CommandInv, AwaitDrive1 PROVE CommandInv'
<1>1. /\ at = "reset1" /\ at' = "found"
      /\ (ec' = ec /\ faulted' = faulted) \/ (ec' \in {2, 3} /\ faulted')
      /\ types'[0] = Classify(0, drive.bsy)
      /\ UNCHANGED <<drive, status, hits, bm, moved>>
  BY DEF AwaitDrive1, lines
<1>2. Faults' /\ Detected'
  BY <1>1 DEF CommandInv, Faults, Detected, Detecting
<1>3. ASSUME Sound' PROVE Rest
  <2>1. ec = 0
    BY <1>1, <1>3 DEF Sound
  <2>2. ~drive.drq /\ hits = 0
    BY <1>1 DEF CommandInv, Detected, Detecting
  <2>3. CASE types[0] = "unknown"
    <3>1. Classify(0, drive.bsy) \in Known
      BY <1>1, <1>3 DEF Sound
    <3>2. ~drive.bsy
      BY <2>3, <3>1 DEF Classify, Known
    <3> QED BY <2>2, <3>2 DEF Rest
  <2>4. CASE types[0] # "unknown"
    <3>1. types[0] \in Known
      BY <1>1, <1>3, <2>4 DEF Sound, Classify
    <3>2. ~drive.bsy
      BY <1>1, <2>1, <3>1 DEF MindrvrInv, DrivesAreFound, Known
    <3> QED BY <2>2, <3>2 DEF Rest
  <2> QED BY <2>3, <2>4
<1>4. Rested'
  BY <1>1, <1>3 DEF Rested, Rest
<1> QED BY <1>1, <1>2, <1>4 DEF CommandInv, Requested, Underway, Active, Transferring

LEMMA ReadBootRecordKeepsCommands ==
  ASSUME MindrvrInv, CommandInv, ReadBootRecord PROVE CommandInv'
<1>1. /\ at = "found"
      /\ UNCHANGED <<types, ec, status, hits, bm, drive, moved, faulted>>
      /\ \/ at' = "exited"
         \/ /\ at' = "select"
            /\ request' = [op |-> "read", sector |-> 0, count |-> 1, buffer |-> MbrBuffer]
            /\ numSect' = 1 /\ bufAddr' = MbrBuffer
  BY DEF ReadBootRecord, lines
<1>2. Faults' /\ Rested' /\ Detected'
  BY <1>1 DEF CommandInv, Faults, Rested, Detected, Detecting, Rest, Sound
<1>3. Requested'
  <2>1. 1 \in 1 .. MaxTransfer
    BY MindrvrAssumption
  <2>2. moved = 0
    BY <1>1 DEF CommandInv, Detected
  <2>3. CASE at' = "exited"
    BY <2>3 DEF Requested, Active, Transferring
  <2>4. CASE at' = "select" /\ request'.op = "read" /\ request'.sector = 0 /\ request'.count = 1
             /\ request'.buffer = MbrBuffer /\ numSect' = 1 /\ bufAddr' = MbrBuffer
    BY <1>1, <2>1, <2>2, <2>4 DEF Requested
  <2> QED BY <1>1, <2>3, <2>4
<1>4. Underway'
  BY <1>1 DEF Underway, Active, Transferring
<1> QED BY <1>2, <1>3, <1>4 DEF CommandInv

\* main asks for a command when nothing is under way.
LEMMA BeginKeepsCommands ==
  ASSUME CommandInv, at = "idle", at' = "select",
         NEW op \in {"read", "write", "dma"}, NEW sector \in Sectors, NEW n \in 1 .. MaxTransfer,
         NEW buffer \in Buffers,
         Begin([op |-> op, sector |-> sector, count |-> n, buffer |-> buffer]),
         op = "dma" => bm'.prds = PrdList(buffer, n * SectorSize),
         bm'.err => bm.err, UNCHANGED <<types, ec, status, hits, drive, faulted>>
  PROVE  CommandInv'
<1>1. /\ request' = [op |-> op, sector |-> sector, count |-> n, buffer |-> buffer]
      /\ numSect' = request'.count /\ bufAddr' = request'.buffer /\ moved' = 0
  BY DEF Begin
<1>2. Faults' /\ Rested' /\ Detected'
  BY <1>1 DEF CommandInv, Faults, Rested, Detected, Detecting, Rest, Sound
<1>3. Requested'
  BY <1>1 DEF Requested
<1>4. Underway'
  BY DEF Underway
<1> QED BY <1>2, <1>3, <1>4 DEF CommandInv

LEMMA StartPioKeepsCommands ==
  ASSUME MindrvrInv, CommandInv, NEW op \in {"read", "write"}, NEW sector \in Sectors,
         NEW n \in 1 .. MaxTransfer, NEW buffer \in Buffers, StartPio(op, sector, n, buffer)
  PROVE  CommandInv'
<1>1. /\ at = "idle" /\ at' = "select"
      /\ Begin([op |-> op, sector |-> sector, count |-> n, buffer |-> buffer])
      /\ UNCHANGED <<types, ec, status, hits, drive, faulted>>
      /\ bm' = [bm EXCEPT !.err = @ /\ ~dma]
  BY DEF StartPio, MayStart
<1>2. bm'.err => bm.err
  BY <1>1 DEF MindrvrInv, Records
<1> QED BY <1>1, <1>2, BeginKeepsCommands

\* The list is never too long.
LEMMA StartDmaSelects ==
  ASSUME NEW sector, NEW n \in 1 .. MaxTransfer, NEW buffer \in Buffers, StartDma(sector, n, buffer)
  PROVE  /\ at = "idle" /\ at' = "select"
         /\ Begin([op |-> "dma", sector |-> sector, count |-> n, buffer |-> buffer])
         /\ bm'.prds = PrdList(buffer, n * SectorSize) /\ bm'.err = FALSE
         /\ UNCHANGED <<types, ec, status, hits, drive, faulted, disk, memory, result>>
<1>1. buffer \in Nat
  BY MindrvrAssumption
<1>2. PrdList(buffer, n * SectorSize) \in Seq(Entries)
  <2>1. n * SectorSize \in Nat
    BY MindrvrAssumption
  <2> QED BY <1>1, <2>1, PrdListCovers
<1>3. Len(PrdList(buffer, n * SectorSize)) <= MaxPrd
  BY <1>1, PrdListFits
<1>4. ~(Len(PrdList(buffer, n * SectorSize)) > MaxPrd)
  <2>1. Len(PrdList(buffer, n * SectorSize)) \in Nat /\ MaxPrd \in Nat
    BY <1>2, MindrvrAssumption
  <2> QED BY <1>3, <2>1
<1> QED BY <1>4 DEF StartDma, MayStart

LEMMA StartDmaKeepsCommands ==
  ASSUME MindrvrInv, CommandInv, NEW sector \in Sectors,
         NEW n \in 1 .. MaxTransfer, NEW buffer \in Buffers, StartDma(sector, n, buffer)
  PROVE  CommandInv'
BY StartDmaSelects, BeginKeepsCommands

LEMMA SetBar4KeepsCommands == ASSUME MindrvrInv, CommandInv, SetBar4 PROVE CommandInv'
BY CommandsAreKept DEF SetBar4, lines

-----------------------------------------------------------------------------
(* The driver keeps the invariant of commands.                             *)

\* A drive that takes a command takes all of it.
LEMMA CountIsWhole ==
  ASSUME NEW n \in 1 .. MaxTransfer
  PROVE  (IF n % MaxTransfer = 0 THEN MaxTransfer ELSE n % MaxTransfer) = n
<1>1. MaxTransfer \in Nat \ {0}
  BY MindrvrAssumption
<1>2. CASE n = MaxTransfer
  <2>1. n = 1 * MaxTransfer + 0 /\ 0 \in 0 .. MaxTransfer - 1
    BY <1>1, <1>2
  <2>2. n % MaxTransfer = 0
    BY <1>1, <2>1, QuotientIs
  <2> QED BY <1>2, <2>2
<1>3. CASE n # MaxTransfer
  <2>1. n = 0 * MaxTransfer + n /\ n \in 0 .. MaxTransfer - 1 /\ n # 0
    BY <1>1, <1>3
  <2>2. n % MaxTransfer = n
    BY <1>1, <2>1, QuotientIs
  <2> QED BY <2>1, <2>2
<1> QED BY <1>2, <1>3

\* A command ends with an error.
LEMMA FailureKeepsCommands ==
  ASSUME MindrvrInv, CommandInv, at \notin Detecting \cup {"found"}, NEW e, e # 0, End(e),
         faulted', UNCHANGED <<types, drive>>
  PROVE  CommandInv'
<1>1. at' \in {"panicked", "idle"} /\ ec' = e
  BY DEF End
<1>2. Faults' /\ Rested' /\ Detected' /\ Requested'
  BY <1>1 DEF Faults, Rested, Detected, Detecting, Requested, Active, Transferring, Sound
<1>3. Underway'
  BY <1>1 DEF Underway, Active, Transferring
<1> QED BY <1>2, <1>3 DEF CommandInv

\* A command ends well.
LEMMA SuccessKeepsCommands ==
  ASSUME MindrvrInv, CommandInv, End(0), Rest, UNCHANGED <<types, drive, hits>>,
         bm'.err => bm.err, status' = status, faulted' = faulted
  PROVE  CommandInv'
<1>1. at' \in {"panicked", "idle"} /\ ec' = 0
  BY DEF End
<1>2. Rested' /\ Detected' /\ Requested'
  BY <1>1 DEF Rested, Rest, Detected, Detecting, Requested, Active, Transferring
<1>3. Underway'
  BY <1>1 DEF Underway, Active, Transferring
<1>4. Faults'
  BY <1>1 DEF CommandInv, Faults
<1> QED BY <1>2, <1>3, <1>4 DEF CommandInv

\* A known drive that is selected without an error is at rest, and takes the
\* command.
LEMMA IssueKeepsCommands ==
  ASSUME MindrvrInv, CommandInv, at = "select", Issue, intrq' = FALSE,
         UNCHANGED <<request, numSect, bufAddr, types, status, hits, moved, faulted, kinds>>
  PROVE  CommandInv'
<1>1. /\ drive' = Accept(request.op, request.sector, request.count % MaxTransfer)
      /\ bm' = [bm EXCEPT !.start = (request.op = "dma")]
      /\ at' = IF request.op = "write" THEN "poll" ELSE "wait"
      /\ ec' = ec
  BY DEF Issue, Continue
<1>2. bm'.err = bm.err /\ bm'.prds = bm.prds
  BY <1>1 DEF MindrvrInv, Records
<1>3. \/ drive' = drive
      \/ drive'.err = FALSE
  BY <1>1 DEF Accept
<1>4. Faults' /\ Rested' /\ Detected'
  BY <1>1, <1>2, <1>3 DEF CommandInv, Faults, Rested, Detected, Detecting
<1>5. at \in Active /\ at' \in {"wait", "poll"}
  BY <1>1 DEF Active
<1>6. Requested'
  BY <1>1, <1>2, <1>5 DEF CommandInv, Requested
<1>7. ASSUME Sound PROVE Progress' /\ Place'
  <2>1. ~drive.bsy /\ ~drive.drq /\ hits = 0
    BY <1>7 DEF CommandInv, Rested, Rest
  <2>2. kinds[0] # "none"
    BY <1>7 DEF MindrvrInv, DrivesAreFound, Detecting, Sound, Known
  <2>3. /\ request.count \in 1 .. MaxTransfer
        /\ moved = 0 /\ numSect = request.count /\ bufAddr = request.buffer
    BY <1>5 DEF CommandInv, Requested
  <2>4. (IF request.count % MaxTransfer = 0 THEN MaxTransfer ELSE request.count % MaxTransfer)
          = request.count
    BY <2>3, CountIsWhole
  <2>5. /\ drive'.bsy = TRUE /\ drive'.drq = FALSE /\ drive'.err = FALSE
        /\ drive'.op \in {request.op, "refused"} /\ drive'.sector = request.sector
        /\ drive'.left = request.count
    BY <1>1, <2>1, <2>2, <2>4 DEF Accept
  <2>6. /\ request.count \in Nat /\ request.count >= 1 /\ request.sector \in Nat
        /\ request.buffer \in Nat /\ SectorSize \in Nat
    BY <1>5, CountsAreNumbers
  <2>7. /\ drive'.left \in 0 .. request'.count
        /\ Done' = 0 /\ request'.sector + Done' = request.sector
        /\ Done' * SectorSize = 0 /\ request.buffer + 0 = request.buffer
    BY <2>5, <2>6 DEF Done
  <2>8. Progress'
    BY <2>1, <2>3, <2>5, <2>7 DEF Progress
  <2>9. Place'
    BY <1>1, <1>5, <2>5, <2>6 DEF Place, Interrupted
  <2> QED BY <2>8, <2>9
<1> QED BY <1>1, <1>4, <1>6, <1>7 DEF CommandInv, Underway, Sound

LEMMA SelectKeepsCommands == ASSUME MindrvrInv, CommandInv, Select PROVE CommandInv'
<1>1. /\ at = "select" /\ intrq' = FALSE
      /\ UNCHANGED <<request, numSect, bufAddr, types, status, hits, moved, faulted, kinds>>
      /\ \/ Issue
         \/ ec # 0 /\ End(ec) /\ UNCHANGED drive
  BY DEF Select, driverVars, SelectFails
<1>2. CASE Issue
  BY <1>1, <1>2, IssueKeepsCommands
<1>3. CASE ec # 0 /\ End(ec) /\ UNCHANGED drive
  <2>1. faulted' /\ at \notin Detecting \cup {"found"}
    BY <1>1, <1>3 DEF CommandInv, Faults, Detecting
  <2> QED BY <1>1, <1>3, <2>1, FailureKeepsCommands
<1> QED BY <1>1, <1>2, <1>3

LEMMA SelectTimesOutKeepsCommands ==
  ASSUME MindrvrInv, CommandInv, SelectTimesOut PROVE CommandInv'
<1>1. /\ at = "select" /\ End(11) /\ UNCHANGED <<types, drive>>
      /\ types[0] \in Known /\ (drive.bsy \/ drive.drq)
      /\ faulted => faulted'
  BY DEF SelectTimesOut, driverVars, Known
<1>2. ec # 0
  BY <1>1 DEF CommandInv, Rested, Rest, Sound
<1>3. faulted' /\ at \notin Detecting \cup {"found"} /\ 11 # 0
  BY <1>1, <1>2 DEF CommandInv, Faults, Detecting
<1> QED BY <1>1, <1>3, FailureKeepsCommands

\* What waits for an interrupt is a command of a sound drive, or the boot record.
LEMMA WaitIsSound ==
  ASSUME MindrvrInv, CommandInv, at = "wait"
  PROVE  /\ Sound \/ ec # 0 \/ (kinds[0] = "none" /\ hits = 0)
         /\ ec # 0 => request.op = "read" /\ faulted
         /\ Sound => Progress /\ Place
         /\ at \in Active /\ at \notin Detecting \cup {"found"}
<1>1. at \in Active /\ at \notin Detecting \cup {"found"}
  BY DEF Active, Detecting
<1>2. ec # 0 => request.op = "read" /\ faulted
  BY DEF MindrvrInv, ErrorsEnd, CommandInv, Faults
<1>3. Sound => Progress /\ Place
  BY <1>1 DEF CommandInv, Underway
<1>4. Sound \/ ec # 0 \/ (kinds[0] = "none" /\ hits = 0)
  BY DEF MindrvrInv, DrivesAreFound, Detecting, Sound, Known
<1> QED BY <1>1, <1>2, <1>3, <1>4

LEMMA WaitKeepsCommands == ASSUME MindrvrInv, CommandInv, Wait PROVE CommandInv'
<1>1. /\ at = "wait" /\ hits > 0 /\ hits' = hits - 1
      /\ bm' = [bm EXCEPT !.int = @ /\ ~dma]
      /\ UNCHANGED <<request, numSect, bufAddr, types, drive, moved, faulted>>
  BY DEF Wait, TakeStatus, driverVars
<1>2. bm'.err = bm.err /\ bm'.prds = bm.prds
  BY <1>1 DEF MindrvrInv, Records
<1>3. CASE ec # 0
  <2>1. End(Final(ec)) /\ Final(ec) # 0 /\ faulted'
    BY <1>1, <1>3, WaitIsSound DEF Wait, Final
  <2> QED BY <1>1, <2>1, WaitIsSound, FailureKeepsCommands
<1>4. CASE ec = 0
  <2>1. Sound /\ Progress /\ Place /\ at \in Active
    <3>1. hits # 0
      BY <1>1
    <3> QED BY <1>1, <1>4, <3>1, WaitIsSound
  <2>2. ~drive.bsy /\ hits = 1 /\ bm.int /\ HasAnswered
    <3>1. ~drive.bsy
      BY <1>1, <2>1 DEF Progress
    <3> QED BY <1>1, <2>1, <3>1 DEF Place, Interrupted
  <2>3. ReadsStatus
    BY <2>2 DEF ReadsStatus
  <2>4. /\ at' = AfterWait /\ ec' = ec /\ ~intrq' /\ status' = Stat
    BY <1>1, <1>4, <2>3 DEF Wait, Continue, TakeStatus
  <2>5. hits' = 0
    BY <1>1, <2>2
  <2>6. /\ request.op \in {"read", "write", "dma"}
        /\ request.op = "read" => at' = "in"
        /\ request.op = "write" => at' = "next"
        /\ request.op = "dma" => at' = "dma"
    <3>1. request.op \in {"read", "write", "dma"}
      BY <2>1 DEF CommandInv, Requested
    <3> QED BY <2>4, <3>1, Zenon DEF AfterWait
  <2>7. status'.err = drive.err
    BY <2>4 DEF Stat
  <2>8. Faults' /\ Rested' /\ Detected'
    BY <1>1, <1>2, <1>4, <2>4, <2>6, <2>7 DEF CommandInv, Faults, Rested, Detected, Detecting
  <2>9. Requested'
    BY <1>1, <1>2, <2>1, <2>6 DEF CommandInv, Requested
  <2>10. Looked'
    BY <1>1, <2>2, <2>4, <2>5 DEF Looked, Stat, HasAnswered, Silent
  <2>11. Progress'
    BY <1>1, <2>1, <2>2 DEF Progress, Done
  <2>12. Place'
    BY <1>1, <2>1, <2>6, <2>10 DEF Place
  <2> QED BY <2>8, <2>9, <2>11, <2>12 DEF CommandInv, Underway
<1> QED BY <1>3, <1>4

\* A drive that was in time is no longer busy, and then its interrupt has come.
LEMMA WaitTimesOutKeepsCommands ==
  ASSUME MindrvrInv, CommandInv, WaitTimesOut PROVE CommandInv'
<1> DEFINE e == IF request.op = "dma" THEN 73 ELSE Final(TimeOutCode)
<1>1. /\ at = "wait" /\ hits = 0 /\ End(e) /\ UNCHANGED <<types, drive>>
      /\ faulted \/ drive.bsy \/ kinds[0] = "none" => faulted'
  BY DEF WaitTimesOut, driverVars
<1>2. e # 0
  BY DEF Final, TimeOutCode
<1>3. faulted'
  <2>1. Sound => drive.bsy
    BY <1>1, WaitIsSound DEF Place, Interrupted
  <2> QED BY <1>1, <2>1, WaitIsSound
<1> HIDE DEF e
<1> QED BY <1>1, <1>2, <1>3, WaitIsSound, FailureKeepsCommands

\* What the driver finds at a place where data is moved or looked at.
LEMMA PlaceGives ==
  ASSUME MindrvrInv, CommandInv, at \in Transferring
  PROVE  /\ Sound /\ Progress /\ Place /\ at \in Active /\ at \in Active \ {"select"}
         /\ at \notin Detecting \cup {"found"}
<1>1. Sound /\ at \notin Detecting \cup {"found"}
  BY TransferringIsSound DEF Sound
<1>2. at \in Active /\ at \in Active \ {"select"}
  BY DEF Active, Transferring
<1> QED BY <1>1, <1>2 DEF CommandInv, Underway

\* A sector goes through the data register: by ports, in a command for reading
\* or writing.
LEMMA SectorKeepsProgress ==
  ASSUME MindrvrInv, CommandInv, at \in {"in", "out"}, Looked, drive.left > 0, Progress,
         drive.drq, numSect' = numSect - 1, bufAddr' = NextBuffer, moved' = moved + SectorSize,
         NEW b \in BOOLEAN, b => ~drive.err,
         drive' = [drive EXCEPT !.drq = FALSE, !.sector = @ + 1, !.left = @ - 1, !.bsy = b],
         UNCHANGED <<request, intrq, hits>>
  PROVE  /\ Progress' /\ drive'.left < request'.count
         /\ drive'.bsy = b /\ drive'.err = drive.err /\ drive'.drq = FALSE
         /\ drive'.left = drive.left - 1
<1>1. /\ drive'.bsy = b /\ drive'.err = drive.err /\ drive'.drq = FALSE /\ drive'.op = drive.op
      /\ drive'.sector = drive.sector + 1 /\ drive'.left = drive.left - 1
  BY DEF MindrvrInv, Records
<1>2. at \in Active /\ request.op # "dma"
  BY DEF Active, Transferring, CommandInv, Requested
<1>3. drive.left \in 1 .. request.count
  <2>1. drive.left \in 0 .. request.count /\ request.count \in Nat
    BY <1>2, CountsAreNumbers DEF Progress
  <2> QED BY <2>1
<1>4. /\ drive'.left \in 0 .. request'.count /\ drive'.left < request'.count
      /\ request'.sector + Done' = drive.sector + 1
      /\ Done' * SectorSize = moved + SectorSize
      /\ moved \in Nat
  BY <1>1, <1>2, <1>3, OneSectorMore
<1>5. numSect = drive.left /\ bufAddr = request.buffer + moved
  BY <1>2 DEF Progress
<1>6. bufAddr' = request'.buffer + moved'
  <2>1. request.buffer \in Nat /\ SectorSize \in Nat
    BY <1>2, CountsAreNumbers
  <2> QED BY <1>4, <1>5, <2>1 DEF NextBuffer
<1>7. b => ~intrq' /\ hits' = 0
  BY DEF Looked, Silent
<1>8. drive'.op \in {request'.op, "refused"}
  BY <1>1 DEF Progress
<1>9. Progress'
  BY <1>1, <1>4, <1>5, <1>6, <1>7, <1>8 DEF Progress
<1> QED BY <1>1, <1>4, <1>9

LEMMA TransferInKeepsCommands == ASSUME MindrvrInv, CommandInv, TransferIn PROVE CommandInv'
<1>1. /\ at = "in" /\ at' = "inCheck" /\ ec' = ec
      /\ UNCHANGED <<request, types, status, hits, intrq, bm, faulted>>
  BY DEF TransferIn, Continue, lines
<1>2. /\ Sound /\ Progress /\ Place /\ at \in Active
      /\ Looked /\ drive.left > 0 /\ request.op = "read"
  <2>1. at \in Transferring
    BY <1>1 DEF Transferring
  <2> QED BY <1>1, <2>1, PlaceGives DEF Place, CommandInv, Requested
<1>3. /\ ~drive.bsy /\ status.bsy = drive.bsy /\ status.drq = drive.drq /\ status.err = drive.err
      /\ drive.err \/ drive.drq
  BY <1>2 DEF Looked, Stat, HasAnswered
<1>4. /\ Progress' /\ (drive'.bsy => drive'.left # 0 /\ ~drive.err)
      /\ drive'.err = drive.err
      /\ ~drive.err => ~drive'.drq /\ (drive'.left # 0 => drive'.bsy)
  <2>1. CASE drive.drq
    <3> DEFINE b == drive.left > 1 /\ ~drive.err
    <3>1. /\ numSect' = numSect - 1 /\ bufAddr' = NextBuffer /\ moved' = moved + SectorSize
          /\ drive' = [drive EXCEPT !.drq = FALSE, !.sector = @ + 1, !.left = @ - 1, !.bsy = b]
      BY <1>3, <2>1 DEF TransferIn, Ready
    <3>2. b \in BOOLEAN /\ (b => ~drive.err)
      OBVIOUS
    <3>3. /\ Progress'
          /\ drive'.bsy = b /\ drive'.err = drive.err /\ drive'.drq = FALSE
          /\ drive'.left = drive.left - 1
      <4> HIDE DEF b
      <4> QED BY <1>1, <1>2, <2>1, <3>1, <3>2, SectorKeepsProgress
    <3>4. drive.left \in Nat
      <4>1. drive.left \in 0 .. request.count /\ request.count \in Nat
        BY <1>2, CountsAreNumbers DEF Progress
      <4> QED BY <4>1
    <3>5. drive'.left # 0 <=> drive.left > 1
      BY <1>2, <3>3, <3>4
    <3>6. drive'.bsy <=> drive.left > 1 /\ ~drive.err
      BY <3>3
    <3> HIDE DEF b
    <3> QED BY <3>3, <3>5, <3>6, Zenon
  <2>2. CASE ~drive.drq
    <3>1. drive' = drive /\ numSect' = numSect /\ bufAddr' = bufAddr /\ moved' = moved
      BY <1>3, <2>2 DEF TransferIn, Ready
    <3>2. Progress'
      BY <1>1, <1>2, <3>1 DEF Progress, Done
    <3> QED BY <1>3, <2>2, <3>1, <3>2
  <2> QED BY <2>1, <2>2
<1>5. Place'
  <2>1. Checking'
    BY <1>1, <1>3, <1>4 DEF Checking
  <2>2. ~status'.err => IF drive'.left = 0 THEN Rest' /\ ~drive'.err ELSE Interrupted'
    BY <1>1, <1>2, <1>3, <1>4 DEF Rest, Interrupted, Looked, Silent
  <2> QED BY <1>1, <2>1, <2>2 DEF Place
<1>6. Faults' /\ Rested' /\ Detected'
  BY <1>1, <1>4 DEF CommandInv, Faults, Rested, Detected, Detecting
<1>7. Requested'
  BY <1>1, <1>2 DEF CommandInv, Requested
<1> QED BY <1>4, <1>5, <1>6, <1>7 DEF CommandInv, Underway

LEMMA TransferOutKeepsCommands == ASSUME MindrvrInv, CommandInv, TransferOut PROVE CommandInv'
<1>1. /\ at = "out" /\ at' = "outCheck" /\ ec' = ec
      /\ UNCHANGED <<request, types, status, hits, intrq, bm, faulted>>
  BY DEF TransferOut, Continue, lines
<1>2. /\ Sound /\ Progress /\ Place /\ at \in Active
      /\ Looked /\ drive.left > 0 /\ request.op = "write"
  <2>1. at \in Transferring
    BY <1>1 DEF Transferring
  <2> QED BY <1>1, <2>1, PlaceGives DEF Place, CommandInv, Requested
<1>3. /\ ~drive.bsy /\ status.bsy = drive.bsy /\ status.drq = drive.drq /\ status.err = drive.err
      /\ drive.err \/ drive.drq
  BY <1>2 DEF Looked, Stat, HasAnswered
<1>4. /\ Progress' /\ (drive'.bsy => ~drive.err)
      /\ drive'.err = drive.err
      /\ ~drive.err => drive'.bsy /\ drive'.left < request'.count
  <2>1. CASE drive.drq
    <3> DEFINE b == ~drive.err
    <3>1. /\ numSect' = numSect - 1 /\ bufAddr' = NextBuffer /\ moved' = moved + SectorSize
          /\ drive' = [drive EXCEPT !.drq = FALSE, !.sector = @ + 1, !.left = @ - 1, !.bsy = b]
      BY <1>3, <2>1 DEF TransferOut, Ready
    <3>2. b \in BOOLEAN /\ (b => ~drive.err)
      OBVIOUS
    <3>3. /\ Progress' /\ drive'.left < request'.count
          /\ drive'.bsy = b /\ drive'.err = drive.err
      <4> HIDE DEF b
      <4> QED BY <1>1, <1>2, <2>1, <3>1, <3>2, SectorKeepsProgress
    <3> QED BY <3>3
  <2>2. CASE ~drive.drq
    <3>1. drive' = drive /\ numSect' = numSect /\ bufAddr' = bufAddr /\ moved' = moved
      BY <1>3, <2>2 DEF TransferOut, Ready
    <3>2. Progress'
      BY <1>1, <1>2, <3>1 DEF Progress, Done
    <3> QED BY <1>3, <2>2, <3>1, <3>2
  <2> QED BY <2>1, <2>2
<1>5. Place'
  <2>1. Checking'
    BY <1>1, <1>3, <1>4 DEF Checking
  <2>2. ~status'.err => drive'.left < request'.count /\ Interrupted'
    BY <1>1, <1>3, <1>4 DEF Interrupted
  <2> QED BY <1>1, <2>1, <2>2 DEF Place
<1>6. Faults' /\ Rested' /\ Detected'
  BY <1>1, <1>4 DEF CommandInv, Faults, Rested, Detected, Detecting
<1>7. Requested'
  BY <1>1, <1>2 DEF CommandInv, Requested
<1> QED BY <1>4, <1>5, <1>6, <1>7 DEF CommandInv, Underway

\* From a place between transfers the command goes on.
LEMMA GoesOnKeepsCommands ==
  ASSUME MindrvrInv, CommandInv, at \in Transferring, NEW w \in Active \ {"select"}, Continue(w),
         UNCHANGED <<request, numSect, bufAddr, types, hits, bm, drive, moved, faulted>>,
         status'.err => drive.err \/ status.err,
         ~intrq => ~intrq', Place',
         /\ w \in {"in", "inCheck"} => request.op = "read"
         /\ w \in {"poll", "out", "outCheck", "next"} => request.op = "write"
         /\ w = "dma" => request.op = "dma"
  PROVE  CommandInv'
<1>1. at' = w /\ ec' = ec
  BY DEF Continue
<1>2. Sound /\ Progress /\ at \in Active
  BY PlaceGives
<1>3. Faults' /\ Rested' /\ Detected'
  BY <1>1 DEF CommandInv, Faults, Rested, Detected, Detecting, Active, Transferring
<1>4. Requested'
  BY <1>1, <1>2 DEF CommandInv, Requested
<1>5. Progress'
  BY <1>2 DEF Progress, Done
<1> QED BY <1>3, <1>4, <1>5 DEF CommandInv, Underway

\* The error codes of a check.
LEMMA FinalCode ==
  ASSUME CommandInv
  PROVE  /\ \A e : e # 0 => Final(e) # 0
         /\ Final(0) = 0 \/ (Final(0) # 0 /\ faulted)
<1>1. bm.err => faulted
  BY DEF CommandInv, Faults
<1> QED BY <1>1 DEF Final

LEMMA CheckInKeepsCommands ==
  ASSUME MindrvrInv, CommandInv, CheckIn
  PROVE  /\ CommandInv'
         /\ ec' = 0 /\ at' \notin Active => drive.left = 0
<1>1. /\ at = "inCheck" /\ at \in Transferring
      /\ UNCHANGED <<request, numSect, bufAddr, types, status, hits, bm, drive, moved, faulted>>
      /\ intrq' = intrq \/ intrq' = FALSE
  BY DEF CheckIn, driverVars, Transferring
<1>2. /\ Sound /\ Progress /\ Place /\ at \in Active /\ at \notin Detecting \cup {"found"}
      /\ request.op = "read"
  BY <1>1, PlaceGives DEF CommandInv, Requested
<1>3. /\ ~status.bsy /\ (status.err \/ status.drq) /\ (status.err => faulted)
      /\ numSect = drive.left
      /\ ~status.err => IF drive.left = 0 THEN Rest /\ ~drive.err ELSE Interrupted
  BY <1>1, <1>2 DEF Place, Checking, Progress, CommandInv, Faults
<1>4. /\ \A e : e # 0 => Final(e) # 0
      /\ Final(0) = 0 \/ (Final(0) # 0 /\ faulted)
  BY FinalCode
<1>5. CASE Bad(status)
  <2>1. End(Final(31)) /\ faulted'
    BY <1>1, <1>3, <1>5 DEF CheckIn, Bad
  <2>2. Final(31) # 0
    BY <1>4
  <2>3. ec' # 0
    BY <2>1, <2>2 DEF End
  <2> QED BY <1>1, <1>2, <2>1, <2>2, <2>3, FailureKeepsCommands
<1>6. CASE ~Bad(status) /\ numSect = 0
  <2>1. status.drq /\ drive.left = 0 /\ Rest /\ ~drive.err
    BY <1>3, <1>6 DEF Bad
  <2>2. ~(Bad(Stat) \/ drive.drq)
    BY <2>1 DEF Rest, Bad, Stat
  <2>3. ~(numSect > 0)
    BY <1>6
  <2>4. End(Final(0))
    BY <1>6, <2>1, <2>2, <2>3 DEF CheckIn
  <2>5. CASE Final(0) = 0
    BY <1>1, <2>1, <2>4, <2>5, SuccessKeepsCommands
  <2>6. CASE Final(0) # 0 /\ faulted
    <3>1. ec' # 0
      BY <2>4, <2>6 DEF End
    <3> QED BY <1>1, <1>2, <2>4, <2>6, <3>1, FailureKeepsCommands
  <2> QED BY <1>4, <2>5, <2>6
<1>7. CASE ~Bad(status) /\ numSect # 0
  <2>1. status.drq /\ Interrupted /\ drive.left > 0
    <3>1. drive.left \in 0 .. request.count /\ request.count \in Nat
      BY <1>2, CountsAreNumbers DEF Progress
    <3> QED BY <1>3, <1>7, <3>1 DEF Bad
  <2>2. Continue("wait")
    BY <1>7, <2>1 DEF CheckIn
  <2>3. at' = "wait"
    BY <2>2 DEF Continue
  <2>4. Place'
    BY <1>1, <1>2, <2>1, <2>3 DEF Place, Interrupted, HasAnswered
  <2>5. "wait" \in Active \ {"select"}
    BY DEF Active
  <2> QED BY <1>1, <1>2, <2>2, <2>3, <2>4, <2>5, GoesOnKeepsCommands
<1> QED BY <1>5, <1>6, <1>7

LEMMA PollKeepsCommands == ASSUME MindrvrInv, CommandInv, Poll PROVE CommandInv'
<1>1. /\ at = "poll" /\ at \in Transferring /\ ~drive.bsy /\ status' = Stat /\ Continue("out")
      /\ UNCHANGED <<request, numSect, bufAddr, types, hits, intrq, bm, drive, moved, faulted>>
  BY DEF Poll, driverVars, lines, Transferring
<1>2. /\ Sound /\ Progress /\ Place /\ at \in Active /\ request.op = "write"
  BY <1>1, PlaceGives DEF CommandInv, Requested
<1>3. drive.left > 0
  BY <1>1, <1>2, CountsAreNumbers DEF Place
<1>4. at' = "out"
  BY <1>1 DEF Continue
<1>5. Looked'
  BY <1>1, <1>2 DEF Place, Looked, HasAnswered, Silent, Stat
<1>6. Place'
  BY <1>1, <1>3, <1>4, <1>5 DEF Place
<1>7. status'.err => drive.err
  BY <1>1 DEF Stat
<1>8. "out" \in Active \ {"select"}
  BY DEF Active, Transferring
<1> QED BY <1>1, <1>2, <1>6, <1>7, <1>8, GoesOnKeepsCommands

LEMMA PollTimesOutKeepsCommands == ASSUME MindrvrInv, CommandInv, PollTimesOut PROVE CommandInv'
<1>1. /\ at = "poll" /\ End(Final(47)) /\ faulted' /\ UNCHANGED <<types, drive>>
  BY DEF PollTimesOut, driverVars
<1>2. Final(47) # 0 /\ at \notin Detecting \cup {"found"}
  BY <1>1 DEF Final, Detecting
<1> QED BY <1>1, <1>2, FailureKeepsCommands

LEMMA CheckOutKeepsCommands ==
  ASSUME MindrvrInv, CommandInv, CheckOut
  PROVE  CommandInv' /\ (at' \notin Active => ec' # 0)
<1>1. /\ at = "outCheck" /\ at \in Transferring
      /\ UNCHANGED <<request, numSect, bufAddr, types, status, hits, intrq, bm, drive, moved,
                     faulted>>
  BY DEF CheckOut, driverVars, lines, Transferring
<1>2. /\ Sound /\ Progress /\ Place /\ at \in Active /\ at \notin Detecting \cup {"found"}
      /\ request.op = "write"
  BY <1>1, PlaceGives DEF CommandInv, Requested
<1>3. /\ ~status.bsy /\ (status.err \/ status.drq) /\ (status.err => faulted)
      /\ ~status.err => drive.left < request.count /\ Interrupted
  BY <1>1, <1>2 DEF Place, Checking, CommandInv, Faults
<1>4. CASE Bad(status)
  <2>1. End(Final(41))
    BY <1>4, Zenon DEF CheckOut
  <2>2. Final(41) # 0 /\ faulted'
    BY <1>1, <1>3, <1>4 DEF Bad, Final
  <2>3. ec' # 0
    BY <2>1, <2>2 DEF End
  <2> QED BY <1>1, <1>2, <2>1, <2>2, <2>3, FailureKeepsCommands
<1>5. CASE ~Bad(status)
  <2>1. status.drq /\ ~status.err
    BY <1>3, <1>5 DEF Bad
  <2>2. Continue("wait")
    BY <1>5, <2>1, Zenon DEF CheckOut
  <2>3. at' = "wait" /\ at' \in Active
    BY <2>2 DEF Continue, Active
  <2>4. Place'
    BY <1>1, <1>2, <1>3, <2>1, <2>3 DEF Place, Interrupted, HasAnswered
  <2>5. "wait" \in Active \ {"select"}
    BY DEF Active
  <2> QED BY <1>1, <1>2, <2>2, <2>3, <2>4, <2>5, GoesOnKeepsCommands
<1> QED BY <1>4, <1>5

LEMMA NextOutKeepsCommands ==
  ASSUME MindrvrInv, CommandInv, NextOut
  PROVE  /\ CommandInv'
         /\ ec' = 0 /\ at' \notin Active => drive.left = 0
<1>1. /\ at = "next" /\ at \in Transferring
      /\ UNCHANGED <<request, numSect, bufAddr, types, status, hits, intrq, bm, drive, moved,
                     faulted>>
  BY DEF NextOut, driverVars, lines, Transferring
<1>2. /\ Sound /\ Progress /\ Place /\ at \in Active /\ at \notin Detecting \cup {"found"}
      /\ request.op = "write" /\ Looked
  BY <1>1, PlaceGives DEF CommandInv, Requested, Place
<1>3. numSect = drive.left /\ drive.left \in Nat
  <2>1. drive.left \in 0 .. request.count /\ request.count \in Nat
    BY <1>2, CountsAreNumbers DEF Progress
  <2> QED BY <1>2, <2>1 DEF Progress
<1>4. /\ \A e : e # 0 => Final(e) # 0
      /\ Final(0) = 0 \/ (Final(0) # 0 /\ faulted)
  BY FinalCode
<1>5. CASE numSect > 0
  <2>1. Continue("out")
    BY <1>5 DEF NextOut
  <2>2. at' = "out" /\ at' \in Active
    BY <2>1 DEF Continue, Active, Transferring
  <2>3. Looked'
    BY <1>1, <1>2 DEF Looked, HasAnswered, Silent, Stat
  <2>4. Place'
    BY <1>1, <1>3, <1>5, <2>2, <2>3 DEF Place
  <2>5. "out" \in Active \ {"select"}
    BY DEF Active, Transferring
  <2> QED BY <1>1, <1>2, <2>1, <2>2, <2>4, <2>5, GoesOnKeepsCommands
<1>6. CASE ~(numSect > 0)
  <2>1. drive.left = 0 /\ ~drive.drq /\ ~drive.bsy
    BY <1>2, <1>3, <1>6 DEF Progress, Looked
  <2>2. CASE drive.err
    <3>1. Bad(status)
      BY <1>2, <2>2 DEF Looked, Bad, Stat
    <3>2. End(Final(43)) /\ Final(43) # 0
      BY <1>4, <1>6, <3>1 DEF NextOut
    <3>3. faulted' /\ ec' # 0
      BY <1>1, <2>2, <3>2 DEF CommandInv, Faults, End
    <3> QED BY <1>1, <1>2, <3>2, <3>3, FailureKeepsCommands
  <2>3. CASE ~drive.err
    <3>1. ~(Bad(status) \/ status.drq) /\ Rest
      BY <1>2, <2>1, <2>3 DEF Looked, Bad, Stat, Rest, Silent
    <3>2. End(Final(0))
      BY <1>6, <3>1 DEF NextOut
    <3>3. CASE Final(0) = 0
      BY <1>1, <2>1, <3>1, <3>2, <3>3, SuccessKeepsCommands
    <3>4. CASE Final(0) # 0 /\ faulted
      <4>1. ec' # 0
        BY <3>2, <3>4 DEF End
      <4> QED BY <1>1, <1>2, <3>2, <3>4, <4>1, FailureKeepsCommands
    <3> QED BY <1>4, <3>3, <3>4
  <2> QED BY <2>2, <2>3
<1> QED BY <1>5, <1>6

LEMMA CheckDmaKeepsCommands ==
  ASSUME MindrvrInv, CommandInv, CheckDma
  PROVE  /\ CommandInv'
         /\ ec' = 0 => drive.left = 0
<1> DEFINE e == CASE ec # 0                       -> ec
                  [] ec = 0 /\ bm.err             -> 78
                  [] ec = 0 /\ ~bm.err /\ (Bad(status) \/ status.drq) -> 74
                  [] OTHER                        -> 0
<1>1. /\ at = "dma" /\ at \in Transferring /\ End(e)
      /\ bm' = [bm EXCEPT !.start = FALSE]
      /\ UNCHANGED <<request, types, status, hits, drive, moved, faulted>>
  BY DEF CheckDma, driverVars, Transferring
<1>2. /\ Sound /\ Progress /\ Place /\ at \in Active /\ at \notin Detecting \cup {"found"}
      /\ request.op = "dma" /\ Looked
  BY <1>1, PlaceGives DEF CommandInv, Requested, Place
<1>3. ec = 0 /\ bm'.err = bm.err
  BY <1>1, <1>2 DEF Sound, MindrvrInv, Records
<1>4. /\ ~drive.drq /\ ~drive.bsy /\ (drive.err \/ drive.left = 0)
      /\ status.err = drive.err /\ status.drq = drive.drq /\ status.bsy = drive.bsy
  BY <1>2 DEF Progress, Looked, HasAnswered, Stat
<1>5. bm.err \/ drive.err => faulted'
  BY <1>1 DEF CommandInv, Faults
<1>6. CASE bm.err
  <2>1. e = 78
    BY <1>3, <1>6, Zenon
  <2> HIDE DEF e
  <2>2. e # 0 /\ ec' # 0
    BY <1>1, <2>1 DEF End
  <2> QED BY <1>1, <1>2, <1>5, <1>6, <2>2, FailureKeepsCommands
<1>7. CASE ~bm.err /\ drive.err
  <2>1. Bad(status)
    BY <1>4, <1>7 DEF Bad
  <2>2. e = 74
    BY <1>3, <1>7, <2>1, Zenon
  <2> HIDE DEF e
  <2>3. e # 0 /\ ec' # 0
    BY <1>1, <2>2 DEF End
  <2> QED BY <1>1, <1>2, <1>5, <1>7, <2>3, FailureKeepsCommands
<1>8. CASE ~bm.err /\ ~drive.err
  <2>1. ~(Bad(status) \/ status.drq)
    BY <1>4, <1>8 DEF Bad
  <2>2. e = 0
    BY <1>3, <1>8, <2>1, Zenon
  <2>3. Rest /\ drive.left = 0
    BY <1>2, <1>4, <1>8 DEF Rest, Looked, Silent
  <2> HIDE DEF e
  <2> QED BY <1>1, <1>3, <2>2, <2>3, SuccessKeepsCommands
<1> QED BY <1>6, <1>7, <1>8

-----------------------------------------------------------------------------
(* The invariant of commands is kept.                                      *)

\* Every step of driver, hardware and main keeps the invariant of commands.
LEMMA StepKeepsCommands ==
  ASSUME MindrvrInv, CommandInv, [Next]_vars PROVE CommandInv'
<1>1. CASE Hardware
  BY <1>1, AnswerKeepsCommands, DriveFailsKeepsCommands, BusMasterMovesKeepsCommands,
     ResetEndsKeepsCommands DEF Hardware
<1>2. CASE Requests
  BY <1>2, StartPioKeepsCommands, StartDmaKeepsCommands, SetBar4KeepsCommands DEF Requests
<1>3. CASE Driver
  BY <1>3, DetectKeepsCommands, AwaitDrive0KeepsCommands, AwaitDrive1KeepsCommands,
     ReadBootRecordKeepsCommands, SelectKeepsCommands, SelectTimesOutKeepsCommands,
     WaitKeepsCommands, WaitTimesOutKeepsCommands, TransferInKeepsCommands,
     CheckInKeepsCommands, PollKeepsCommands, PollTimesOutKeepsCommands,
     TransferOutKeepsCommands, CheckOutKeepsCommands, NextOutKeepsCommands,
     CheckDmaKeepsCommands DEF Driver
<1>4. CASE UNCHANGED vars
  BY <1>4, CommandsAreKept DEF vars, driverVars, lines
<1> QED BY <1>1, <1>2, <1>3, <1>4 DEF Next

\* Whatever drives, bus master and time do, a command that is under way with a
\* sound drive is as far as the drive is, its interrupt comes once and is taken
\* once, and there is no error without a cause.
THEOREM MindrvrKeepsCommands == Spec => []CommandInv
<1>1. Init => CommandInv
  BY InitCommands
<1>2. MindrvrInv /\ CommandInv /\ [Next]_vars => CommandInv'
  BY StepKeepsCommands
<1> QED BY <1>1, <1>2, MindrvrKeepsInv, PTL DEF Spec

-----------------------------------------------------------------------------
(* The driver implements DiskCommands.                                     *)

\* The command of DiskCommands at each place of the driver.
LEMMA CommandFields ==
  /\ at \in Active => /\ at \notin Outside /\ Command = CommandOf(request)
                      /\ Command.write = (request.op = "write")
                      /\ Command.count = request.count * SectorSize
                      /\ ~Command.write => /\ Command.from = request.sector * SectorSize
                                           /\ Command.to = request.buffer
                      /\ Command.write => /\ Command.from = request.buffer
                                          /\ Command.to = request.sector * SectorSize
  /\ at \in Outside => Command = NoCommand
<1>1. at \in Active => at \notin Outside
  BY DEF Active, Transferring, Outside, Resting
<1> QED BY <1>1 DEF Command, CommandOf

\* A request of main is a command that DiskCommands knows.
LEMMA RequestIsCommanded ==
  ASSUME NEW r, r.op \in {"read", "write", "dma"}, r.sector \in Sectors \cup {0},
         r.count \in 1 .. MaxTransfer, r.buffer \in Buffers \cup {MbrBuffer}
  PROVE  CommandOf(r) # NoCommand /\ CommandOf(r) \in Commands
<1>1. CommandOf(r) # NoCommand
  <2>1. CommandOf(r).count = r.count * SectorSize /\ NoCommand.count = 0 * SectorSize
    BY DEF CommandOf, NoCommand, NoRequest
  <2>2. r.count \in Nat /\ r.count # 0 /\ SectorSize \in Nat
    BY MindrvrAssumption
  <2>3. r.count * SectorSize # 0 /\ 0 * SectorSize = 0
    BY <2>2, NothingMoved
  <2> QED BY <2>1, <2>3
<1>2. PICK op \in {"read", "write"} : op = "write" <=> r.op = "write"
  OBVIOUS
<1>3. CommandOf(r) = CommandOf([op |-> op, sector |-> r.sector, count |-> r.count,
                                buffer |-> r.buffer])
  <2>1. (op = "write") = (r.op = "write")
    BY <1>2
  <2> QED BY <2>1 DEF CommandOf
<1>4. CommandOf([op |-> op, sector |-> r.sector, count |-> r.count, buffer |-> r.buffer])
        \in Commands
  <2>1. [op |-> op, sector |-> r.sector, count |-> r.count, buffer |-> r.buffer] \in
          [op : {"read", "write"}, sector : Sectors \cup {0}, count : 1 .. MaxTransfer,
           buffer : Buffers \cup {MbrBuffer}]
    OBVIOUS
  <2> QED BY <2>1, Zenon DEF Commands
<1> QED BY <1>1, <1>3, <1>4

\* So is the one under way.
LEMMA CommandIsCommanded ==
  ASSUME CommandInv, at \in Active
  PROVE  Command # NoCommand /\ Command \in Commands
<1>1. Command = CommandOf(request)
  BY CommandFields
<1>2. /\ request.op \in {"read", "write", "dma"} /\ request.sector \in Sectors \cup {0}
      /\ request.count \in 1 .. MaxTransfer /\ request.buffer \in Buffers \cup {MbrBuffer}
  BY DEF CommandInv, Requested
<1> QED BY <1>1, <1>2, RequestIsCommanded

\* main asks for a command.
LEMMA StartIsAbstract ==
  ASSUME CommandInv', at \in Outside, at' = "select", UNCHANGED <<disk, memory, result, faulted>>
  PROVE  Abstract!Next
<1>1. at' \in Active
  BY DEF Active
<1>2. /\ request'.op \in {"read", "write", "dma"} /\ request'.sector \in Sectors \cup {0}
      /\ request'.count \in 1 .. MaxTransfer /\ request'.buffer \in Buffers \cup {MbrBuffer}
      /\ moved' = 0
  BY <1>1 DEF CommandInv, Requested
<1> DEFINE c == CommandOf(request')
<1>3. c \in Commands
  BY <1>2, RequestIsCommanded
<1>4. at' \notin Outside
  BY DEF Outside, Resting
<1>5. Command = NoCommand /\ Command' = c
  BY <1>4 DEF Command
<1>6. Abstract!Start(c)
  BY <1>2, <1>5 DEF Abstract!Start
<1> HIDE DEF c
<1> QED BY <1>3, <1>6 DEF Abstract!Next

\* A sector is moved.
LEMMA MoveIsAbstract ==
  ASSUME CommandInv, at \in Active, at' \in Active, UNCHANGED <<request, result, faulted>>,
         moved \in Nat, moved' = moved + SectorSize, moved' <= request.count * SectorSize,
         IF request.op = "write"
         THEN disk' = Abstract!Moved(memory, disk, moved, moved') /\ UNCHANGED memory
         ELSE memory' = Abstract!Moved(disk, memory, moved, moved') /\ UNCHANGED disk
  PROVE  Abstract!Next
<1>1. /\ at \notin Outside /\ at' \notin Outside
      /\ Command = CommandOf(request) /\ Command' = Command
      /\ Command.write = (request.op = "write") /\ Command.count = request.count * SectorSize
  BY CommandFields DEF Command, Active, Transferring, Outside, Resting
<1>2. Command # NoCommand /\ Command \in Commands
  BY CommandIsCommanded
<1>3. SectorSize \in Nat \ {0}
  BY MindrvrAssumption
<1>4. request.count \in Nat
  BY CountsAreNumbers
<1>5. moved < moved' /\ moved' \in 1 .. Command.count
  BY <1>1, <1>3, <1>4
<1>6. Abstract!Move(moved')
  BY <1>1, <1>2, <1>5 DEF Abstract!Move
<1> QED BY <1>2, <1>5, <1>6 DEF Abstract!Next

\* A command ends: well, when all is moved, or badly, for a reason.
LEMMA EndIsAbstract ==
  ASSUME CommandInv, CommandInv', at \in Active, NEW e, End(e), UNCHANGED <<disk, memory, moved>>,
         e = 0 => moved = request.count * SectorSize /\ faulted' = faulted
  PROVE  Abstract!Next
<1>1. /\ at \notin Outside /\ at' \in Outside
      /\ Command = CommandOf(request) /\ Command' = NoCommand
      /\ Command.count = request.count * SectorSize
  BY CommandFields DEF Command, Active, Transferring, Outside, Resting, End
<1>2. Command # NoCommand
  BY CommandIsCommanded
<1>3. CASE e = 0
  <2>1. result' = "ok" /\ moved = Command.count /\ faulted' = faulted
    BY <1>1, <1>3 DEF End
  <2>2. Abstract!Succeed
    BY <1>1, <1>2, <2>1 DEF Abstract!Succeed
  <2> QED BY <2>2 DEF Abstract!Next
<1>4. CASE e # 0
  <2>1. result' = "failed" /\ faulted'
    BY <1>4 DEF End, CommandInv, Faults
  <2>2. Abstract!Fail
    BY <1>1, <1>2, <2>1 DEF Abstract!Fail
  <2> QED BY <2>2 DEF Abstract!Next
<1> QED BY <1>3, <1>4

\* Driver and drive are at their work, and no data moves.
LEMMA WorkIsAbstract ==
  ASSUME UNCHANGED <<disk, memory, moved, result>>, faulted' = faulted \/ faulted',
         \/ at \in Active /\ at' \in Active /\ UNCHANGED request
         \/ at \in Outside /\ at' \in Outside
         \/ UNCHANGED <<at, request>>
  PROVE  Abstract!Next \/ UNCHANGED Abstract!vars
<1>1. Command' = Command
  BY CommandFields DEF Command, Active, Transferring, Outside, Resting
<1>2. CASE faulted' = faulted
  <2>1. UNCHANGED Abstract!vars
    BY <1>1, <1>2 DEF Abstract!vars
  <2> QED BY <2>1
<1>3. CASE faulted'
  <2>1. Abstract!Fault
    BY <1>1, <1>3 DEF Abstract!Fault
  <2> QED BY <2>1 DEF Abstract!Next
<1> QED BY <1>2, <1>3

-----------------------------------------------------------------------------
(* Sectors.                                                                *)

\* target, with n cells from source after the first m.
Filled(source, target, from, to, m, n) ==
  [a \in DOMAIN target |-> IF a \in to + m .. to + (m + n) - 1
                           THEN source[from + (a - to)] ELSE target[a]]

\* A cell that Put changes comes from the place that Cells reads it at.
LEMMA PutIsMoved ==
  ASSUME NEW source, NEW target, NEW from \in Nat, NEW to \in Nat, NEW m \in Nat, NEW n \in Nat
  PROVE  Put(target, to + m, Cells(source, from + m, n)) = Filled(source, target, from, to, m, n)
<1> DEFINE data == Cells(source, from + m, n)
<1>1. Len(data) = n /\ \A i \in 1 .. n : data[i] = source[from + m + i - 1]
  BY DEF Cells
<1> HIDE DEF data
<1>2. to + m + Len(data) - 1 = to + (m + n) - 1
  BY <1>1
<1>3. ASSUME NEW a \in to + m .. to + (m + n) - 1
      PROVE  data[a - (to + m) + 1] = source[from + (a - to)]
  <2>1. a - (to + m) + 1 \in 1 .. n /\ from + m + (a - (to + m) + 1) - 1 = from + (a - to)
    OBVIOUS
  <2> QED BY <1>1, <2>1
<1> QED BY <1>2, <1>3 DEF Put, Filled, data

\* The bus master moves the next sector of the list.
LEMMA BusMasterMovesIsAbstract ==
  ASSUME MindrvrInv, CommandInv, CommandInv', BusMasterMoves PROVE Abstract!Next
<1>1. /\ Sound /\ at = "wait" /\ request.op = "dma"
      /\ Progress /\ drive.left \in 1 .. request.count
  BY BusMasterIsUnderway
<1>2. /\ UNCHANGED <<at, request, disk, result, faulted>> /\ moved' = moved + SectorSize
      /\ drive'.left = drive.left - 1
  BY DEF BusMasterMoves, driverVars, MindrvrInv, Records
<1>3. at \in Active /\ at' \in Active
  BY <1>1, <1>2 DEF Active
<1>4. /\ moved \in Nat /\ moved + SectorSize <= request.count * SectorSize
      /\ drive.sector * SectorSize = request.sector * SectorSize + moved
  BY <1>1, <1>2, <1>3, OneSectorMore
<1>5. /\ request.count \in Nat /\ request.sector \in Nat /\ request.buffer \in Nat
      /\ SectorSize \in Nat
  BY <1>3, CountsAreNumbers
<1>6. request.count * SectorSize \in Nat /\ request.sector * SectorSize \in Nat
  BY <1>5
<1> DEFINE bc == request.count * SectorSize
           from == request.sector * SectorSize
           to == request.buffer
           addresses == Run(to, bc)
           index(a) == IndexIn(SubSeq(addresses, moved + 1, moved + SectorSize), a)
<1>7. Addresses(bm.prds) = addresses
  <2>1. bm.prds = PrdList(to, bc)
    BY <1>1, <1>3 DEF CommandInv, Requested
  <2> QED BY <1>5, <1>6, <2>1, PrdListCovers DEF Run
<1>8. memory' = [a \in DOMAIN memory |->
                   IF index(a) = 0 THEN memory[a]
                   ELSE disk[drive.sector * SectorSize + index(a) - 1]]
  BY <1>7 DEF BusMasterMoves, IndexIn
<1>9. ASSUME NEW a \in DOMAIN memory
      PROVE  index(a) = IndexInRun(to + moved, SectorSize, a)
  <2>1. a \in Nat
    BY MindrvrAssumption DEF MindrvrInv, Records
  <2>2. bc \in Nat /\ to \in Nat /\ moved \in Nat /\ SectorSize \in Nat /\ moved + SectorSize <= bc
    BY <1>4, <1>5, <1>6
  <2> HIDE DEF bc, to
  <2> QED BY <2>1, <2>2, CellOfSector
<1> HIDE DEF bc, from, index
<1>10. memory' = [a \in DOMAIN memory |->
                    IF a \in to + moved .. to + moved' - 1
                    THEN disk[from + (a - to)] ELSE memory[a]]
  <2>1. ASSUME NEW a \in DOMAIN memory
        PROVE  (IF index(a) = 0 THEN memory[a]
                ELSE disk[drive.sector * SectorSize + index(a) - 1])
               = IF a \in to + moved .. to + moved' - 1
                 THEN disk[from + (a - to)] ELSE memory[a]
    <3>1. to + moved' - 1 = to + moved + SectorSize - 1
      <4>1. moved' = moved + SectorSize /\ to \in Nat /\ moved \in Nat /\ SectorSize \in Nat
        BY <1>2, <1>4, <1>5
      <4> HIDE DEF to
      <4> QED BY <4>1
    <3>2. CASE a \in to + moved .. to + moved + SectorSize - 1
      <4>1. index(a) = a - (to + moved) + 1
        BY <1>9, <3>2 DEF IndexInRun
      <4>2. /\ a - (to + moved) + 1 # 0
            /\ from + moved + (a - (to + moved) + 1) - 1 = from + (a - to)
        BY <1>4, <1>5, <1>6, <3>2 DEF from
      <4>3. drive.sector * SectorSize = from + moved
        BY <1>4 DEF from
      <4> QED BY <3>1, <3>2, <4>1, <4>2, <4>3
    <3>3. CASE a \notin to + moved .. to + moved + SectorSize - 1
      BY <1>9, <3>1, <3>3 DEF IndexInRun
    <3> QED BY <3>2, <3>3
  <2> QED BY <1>8, <2>1
<1>11. /\ Command.from = from /\ Command.to = to
       /\ request.op # "write"
  BY <1>1, <1>3, CommandFields DEF from
<1>12. memory' = Abstract!Moved(disk, memory, moved, moved')
  BY <1>10, <1>11 DEF Abstract!Moved
<1>13. moved' <= request.count * SectorSize
  BY <1>2, <1>4
<1> QED BY <1>2, <1>3, <1>4, <1>11, <1>12, <1>13, MoveIsAbstract

\* A sector goes through the data register.
LEMMA TransferInIsAbstract ==
  ASSUME MindrvrInv, CommandInv, TransferIn PROVE Abstract!Next \/ UNCHANGED Abstract!vars
<1>1. /\ at = "in" /\ at' = "inCheck" /\ UNCHANGED <<request, disk, result, faulted>>
  BY DEF TransferIn, Continue
<1>2. /\ Sound /\ Progress /\ Place /\ at \in Active /\ at' \in Active
      /\ Looked /\ drive.left > 0 /\ request.op = "read"
  <2>1. at \in Transferring /\ at' \in Active
    BY <1>1 DEF Transferring, Active
  <2> QED BY <1>1, <2>1, PlaceGives DEF Place, CommandInv, Requested
<1>3. CASE Ready
  <2>1. /\ memory' = Put(memory, bufAddr, Cells(disk, drive.sector * SectorSize, SectorSize))
        /\ moved' = moved + SectorSize
        /\ drive'.left = drive.left - 1
    BY <1>3 DEF TransferIn, MindrvrInv, Records
  <2>2. drive.left \in 1 .. request.count
    <3>1. drive.left \in 0 .. request.count /\ request.count \in Nat
      BY <1>2, CountsAreNumbers DEF Progress
    <3> QED BY <1>2, <3>1
  <2>3. /\ moved \in Nat /\ moved + SectorSize <= request.count * SectorSize
        /\ drive.sector * SectorSize = request.sector * SectorSize + moved
    BY <1>1, <1>2, <2>1, <2>2, OneSectorMore
  <2>4. /\ request.sector \in Nat /\ request.buffer \in Nat
        /\ SectorSize \in Nat /\ request.sector * SectorSize \in Nat
    BY <1>2, CountsAreNumbers
  <2>5. bufAddr = request.buffer + moved
    BY <1>2 DEF Progress
  <2>6. /\ Command.from = request.sector * SectorSize /\ Command.to = request.buffer
    BY <1>2, CommandFields
  <2>7. memory' = Abstract!Moved(disk, memory, moved, moved')
    <3> DEFINE from == request.sector * SectorSize
               to == request.buffer
    <3>1. from \in Nat /\ to \in Nat /\ moved \in Nat /\ SectorSize \in Nat
      BY <2>3, <2>4
    <3>2. memory' = Put(memory, to + moved, Cells(disk, from + moved, SectorSize))
      BY <2>1, <2>3, <2>5
    <3>3. moved' = moved + SectorSize /\ Command.from = from /\ Command.to = to
      BY <2>1, <2>6
    <3> HIDE DEF from, to
    <3>4. memory' = Filled(disk, memory, from, to, moved, SectorSize)
      BY <3>1, <3>2, PutIsMoved
    <3> QED BY <3>3, <3>4 DEF Abstract!Moved, Filled
  <2>8. moved' <= request.count * SectorSize /\ request.op # "write"
    BY <1>2, <2>1, <2>3
  <2> QED BY <1>1, <1>2, <2>1, <2>3, <2>7, <2>8, MoveIsAbstract
<1>4. CASE ~Ready
  <2>1. UNCHANGED <<memory, moved>>
    BY <1>4 DEF TransferIn
  <2> QED BY <1>1, <1>2, <2>1, WorkIsAbstract
<1> QED BY <1>3, <1>4

\* The same, to the disk.
LEMMA TransferOutIsAbstract ==
  ASSUME MindrvrInv, CommandInv, TransferOut PROVE Abstract!Next \/ UNCHANGED Abstract!vars
<1>1. /\ at = "out" /\ at' = "outCheck" /\ UNCHANGED <<request, memory, result, faulted>>
  BY DEF TransferOut, Continue
<1>2. /\ Sound /\ Progress /\ Place /\ at \in Active /\ at' \in Active
      /\ Looked /\ drive.left > 0 /\ request.op = "write"
  <2>1. at \in Transferring /\ at' \in Active
    BY <1>1 DEF Transferring, Active
  <2> QED BY <1>1, <2>1, PlaceGives DEF Place, CommandInv, Requested
<1>3. CASE Ready
  <2>1. /\ disk' = Put(disk, drive.sector * SectorSize, Cells(memory, bufAddr, SectorSize))
        /\ moved' = moved + SectorSize
        /\ drive'.left = drive.left - 1
    BY <1>3 DEF TransferOut, MindrvrInv, Records
  <2>2. drive.left \in 1 .. request.count
    <3>1. drive.left \in 0 .. request.count /\ request.count \in Nat
      BY <1>2, CountsAreNumbers DEF Progress
    <3> QED BY <1>2, <3>1
  <2>3. /\ moved \in Nat /\ moved + SectorSize <= request.count * SectorSize
        /\ drive.sector * SectorSize = request.sector * SectorSize + moved
    BY <1>1, <1>2, <2>1, <2>2, OneSectorMore
  <2>4. /\ request.sector \in Nat /\ request.buffer \in Nat
        /\ SectorSize \in Nat /\ request.sector * SectorSize \in Nat
    BY <1>2, CountsAreNumbers
  <2>5. bufAddr = request.buffer + moved
    BY <1>2 DEF Progress
  <2>6. /\ Command.from = request.buffer /\ Command.to = request.sector * SectorSize
    BY <1>2, CommandFields
  <2>7. disk' = Abstract!Moved(memory, disk, moved, moved')
    <3> DEFINE from == request.buffer
               to == request.sector * SectorSize
    <3>1. from \in Nat /\ to \in Nat /\ moved \in Nat /\ SectorSize \in Nat
      BY <2>3, <2>4
    <3>2. disk' = Put(disk, to + moved, Cells(memory, from + moved, SectorSize))
      BY <2>1, <2>3, <2>5
    <3>3. moved' = moved + SectorSize /\ Command.from = from /\ Command.to = to
      BY <2>1, <2>6
    <3> HIDE DEF from, to
    <3>4. disk' = Filled(memory, disk, from, to, moved, SectorSize)
      BY <3>1, <3>2, PutIsMoved
    <3> QED BY <3>3, <3>4 DEF Abstract!Moved, Filled
  <2>8. moved' <= request.count * SectorSize
    BY <2>1, <2>3
  <2> QED BY <1>1, <1>2, <2>1, <2>3, <2>7, <2>8, MoveIsAbstract
<1>4. CASE ~Ready
  <2>1. UNCHANGED <<disk, moved>>
    BY <1>4 DEF TransferOut
  <2> QED BY <1>1, <1>2, <2>1, WorkIsAbstract
<1> QED BY <1>3, <1>4

-----------------------------------------------------------------------------
(* Every step is a step of DiskCommands.                                   *)

\* When nothing is left, all is moved.
LEMMA AllIsMoved ==
  ASSUME CommandInv, at \in Active, Progress, drive.left = 0
  PROVE  moved = request.count * SectorSize
<1>1. request.count \in Nat
  BY CountsAreNumbers
<1>2. Done = request.count
  BY <1>1 DEF Done
<1> QED BY <1>2 DEF Progress

\* Of the hardware only the bus master moves data.
LEMMA HardwareIsAbstract ==
  ASSUME MindrvrInv, CommandInv, CommandInv', Hardware
  PROVE  Abstract!Next \/ UNCHANGED Abstract!vars
<1>1. CASE Answer \/ DriveFails \/ ResetEnds
  <2>1. /\ UNCHANGED <<at, request, disk, memory, moved, result>>
        /\ faulted' = faulted \/ faulted'
    BY <1>1 DEF Answer, DriveFails, ResetEnds, driverVars
  <2> QED BY <2>1, WorkIsAbstract
<1>2. CASE BusMasterMoves
  BY <1>2, BusMasterMovesIsAbstract
<1> QED BY <1>1, <1>2 DEF Hardware

\* Detection is over before the first command, for the boot record.
LEMMA DetectionIsAbstract ==
  ASSUME MindrvrInv, CommandInv, CommandInv', Detect \/ AwaitDrive0 \/ AwaitDrive1 \/ ReadBootRecord
  PROVE  Abstract!Next \/ UNCHANGED Abstract!vars
<1>1. /\ at \in {"config", "reset0", "reset1", "found"}
      /\ at' \in {"reset0", "reset1", "found", "exited", "select"}
      /\ UNCHANGED <<disk, memory, moved, result>>
      /\ faulted' = faulted \/ faulted'
      /\ at' = "select" => faulted' = faulted
  BY DEF Detect, AwaitDrive0, AwaitDrive1, ReadBootRecord
<1>2. at \in Outside
  BY <1>1 DEF Outside
<1>3. CASE at' = "select"
  BY <1>1, <1>2, <1>3, StartIsAbstract
<1>4. CASE at' # "select"
  <2>1. at' \in Outside
    BY <1>1, <1>4 DEF Outside, Resting
  <2> QED BY <1>1, <1>2, <2>1, WorkIsAbstract
<1> QED BY <1>3, <1>4

\* main begins a command only when none is under way.
LEMMA RequestsAreAbstract ==
  ASSUME MindrvrInv, CommandInv, CommandInv', Requests
  PROVE  Abstract!Next \/ UNCHANGED Abstract!vars
<1>1. CASE SetBar4
  <2>1. UNCHANGED <<at, request, disk, memory, moved, result, faulted>>
    BY <1>1 DEF SetBar4
  <2> QED BY <2>1, WorkIsAbstract
<1>2. ASSUME NEW sector \in Sectors, NEW n \in 1 .. MaxTransfer, NEW buffer \in Buffers,
             (\E op \in {"read", "write"} : StartPio(op, sector, n, buffer))
               \/ StartDma(sector, n, buffer)
      PROVE  Abstract!Next
  <2>1. at = "idle" /\ at' = "select" /\ UNCHANGED <<disk, memory, result, faulted>>
    BY <1>2, StartDmaSelects DEF StartPio, MayStart
  <2>2. at \in Outside
    BY <2>1 DEF Outside, Resting
  <2> QED BY <2>1, <2>2, StartIsAbstract
<1> QED BY <1>1, <1>2 DEF Requests

\* A drive that is selected has a command issued, or the command fails.
LEMMA SelectionIsAbstract ==
  ASSUME MindrvrInv, CommandInv, CommandInv', Select \/ SelectTimesOut
  PROVE  Abstract!Next \/ UNCHANGED Abstract!vars
<1>1. at = "select" /\ at \in Active /\ UNCHANGED <<request, disk, memory, moved>>
  BY DEF Select, SelectTimesOut, driverVars, Active
<1>2. CASE Issue /\ faulted' = faulted
  <2>1. at' \in {"poll", "wait"} /\ result' = result
    BY <1>2 DEF Issue, Continue
  <2>2. at' \in Active
    BY <2>1 DEF Active, Transferring
  <2> QED BY <1>1, <1>2, <2>1, <2>2, WorkIsAbstract
<1>3. CASE (ec # 0 /\ End(ec)) \/ End(11)
  BY <1>1, <1>3, EndIsAbstract
<1> QED BY <1>2, <1>3 DEF Select, SelectFails, SelectTimesOut

\* A wait goes on, or the command fails.
LEMMA WaitIsAbstract ==
  ASSUME MindrvrInv, CommandInv, CommandInv', Wait \/ WaitTimesOut
  PROVE  Abstract!Next \/ UNCHANGED Abstract!vars
<1>1. at = "wait" /\ at \in Active /\ UNCHANGED <<request, disk, memory, moved>>
  BY DEF Wait, WaitTimesOut, driverVars, Active
<1>2. \A e : e # 0 => Final(e) # 0
  BY FinalCode
<1>3. CASE Wait /\ ec # 0 /\ request.op # "dma"
  <2>1. End(Final(ec)) /\ Final(ec) # 0
    BY <1>2, <1>3 DEF Wait
  <2> QED BY <1>1, <2>1, EndIsAbstract
<1>4. CASE Wait /\ ~(ec # 0 /\ request.op # "dma")
  <2>1. Continue(AfterWait) /\ faulted' = faulted
    BY <1>4 DEF Wait
  <2>2. AfterWait \in Active
    <3>1. request.op \in {"read", "write", "dma"}
      BY <1>1 DEF CommandInv, Requested
    <3>2. AfterWait \in {"in", "next", "dma"}
      BY <3>1, Zenon DEF AfterWait
    <3> QED BY <3>2 DEF Active, Transferring
  <2>3. at' \in Active /\ result' = result
    BY <2>1, <2>2 DEF Continue
  <2> QED BY <1>1, <2>1, <2>3, WorkIsAbstract
<1>5. CASE WaitTimesOut
  <2> DEFINE e == IF request.op = "dma" THEN 73 ELSE Final(TimeOutCode)
  <2>1. End(e)
    BY <1>5 DEF WaitTimesOut
  <2>2. e # 0
    BY DEF Final, TimeOutCode
  <2> HIDE DEF e
  <2> QED BY <1>1, <2>1, <2>2, EndIsAbstract
<1> QED BY <1>3, <1>4, <1>5

\* A check ends the command, well only when nothing is left, or lets it go on.
LEMMA ChecksAreAbstract ==
  ASSUME MindrvrInv, CommandInv, CommandInv', CheckIn \/ CheckOut \/ NextOut \/ CheckDma
  PROVE  Abstract!Next \/ UNCHANGED Abstract!vars
<1>1. /\ at \in Transferring
      /\ UNCHANGED <<request, disk, memory, moved>> /\ faulted' = faulted
      /\ \/ \E e : End(e)
         \/ Continue("wait") \/ Continue("out")
  <2>1. CASE CheckIn
    BY <2>1 DEF CheckIn, driverVars, Transferring
  <2>2. CASE CheckOut
    <3>1. Bad(status) \/ (~Bad(status) /\ ~status.drq) \/ (~Bad(status) /\ status.drq)
      OBVIOUS
    <3>2. End(Final(41)) \/ End(Final(42)) \/ Continue("wait")
      BY <2>2, <3>1, Zenon DEF CheckOut
    <3> QED BY <2>2, <3>2 DEF CheckOut, driverVars, Transferring
  <2>3. CASE NextOut
    BY <2>3 DEF NextOut, driverVars, Transferring
  <2>4. CASE CheckDma
    BY <2>4 DEF CheckDma, driverVars, Transferring
  <2> QED BY <2>1, <2>2, <2>3, <2>4
<1>2. /\ Sound /\ Progress /\ at \in Active
  BY <1>1, PlaceGives
<1>3. ec' = 0 /\ at' \notin Active => drive.left = 0
  BY CheckInKeepsCommands, CheckOutKeepsCommands, NextOutKeepsCommands, CheckDmaKeepsCommands
<1>4. ASSUME NEW e, End(e) PROVE Abstract!Next
  <2>1. ec' = e /\ at' \notin Active
    BY <1>4 DEF End, Active, Transferring
  <2>2. e = 0 => moved = request.count * SectorSize
    BY <1>2, <1>3, <2>1, AllIsMoved
  <2> QED BY <1>1, <1>2, <1>4, <2>2, EndIsAbstract
<1>5. ASSUME NEW w \in {"wait", "out"}, Continue(w) PROVE Abstract!Next \/ UNCHANGED Abstract!vars
  <2>1. at' \in Active /\ result' = result
    BY <1>5 DEF Continue, Active, Transferring
  <2> QED BY <1>1, <1>2, <2>1, WorkIsAbstract
<1> QED BY <1>1, <1>4, <1>5

\* So does a poll.
LEMMA PollIsAbstract ==
  ASSUME MindrvrInv, CommandInv, CommandInv', Poll \/ PollTimesOut
  PROVE  Abstract!Next \/ UNCHANGED Abstract!vars
<1>1. at = "poll" /\ at \in Active /\ UNCHANGED <<request, disk, memory, moved>>
  BY DEF Poll, PollTimesOut, driverVars, Active, Transferring
<1>2. CASE Poll
  <2>1. at' \in Active /\ result' = result /\ faulted' = faulted
    BY <1>2 DEF Poll, Continue, Active, Transferring
  <2> QED BY <1>1, <2>1, WorkIsAbstract
<1>3. CASE PollTimesOut
  <2>1. End(Final(47)) /\ Final(47) # 0
    BY <1>3 DEF PollTimesOut, Final
  <2> QED BY <1>1, <2>1, EndIsAbstract
<1> QED BY <1>2, <1>3

LEMMA StepIsAbstract ==
  ASSUME MindrvrInv, CommandInv, CommandInv', [Next]_vars
  PROVE  [Abstract!Next]_(Abstract!vars)
<1>1. CASE Hardware
  BY <1>1, HardwareIsAbstract
<1>2. CASE Requests
  BY <1>2, RequestsAreAbstract
<1>3. CASE Driver
  BY <1>3, DetectionIsAbstract, SelectionIsAbstract, WaitIsAbstract, TransferInIsAbstract,
     TransferOutIsAbstract, ChecksAreAbstract, PollIsAbstract DEF Driver
<1>4. CASE UNCHANGED vars
  <2>1. UNCHANGED <<at, request, disk, memory, moved, result, faulted>>
    BY <1>4 DEF vars, driverVars
  <2> QED BY <2>1, WorkIsAbstract
<1> QED BY <1>1, <1>2, <1>3, <1>4 DEF Next

\* The driver, by ports or with the bus master, implements DiskCommands: a command
\* that ends well has moved its cells, all of them and no others, and one that
\* ends badly, or late, has the hardware to blame.
THEOREM MindrvrImplementsDiskCommands == Spec => CommandsTransfer
<1>1. Init => Abstract!Init
  <2> SUFFICES ASSUME Init PROVE Abstract!Init
    OBVIOUS
  <2>1. at \in Outside
    BY DEF Init, Outside
  <2> QED BY <2>1 DEF Init, Abstract!Init, Command
<1>2. MindrvrInv /\ CommandInv /\ CommandInv' /\ [Next]_vars => [Abstract!Next]_(Abstract!vars)
  BY StepIsAbstract
<1> QED BY <1>1, <1>2, MindrvrKeepsInv, MindrvrKeepsCommands, PTL
    DEF Spec, CommandsTransfer, Abstract!Spec

-----------------------------------------------------------------------------
(* Rows of cells.                                                          *)

\* What is anywhere on a disk.
Values(d) == {d[x] : x \in Nat}

\* The cells of a row are those of the disk in their order.
LEMMA CellsAre ==
  ASSUME NEW d, NEW a \in Nat, NEW n \in Nat
  PROVE  /\ Cells(d, a, n) \in Seq(Values(d)) /\ Len(Cells(d, a, n)) = n
         /\ \A i \in 1 .. n : Cells(d, a, n)[i] = d[a + i - 1]
<1>1. \A i \in 1 .. n : d[a + i - 1] \in Values(d)
  <2>1. \A i \in 1 .. n : a + i - 1 \in Nat
    OBVIOUS
  <2> QED BY <2>1 DEF Values
<1> DEFINE c == [i \in 1 .. n |-> d[a + i - 1]]
<1>2. c \in Seq(Values(d)) /\ Len(c) = n /\ \A i \in 1 .. n : c[i] = d[a + i - 1]
  BY <1>1
<1> QED BY <1>2 DEF Cells

\* Sequences that agree everywhere are equal.
LEMMA SameSequence ==
  ASSUME NEW S, NEW s \in Seq(S), NEW T, NEW t \in Seq(T), Len(s) = Len(t),
         \A i \in 1 .. Len(s) : s[i] = t[i]
  PROVE  s = t
OBVIOUS

\* A row after a row is one row.
RowsJoin(d, a, m, n) == Cells(d, a, m) \o Cells(d, a + m, n) = Cells(d, a, m + n)
LEMMA CellsJoin ==
  ASSUME NEW d, NEW a \in Nat, NEW m \in Nat, NEW n \in Nat
  PROVE  RowsJoin(d, a, m, n)
<1> DEFINE u == Cells(d, a, m)
           v == Cells(d, a + m, n)
           w == Cells(d, a, m + n)
<1>1. /\ u \in Seq(Values(d)) /\ Len(u) = m
      /\ \A i \in 1 .. m : u[i] = d[a + i - 1]
  BY CellsAre
<1>2. /\ v \in Seq(Values(d)) /\ Len(v) = n
      /\ \A i \in 1 .. n : v[i] = d[a + m + i - 1]
  BY CellsAre, a + m \in Nat
<1>3. /\ w \in Seq(Values(d)) /\ Len(w) = m + n
      /\ \A i \in 1 .. m + n : w[i] = d[a + i - 1]
  BY CellsAre, m + n \in Nat
<1> HIDE DEF u, v, w
<1> DEFINE uv == u \o v
           V == Values(d)
<1>0. u \in Seq(V) /\ v \in Seq(V)
  BY <1>1, <1>2
<1> HIDE DEF V
<1>4. /\ uv \in Seq(V) /\ Len(uv) = m + n
      /\ \A i \in 1 .. m : uv[i] = u[i]
      /\ \A i \in 1 .. n : uv[m + i] = v[i]
  <2>1. /\ uv \in Seq(V) /\ Len(uv) = Len(u) + Len(v)
        /\ \A i \in 1 .. Len(u) : uv[i] = u[i]
        /\ \A i \in 1 .. Len(v) : uv[Len(u) + i] = v[i]
    BY <1>0, ConcatAt
  <2> HIDE DEF uv
  <2> QED BY <1>1, <1>2, <2>1
<1> HIDE DEF uv
<1>5. ASSUME NEW i \in 1 .. m + n PROVE uv[i] = w[i]
  <2>1. CASE i <= m
    <3>1. i \in 1 .. m
      BY <2>1
    <3> QED BY <1>1, <1>3, <1>4, <3>1
  <2>2. CASE i > m
    <3> DEFINE j == i - m
    <3>1. j \in 1 .. n /\ i = m + j /\ a + m + j - 1 = a + i - 1
      BY <2>2
    <3> HIDE DEF j
    <3> QED BY <1>2, <1>3, <1>4, <3>1, ZenonT(40)
  <2>3. i <= m \/ i > m
    OBVIOUS
  <2> QED BY <2>1, <2>2, <2>3
<1>6. uv = w
  BY <1>3, <1>4, <1>5, SameSequence
<1> QED BY <1>6 DEF u, v, w, uv, RowsJoin

\* A part of a row is a row.
PartIsRow(d, a, n, p, q) == SubSeq(Cells(d, a, n), p + 1, p + q) = Cells(d, a + p, q)
LEMMA CellsPart ==
  ASSUME NEW d, NEW a \in Nat, NEW n \in Nat, NEW p \in Nat, NEW q \in Nat, p + q <= n
  PROVE  PartIsRow(d, a, n, p, q)
<1> DEFINE u == Cells(d, a, n)
           v == Cells(d, a + p, q)
           w == SubSeq(u, p + 1, p + q)
<1>1. /\ u \in Seq(Values(d)) /\ Len(u) = n
      /\ \A i \in 1 .. n : u[i] = d[a + i - 1]
  BY CellsAre
<1>2. /\ v \in Seq(Values(d)) /\ Len(v) = q
      /\ \A i \in 1 .. q : v[i] = d[a + p + i - 1]
  BY CellsAre, a + p \in Nat
<1> HIDE DEF u, v
<1>3. /\ w \in Seq(Values(d)) /\ Len(w) = q
      /\ \A i \in 1 .. q : w[i] = u[p + i]
  BY <1>1
<1> HIDE DEF w
<1>4. ASSUME NEW i \in 1 .. q PROVE w[i] = v[i]
  <2>1. p + i \in 1 .. n /\ a + (p + i) - 1 = a + p + i - 1
    OBVIOUS
  <2> QED BY <1>1, <1>2, <1>3, <2>1
<1>5. w = v
  BY <1>2, <1>3, <1>4, SameSequence
<1> QED BY <1>5 DEF u, v, w, PartIsRow

\* No cells.
LEMMA CellsNone ==
  ASSUME NEW d, NEW a
  PROVE  Cells(d, a, 0) = <<>>
BY DEF Cells

\* A disk as a function of its addresses.
IsRow(d) == d = [x \in DOMAIN d |-> d[x]]

LEMMA PutAt ==
  ASSUME NEW d, NEW a \in Nat, NEW S, NEW u \in Seq(S)
  PROVE  /\ IsRow(Put(d, a, u)) /\ DOMAIN Put(d, a, u) = DOMAIN d
         /\ \A x \in DOMAIN d : Put(d, a, u)[x] =
              IF x \in a .. a + Len(u) - 1 THEN u[x - a + 1] ELSE d[x]
BY DEF Put, IsRow

\* Writing nothing.
LEMMA PutNothing ==
  ASSUME NEW d, IsRow(d), NEW a \in Nat
  PROVE  Put(d, a, <<>>) = d
<1>1. a .. a + Len(<<>>) - 1 = {}
  OBVIOUS
<1> QED BY <1>1 DEF Put, IsRow

\* Two writes, one behind the other, are one.
LEMMA PutTwice ==
  ASSUME NEW d, NEW a \in Nat, NEW S, NEW u \in Seq(S), NEW v \in Seq(S)
  PROVE  Put(Put(d, a, u), a + Len(u), v) = Put(d, a, u \o v)
<1> DEFINE m == Len(u)
           n == Len(v)
           w == u \o v
           e == Put(d, a, u)
           b == a + m
           c == a + (m + n)
           f == Put(e, b, v)
           g == Put(d, a, w)
<1>1. /\ m \in Nat /\ n \in Nat /\ m = Len(u) /\ n = Len(v)
      /\ b \in Nat /\ b = a + m /\ c = b + n
  OBVIOUS
<1>2. /\ w \in Seq(S) /\ Len(w) = m + n
      /\ \A i \in 1 .. m : w[i] = u[i]
      /\ \A i \in 1 .. n : w[m + i] = v[i]
  BY ConcatAt
<1>3. /\ DOMAIN e = DOMAIN d
      /\ \A x \in DOMAIN d : e[x] = IF x \in a .. a + m - 1 THEN u[x - a + 1] ELSE d[x]
  BY PutAt
<1> HIDE DEF e, w, b
<1>4. /\ IsRow(f) /\ DOMAIN f = DOMAIN d
      /\ \A x \in DOMAIN d : f[x] = IF x \in b .. b + n - 1 THEN v[x - b + 1] ELSE e[x]
  <2>1. /\ IsRow(f) /\ DOMAIN f = DOMAIN e
        /\ \A x \in DOMAIN e : f[x] = IF x \in b .. b + Len(v) - 1 THEN v[x - b + 1] ELSE e[x]
    <3>1. b \in Nat /\ v \in Seq(S)
      BY <1>1
    <3> HIDE DEF m, n, c
    <3> QED BY <3>1, PutAt
  <2> HIDE DEF f
  <2> QED BY <1>3, <2>1
<1>5. /\ IsRow(g) /\ DOMAIN g = DOMAIN d
      /\ \A x \in DOMAIN d : g[x] = IF x \in a .. c - 1 THEN w[x - a + 1] ELSE d[x]
  <2>1. /\ IsRow(g) /\ DOMAIN g = DOMAIN d
        /\ \A x \in DOMAIN d : g[x] = IF x \in a .. a + Len(w) - 1 THEN w[x - a + 1] ELSE d[x]
    BY <1>2, PutAt, ZenonT(40)
  <2> HIDE DEF g
  <2> QED BY <1>2, <2>1
<1> HIDE DEF f, g, c, m, n
<1>6. ASSUME NEW x \in DOMAIN d PROVE f[x] = g[x]
  <2>1. CASE x \in a .. a + m - 1
    <3>1. x \notin b .. b + n - 1 /\ x \in a .. c - 1 /\ x - a + 1 \in 1 .. m
      BY <1>1, <2>1
    <3> QED BY <1>2, <1>3, <1>4, <1>5, <2>1, <3>1
  <2>2. CASE x \in b .. b + n - 1
    <3> DEFINE j == x - b + 1
    <3>1. x \in a .. c - 1 /\ j \in 1 .. n /\ x - a + 1 = m + j
      <4>1. /\ a \in Nat /\ m \in Nat /\ n \in Nat /\ b = a + m /\ c = b + n /\ x \in Int
            /\ b <= x /\ x <= b + n - 1
        BY <1>1, <2>2
      <4> QED BY <4>1
    <3> HIDE DEF j
    <3>2. f[x] = v[j]
      BY <1>4, <2>2 DEF j
    <3> QED BY <1>2, <1>5, <3>1, <3>2
  <2>3. CASE x \notin a .. a + m - 1 /\ x \notin b .. b + n - 1
    <3>1. x \notin a .. c - 1
      BY <1>1, <2>3
    <3> QED BY <1>3, <1>4, <1>5, <2>3, <3>1
  <2> QED BY <2>1, <2>2, <2>3
<1>7. f = g
  BY <1>4, <1>5, <1>6 DEF IsRow
<1> QED BY <1>7 DEF e, f, g, b, m, w

\* Cells that are changed in part and written back: only the part is written.
PartChanged(d, a, n, o, S, u) ==
  /\ Overlaid(Cells(d, a, n), o, u) \in Seq(Values(d) \cup S)
  /\ Len(Overlaid(Cells(d, a, n), o, u)) = n
  /\ IsRow(d) => Put(d, a, Overlaid(Cells(d, a, n), o, u)) = Put(d, a + o, u)
LEMMA PutOverlaid ==
  ASSUME NEW d, NEW a \in Nat, NEW n \in Nat, NEW o \in Nat,
         NEW S, NEW u \in Seq(S), o + Len(u) <= n
  PROVE  PartChanged(d, a, n, o, S, u)
<1> DEFINE c == Cells(d, a, n)
           m == Len(u)
           w == [i \in 1 .. n |-> IF i \in o + 1 .. o + m THEN u[i - o] ELSE c[i]]
           b == a + o
           T == Values(d) \cup S
           f == Put(d, a, w)
           g == Put(d, b, u)
<1>1. c \in Seq(Values(d)) /\ Len(c) = n /\ \A i \in 1 .. n : c[i] = d[a + i - 1]
  BY CellsAre
<1> HIDE DEF c
<1>2. DOMAIN c = 1 .. n /\ \A i \in 1 .. n : c[i] \in Values(d)
  BY <1>1
<1>3. Overlaid(c, o, u) = w
  BY <1>2 DEF Overlaid
<1>4. m \in Nat /\ o + m <= n /\ b = a + o /\ b \in Nat /\ m = Len(u)
  OBVIOUS
<1>5. \A i \in 1 .. m : u[i] \in S
  OBVIOUS
<1> HIDE DEF b
<1>6. w \in Seq(T) /\ Len(w) = n
      /\ \A i \in 1 .. n : w[i] = IF i \in o + 1 .. o + m THEN u[i - o] ELSE c[i]
  <2> HIDE DEF m
  <2>1. ASSUME NEW i \in 1 .. n
        PROVE  (IF i \in o + 1 .. o + m THEN u[i - o] ELSE c[i]) \in T
    <3>1. CASE i \in o + 1 .. o + m
      <4>1. i - o \in 1 .. m
        BY <1>4, <3>1
      <4> QED BY <1>5, <3>1, <4>1
    <3>2. CASE i \notin o + 1 .. o + m
      BY <1>2, <3>2
    <3> QED BY <3>1, <3>2
  <2> HIDE DEF T
  <2> QED BY <2>1
<1> HIDE DEF w, T, m
<1>7. ASSUME IsRow(d) PROVE f = g
  <2>1. /\ IsRow(f) /\ DOMAIN f = DOMAIN d
        /\ \A x \in DOMAIN d : f[x] = IF x \in a .. a + n - 1 THEN w[x - a + 1] ELSE d[x]
    <3>1. /\ IsRow(f) /\ DOMAIN f = DOMAIN d
          /\ \A x \in DOMAIN d : f[x] = IF x \in a .. a + Len(w) - 1 THEN w[x - a + 1] ELSE d[x]
      BY <1>6, PutAt, ZenonT(40)
    <3> HIDE DEF f
    <3> QED BY <1>6, <3>1
  <2>2. /\ IsRow(g) /\ DOMAIN g = DOMAIN d
        /\ \A x \in DOMAIN d : g[x] = IF x \in b .. b + m - 1 THEN u[x - b + 1] ELSE d[x]
    <3>1. /\ IsRow(g) /\ DOMAIN g = DOMAIN d
          /\ \A x \in DOMAIN d : g[x] = IF x \in b .. b + Len(u) - 1 THEN u[x - b + 1] ELSE d[x]
      <4>1. b \in Nat
        BY <1>4
      <4> QED BY <4>1, PutAt, SMTT(30)
    <3> HIDE DEF g
    <3> QED BY <1>4, <3>1
  <2> HIDE DEF f, g
  <2>3. ASSUME NEW x \in DOMAIN d PROVE f[x] = g[x]
    <3>1. CASE x \in a .. a + n - 1
      <4> DEFINE i == x - a + 1
      <4>1. /\ a \in Nat /\ b = a + o /\ o \in Nat /\ m \in Nat /\ o + m <= n /\ x \in Int
            /\ a <= x /\ x <= a + n - 1
        BY <1>4, <3>1
      <4>2. /\ i \in 1 .. n /\ a + i - 1 = x /\ i - o = x - b + 1
            /\ i \in o + 1 .. o + m <=> x \in b .. b + m - 1
        BY <4>1, SMTT(30)
      <4>3. f[x] = w[i]
        BY <2>1, <3>1
      <4> HIDE DEF i
      <4>4. CASE i \in o + 1 .. o + m
        BY <1>6, <2>2, <4>2, <4>3, <4>4
      <4>5. CASE i \notin o + 1 .. o + m
        BY <1>1, <1>6, <2>2, <4>2, <4>3, <4>5
      <4> QED BY <4>4, <4>5
    <3>2. CASE x \notin a .. a + n - 1
      <4>1. x \notin b .. b + m - 1
        BY <1>4, <3>2
      <4> QED BY <2>1, <2>2, <3>2, <4>1
    <3> QED BY <3>1, <3>2
  <2> QED BY <1>7, <2>1, <2>2, <2>3 DEF IsRow
<1> QED BY <1>3, <1>6, <1>7 DEF c, T, f, g, b, PartChanged

-----------------------------------------------------------------------------
(* The commands of a transfer.                                             *)

\* The port of the sector count is wide enough for what is asked of it.
LEMMA MovedAll ==
  ASSUME NEW n \in 1 .. MaxTransfer
  PROVE  Moved(n) = n
<1>1. MaxTransfer \in Nat \ {0}
  BY AtaAssumption
<1>2. CASE n = MaxTransfer
  <2>1. (1 * MaxTransfer + 0) % MaxTransfer = 0
    BY <1>1, QuotientIs
  <2>2. n % MaxTransfer = 0
    BY <1>1, <1>2, <2>1
  <2> QED BY <1>2, <2>2 DEF Moved
<1>3. CASE n # MaxTransfer
  <2>1. n \in 0 .. MaxTransfer - 1 /\ 0 * MaxTransfer + n = n
    BY <1>1, <1>3
  <2>2. (0 * MaxTransfer + n) % MaxTransfer = n
    BY <1>1, <2>1, QuotientIs
  <2>3. n % MaxTransfer = n
    BY <2>1, <2>2
  <2> QED BY <1>1, <2>3 DEF Moved
<1> QED BY <1>2, <1>3

\* How many full commands there are, and what is left for the last.
LEMMA FullCommandsAre ==
  ASSUME NEW n \in Nat \ {0}
  PROVE  /\ FullCommands(n) \in Nat
         /\ n - FullCommands(n) * MaxTransfer \in 1 .. MaxTransfer
<1>1. MaxTransfer \in Nat \ {0} /\ n - 1 \in Nat
  BY AtaAssumption
<1> DEFINE k == (n - 1) \div MaxTransfer
           r == (n - 1) % MaxTransfer
<1>2. k \in Nat /\ r \in 0 .. MaxTransfer - 1 /\ n - 1 = k * MaxTransfer + r
  BY <1>1, QuotientAndRest
<1> HIDE DEF k, r
<1> DEFINE p == k * MaxTransfer
<1>3. p \in Nat /\ p = k * MaxTransfer
  BY <1>1, <1>2
<1> HIDE DEF p
<1>4. n - p \in 1 .. MaxTransfer
  BY <1>1, <1>2, <1>3
<1>5. FullCommands(n) = k
  BY DEF FullCommands, k
<1> QED BY <1>2, <1>3, <1>4, <1>5

\* Where a command begins after i full ones.
LEMMA CommandStarts ==
  ASSUME NEW s \in Nat, NEW i \in Nat
  PROVE  /\ s + i * MaxTransfer \in Nat
         /\ (s + i * MaxTransfer) * SectorSize = s * SectorSize + i * (MaxTransfer * SectorSize)
         /\ i * (MaxTransfer * SectorSize) \in Nat
<1>1. MaxTransfer \in Nat /\ SectorSize \in Nat
  BY AtaAssumption
<1> QED BY <1>1

\* A command reads its sectors.
CommandReads(d, s, i, n) ==
  ReadCommand(d, s + i * MaxTransfer, n) =
    Cells(d, s * SectorSize + i * (MaxTransfer * SectorSize), n * SectorSize)
LEMMA ReadCommandIs ==
  ASSUME NEW d, NEW s \in Nat, NEW i \in Nat, NEW n \in 1 .. MaxTransfer
  PROVE  CommandReads(d, s, i, n)
<1>1. Moved(n) = n
  BY MovedAll
<1>2. (s + i * MaxTransfer) * SectorSize = s * SectorSize + i * (MaxTransfer * SectorSize)
  BY CommandStarts
<1> QED BY <1>1, <1>2 DEF ReadCommand, CommandReads

\* ata_read_sectors reads the sectors it is asked for, in one command or in many.
LEMMA ReadSectorsIs ==
  ASSUME NEW d, NEW s \in Nat, NEW n \in Nat \ {0}
  PROVE  ReadSectors(d, s, n) = Cells(d, s * SectorSize, n * SectorSize)
<1> DEFINE k == FullCommands(n)
           C == MaxTransfer * SectorSize
           a == s * SectorSize
           ss == [i \in 1 .. k |-> ReadCommand(d, s + (i - 1) * MaxTransfer, MaxTransfer)]
           m == n - k * MaxTransfer
           z == ReadCommand(d, s + k * MaxTransfer, m)
<1>1. MaxTransfer \in Nat \ {0} /\ SectorSize \in Nat \ {0} /\ MaxTransfer \in 1 .. MaxTransfer
  BY AtaAssumption
<1>2. k \in Nat /\ m \in 1 .. MaxTransfer
  BY FullCommandsAre
<1>3. ReadSectors(d, s, n) = FlattenSeq(ss) \o z
  BY DEF ReadSectors
<1>4. C \in Nat /\ a \in Nat
  BY <1>1
<1>5. k * C \in Nat /\ m * SectorSize \in Nat /\ k * C + m * SectorSize = n * SectorSize
  <2>1. /\ k \in Nat /\ n \in Nat /\ MaxTransfer \in Nat /\ SectorSize \in Nat
        /\ n - k * MaxTransfer \in Nat
    BY <1>1, <1>2
  <2> HIDE DEF k
  <2>2. k * (MaxTransfer * SectorSize) + (n - k * MaxTransfer) * SectorSize = n * SectorSize
    BY <2>1
  <2>3. k * (MaxTransfer * SectorSize) \in Nat /\ (n - k * MaxTransfer) * SectorSize \in Nat
    BY <2>1
  <2> QED BY <2>2, <2>3
<1>6. z = Cells(d, a + k * C, m * SectorSize)
  <2>1. CommandReads(d, s, k, m)
    <3> HIDE DEF k, m
    <3> QED BY <1>2, ReadCommandIs
  <2> QED BY <2>1 DEF CommandReads
<1>7. \A i \in 1 .. k : ss[i] = Cells(d, a + (i - 1) * C, C)
  <2>1. ASSUME NEW i \in 1 .. k PROVE ss[i] = Cells(d, a + (i - 1) * C, C)
    <3>1. i - 1 \in Nat
      BY <1>2
    <3> DEFINE j == i - 1
    <3>2. ReadCommand(d, s + j * MaxTransfer, MaxTransfer) = Cells(d, a + j * C, C)
      <4> HIDE DEF j
      <4>1. j \in Nat
        BY <3>1 DEF j
      <4>2. CommandReads(d, s, j, MaxTransfer)
        BY <1>1, <4>1, ReadCommandIs
      <4> QED BY <4>2 DEF CommandReads
    <3> QED BY <3>2
  <2> QED BY <2>1
<1>8. Len(ss) = k
  BY <1>2
<1> HIDE DEF ss, k, C, a, m, z
<1>9. CASE k = 0
  <2>1. FlattenSeq(ss) = <<>>
    <3>1. ss = <<>>
      BY <1>9 DEF ss
    <3> QED BY <3>1 DEF FlattenSeq
  <2>2. z = Cells(d, a, n * SectorSize)
    BY <1>4, <1>5, <1>6, <1>9
  <2>3. <<>> \o z = z
    <3>1. z \in Seq(Values(d))
      <4>1. n * SectorSize \in Nat
        BY <1>1
      <4> QED BY <1>4, <2>2, <4>1, CellsAre
    <3> QED BY <3>1
  <2> QED BY <1>3, <2>1, <2>2, <2>3 DEF a
<1>10. CASE k # 0
  <2>1. PICK f : /\ FlattenSeq(ss) = f[k]
                 /\ \A i \in 1 .. k : f[i] = IF i = 1 THEN ss[i] ELSE f[i - 1] \o ss[i]
    BY <1>2, <1>8, <1>10, FlattenSeqSteps
  <2> DEFINE I == {i \in 1 .. k : f[i] # Cells(d, a, i * C)}
  <2>2. I = {}
    <3> SUFFICES ASSUME I # {} PROVE FALSE
      OBVIOUS
    <3>1. I \subseteq Nat
      BY <1>2
    <3>2. PICK i \in I : \A j \in I : i <= j
      BY <3>1, LeastElement
    <3>3. i \in 1 .. k /\ f[i] # Cells(d, a, i * C)
      OBVIOUS
    <3>4. CASE i = 1
      <4>1. f[1] = ss[1] /\ ss[1] = Cells(d, a + (1 - 1) * C, C)
        BY <1>7, <2>1, <3>3, <3>4
      <4>2. a + (1 - 1) * C = a /\ 1 * C = C
        BY <1>4
      <4> QED BY <3>3, <3>4, <4>1, <4>2
    <3>5. CASE i # 1
      <4> DEFINE j == i - 1
                 b == j * C
      <4>1. j \in 1 .. k /\ ~(i <= j) /\ i = j + 1
        BY <1>2, <3>3, <3>5
      <4>2. f[i] = f[j] \o ss[i] /\ ss[i] = Cells(d, a + b, C)
        BY <1>7, <2>1, <3>3, <3>5
      <4> HIDE DEF j
      <4>3. f[j] = Cells(d, a, b)
        BY <3>2, <4>1
      <4>4. b \in Nat /\ i * C = b + C
        BY <1>4, <4>1
      <4> HIDE DEF b
      <4>5. Cells(d, a, b) \o Cells(d, a + b, C) = Cells(d, a, b + C)
        <5>1. RowsJoin(d, a, b, C)
          BY <1>4, <4>4, CellsJoin
        <5> QED BY <5>1 DEF RowsJoin
      <4> QED BY <3>3, <4>2, <4>3, <4>4, <4>5
    <3> QED BY <3>4, <3>5
  <2>3. FlattenSeq(ss) = Cells(d, a, k * C)
    BY <1>2, <1>10, <2>1, <2>2
  <2> DEFINE b == k * C
             c == m * SectorSize
  <2>4. b \in Nat /\ c \in Nat /\ b + c = n * SectorSize
    BY <1>5
  <2> HIDE DEF b, c
  <2>5. Cells(d, a, b) \o Cells(d, a + b, c) = Cells(d, a, b + c)
    <3>1. a \in Nat /\ b \in Nat /\ c \in Nat
      BY <1>4, <2>4
    <3>2. RowsJoin(d, a, b, c)
      BY <3>1, CellsJoin
    <3> QED BY <3>2 DEF RowsJoin
  <2> QED BY <1>3, <1>6, <2>3, <2>4, <2>5 DEF a, b, c
<1> QED BY <1>9, <1>10

\* Two stretches of data, one behind the other.
LEMMA SubSeqJoin ==
  ASSUME NEW S, NEW s \in Seq(S), NEW p \in Nat, NEW q \in Nat, NEW r \in Nat,
         p + q + r <= Len(s)
  PROVE  /\ SubSeq(s, p + 1, p + q) \in Seq(S) /\ Len(SubSeq(s, p + 1, p + q)) = q
         /\ SubSeq(s, p + 1, p + q) \o SubSeq(s, p + q + 1, p + q + r) =
              SubSeq(s, p + 1, p + q + r)
<1> DEFINE u == SubSeq(s, p + 1, p + q)
           v == SubSeq(s, p + q + 1, p + q + r)
           w == SubSeq(s, p + 1, p + q + r)
           uv == u \o v
<1>1. /\ u \in Seq(S) /\ Len(u) = q
      /\ \A i \in 1 .. q : u[i] = s[p + i]
  OBVIOUS
<1>2. /\ v \in Seq(S) /\ Len(v) = r
      /\ \A i \in 1 .. r : v[i] = s[p + q + i]
  OBVIOUS
<1>3. /\ w \in Seq(S) /\ Len(w) = q + r
      /\ \A i \in 1 .. q + r : w[i] = s[p + i]
  OBVIOUS
<1> HIDE DEF u, v, w
<1>4. /\ uv \in Seq(S) /\ Len(uv) = q + r
      /\ \A i \in 1 .. q : uv[i] = u[i]
      /\ \A i \in 1 .. r : uv[q + i] = v[i]
  <2>1. /\ uv \in Seq(S) /\ Len(uv) = Len(u) + Len(v)
        /\ \A i \in 1 .. Len(u) : uv[i] = u[i]
        /\ \A i \in 1 .. Len(v) : uv[Len(u) + i] = v[i]
    <3>1. u \in Seq(S) /\ v \in Seq(S)
      BY <1>1, <1>2
    <3> QED BY <3>1, ConcatAt
  <2> HIDE DEF uv
  <2> QED BY <1>1, <1>2, <2>1
<1> HIDE DEF uv
<1>5. ASSUME NEW i \in 1 .. q + r PROVE uv[i] = w[i]
  <2>1. CASE i <= q
    <3>1. i \in 1 .. q
      BY <2>1
    <3> QED BY <1>1, <1>3, <1>4, <3>1
  <2>2. CASE i > q
    <3> DEFINE j == i - q
    <3>1. j \in 1 .. r /\ i = q + j /\ p + q + j = p + i
      BY <2>2
    <3> HIDE DEF j
    <3>2. uv[q + j] = v[j]
      BY <1>4, <3>1
    <3>3. v[j] = s[p + q + j]
      BY <1>2, <3>1
    <3>4. w[i] = s[p + i]
      BY <1>3
    <3> QED BY <3>1, <3>2, <3>3, <3>4
  <2> QED BY <2>1, <2>2
<1>6. uv = w
  BY <1>3, <1>4, <1>5, SameSequence
<1> QED BY <1>1, <1>6 DEF u, v, w, uv

\* What a stretch of the data from p on begins with.
LEMMA SubSeqBegins ==
  ASSUME NEW S, NEW s \in Seq(S), NEW p \in Nat, NEW q \in Nat, p + q <= Len(s)
  PROVE  SubSeq(SubSeq(s, p + 1, Len(s)), 1, q) = SubSeq(s, p + 1, p + q)
<1> DEFINE n == Len(s)
           u == SubSeq(s, p + 1, n)
           v == SubSeq(u, 1, q)
           w == SubSeq(s, p + 1, p + q)
<1>1. n \in Nat /\ p + q <= n
  OBVIOUS
<1>2. /\ u \in Seq(S) /\ Len(u) = n - p
      /\ \A i \in 1 .. n - p : u[i] = s[p + i]
  OBVIOUS
<1>3. /\ w \in Seq(S) /\ Len(w) = q
      /\ \A i \in 1 .. q : w[i] = s[p + i]
  OBVIOUS
<1> HIDE DEF u, w, n
<1>4. /\ v \in Seq(S) /\ Len(v) = q
      /\ \A i \in 1 .. q : v[i] = u[i]
  BY <1>1, <1>2
<1> HIDE DEF v
<1>5. ASSUME NEW i \in 1 .. q PROVE v[i] = w[i]
  BY <1>1, <1>2, <1>3, <1>4, SMTT(30)
<1>6. v = w
  BY <1>3, <1>4, <1>5, SameSequence
<1> QED BY <1>6 DEF n, u, v, w

\* A disk to which the first b cells of data have come at a, and one to which c
\* more of them come.
Written(d, a, data, b) == Put(d, a, SubSeq(data, 1, b))
WrittenOn(e, a, data, b, c) == Put(e, a + b, SubSeq(data, b + 1, b + c))
GoesOn(d, a, data, b, c) ==
  WrittenOn(Written(d, a, data, b), a, data, b, c) = Written(d, a, data, b + c)

\* What command i + 1 does, which writes n sectors.
DataFrom(data, i) == SubSeq(data, i * MaxTransfer * SectorSize + 1, Len(data))
CommandGoesOn(e, s, i, n, data, b, c) ==
  WriteCommand(e, s + i * MaxTransfer, n, DataFrom(data, i)) =
    WrittenOn(e, s * SectorSize, data, b, c)

\* A command after others writes the data that come next.
LEMMA WriteCommandIs ==
  ASSUME NEW e, NEW s \in Nat, NEW i \in Nat, NEW n \in 1 .. MaxTransfer,
         NEW S, NEW data \in Seq(S), NEW b \in Nat, NEW c \in Nat,
         b = i * (MaxTransfer * SectorSize), c = n * SectorSize, b + c <= Len(data)
  PROVE  CommandGoesOn(e, s, i, n, data, b, c)
<1> DEFINE u == SubSeq(data, b + 1, Len(data))
<1>1. (s + i * MaxTransfer) * SectorSize = s * SectorSize + b /\ Moved(n) = n
  BY MovedAll, CommandStarts
<1>2. i * MaxTransfer * SectorSize = b
  <2>1. MaxTransfer \in Nat /\ SectorSize \in Nat
    BY AtaAssumption
  <2> QED BY <2>1
<1>3. SubSeq(u, 1, c) = SubSeq(data, b + 1, b + c)
  BY SubSeqBegins
<1>4. WriteCommand(e, s + i * MaxTransfer, n, u) =
        Put(e, (s + i * MaxTransfer) * SectorSize, SubSeq(u, 1, Moved(n) * SectorSize))
  BY DEF WriteCommand
<1> HIDE DEF u
<1>5. WriteCommand(e, s + i * MaxTransfer, n, u) =
        Put(e, s * SectorSize + b, SubSeq(data, b + 1, b + c))
  BY <1>1, <1>3, <1>4
<1> QED BY <1>2, <1>5 DEF u, DataFrom, WrittenOn, CommandGoesOn

\* A write that goes on where one has ended.
LEMMA PutNext ==
  ASSUME NEW d, NEW a \in Nat, NEW S, NEW data \in Seq(S), NEW b \in Nat, NEW c \in Nat,
         b + c <= Len(data)
  PROVE  GoesOn(d, a, data, b, c)
<1> DEFINE u == SubSeq(data, 1, b)
           v == SubSeq(data, b + 1, b + c)
<1>1. 0 + b + c <= Len(data) /\ 0 + 1 = 1 /\ 0 + b = b /\ 0 + b + 1 = b + 1 /\ 0 + b + c = b + c
  OBVIOUS
<1>2. /\ SubSeq(data, 0 + 1, 0 + b) \in Seq(S) /\ Len(SubSeq(data, 0 + 1, 0 + b)) = b
      /\ SubSeq(data, 0 + 1, 0 + b) \o SubSeq(data, 0 + b + 1, 0 + b + c) =
              SubSeq(data, 0 + 1, 0 + b + c)
  BY <1>1, SubSeqJoin, 0 \in Nat
<1>3. u \in Seq(S) /\ Len(u) = b /\ u \o v = SubSeq(data, 1, b + c)
  BY <1>1, <1>2
<1>4. v \in Seq(S)
  OBVIOUS
<1> HIDE DEF u, v
<1>5. Put(Put(d, a, u), a + Len(u), v) = Put(d, a, u \o v)
  <2>1. u \in Seq(S)
    BY <1>3
  <2> QED BY <1>4, <2>1, PutTwice
<1> QED BY <1>3, <1>5 DEF u, v, Written, WrittenOn, GoesOn

\* ata_write_sectors writes the data where it is asked to, in one command or in many.
LEMMA WriteSectorsIs ==
  ASSUME NEW d, IsRow(d), NEW s \in Nat, NEW n \in Nat \ {0}, NEW S, NEW data \in Seq(S),
         n * SectorSize <= Len(data)
  PROVE  WriteSectors(d, s, n, data) =
           Written(d, s * SectorSize, data, n * SectorSize)
<1> DEFINE k == FullCommands(n)
           C == MaxTransfer * SectorSize
           a == s * SectorSize
           m == n - k * MaxTransfer
           L == Len(data)
           Full(e, i) ==
             WriteCommand(e, s + (i - 1) * MaxTransfer, MaxTransfer, DataFrom(data, i - 1))
           F == CHOOSE f : f = [i \in 0 .. k |-> IF i = 0 THEN d ELSE Full(f[i - 1], i)]
           G == [i \in 0 .. k |-> Written(d, a, data, i * C)]
<1>1. MaxTransfer \in Nat \ {0} /\ SectorSize \in Nat \ {0} /\ MaxTransfer \in 1 .. MaxTransfer
  BY AtaAssumption
<1>2. k \in Nat /\ m \in 1 .. MaxTransfer
  BY FullCommandsAre
<1>3. WriteSectors(d, s, n, data) = WriteCommand(F[k], s + k * MaxTransfer, m, DataFrom(data, k))
  BY DEF WriteSectors, DataFrom
<1>4. C \in Nat /\ a \in Nat /\ C = MaxTransfer * SectorSize /\ L \in Nat /\ L = Len(data)
  BY <1>1
<1>5. k * C \in Nat /\ m * SectorSize \in Nat /\ k * C + m * SectorSize = n * SectorSize
  <2>1. /\ k \in Nat /\ n \in Nat /\ MaxTransfer \in Nat /\ SectorSize \in Nat
        /\ n - k * MaxTransfer \in Nat
    BY <1>1, <1>2
  <2> HIDE DEF k
  <2>2. k * (MaxTransfer * SectorSize) + (n - k * MaxTransfer) * SectorSize = n * SectorSize
    BY <2>1
  <2>3. k * (MaxTransfer * SectorSize) \in Nat /\ (n - k * MaxTransfer) * SectorSize \in Nat
    BY <2>1
  <2> QED BY <2>2, <2>3
<1>6. n * SectorSize <= L
  OBVIOUS
<1> HIDE DEF k, m, L
<1>7. \A i \in 0 .. k : G[i] = Written(d, a, data, i * C)
  OBVIOUS
<1>8. ASSUME NEW i \in 1 .. k PROVE Full(G[i - 1], i) = G[i]
  <2> DEFINE j == i - 1
             b == j * C
  <2>1. j \in Nat /\ j \in 0 .. k /\ i \in 0 .. k /\ i \in Nat /\ i <= k
    BY <1>2
  <2>2. b \in Nat /\ b + C = i * C
    BY <1>4, <2>1
  <2>3. i * C <= k * C
    <3> HIDE DEF C
    <3> QED BY <1>2, <1>4, <2>1, ProductOrder
  <2>4. b + C <= L
    <3> DEFINE x == k * C
               y == m * SectorSize
               z == i * C
    <3>1. /\ x \in Nat /\ y \in Nat /\ x + y = n * SectorSize /\ z <= x /\ b + C = z
          /\ n * SectorSize <= L
      BY <1>5, <1>6, <2>2, <2>3
    <3> HIDE DEF x, y, z, b, C
    <3>2. b \in Nat /\ C \in Nat
      BY <1>4, <2>2
    <3> QED BY <1>4, <3>1, <3>2
  <2>5. G[j] = Written(d, a, data, b) /\ G[i] = Written(d, a, data, b + C)
    <3>1. G[j] = Written(d, a, data, b)
      BY <1>7, <2>1
    <3>2. G[i] = Written(d, a, data, i * C)
      BY <1>7, <2>1
    <3> QED BY <2>2, <3>1, <3>2
  <2> HIDE DEF G
  <2>6. ASSUME NEW e
        PROVE  WriteCommand(e, s + j * MaxTransfer, MaxTransfer, DataFrom(data, j)) =
                 WrittenOn(e, a, data, b, C)
    <3>1. b = j * (MaxTransfer * SectorSize) /\ C = MaxTransfer * SectorSize /\ b + C <= Len(data)
      BY <1>4, <2>4
    <3>2. j \in Nat /\ b \in Nat /\ C \in Nat
      BY <1>4, <2>1, <2>2
    <3> HIDE DEF j, b, C
    <3>3. CommandGoesOn(e, s, j, MaxTransfer, data, b, C)
      BY <1>1, <3>1, <3>2, WriteCommandIs
    <3> HIDE DEF a
    <3> QED BY <3>3 DEF CommandGoesOn, a
  <2>7. WrittenOn(Written(d, a, data, b), a, data, b, C) = Written(d, a, data, b + C)
    <3>1. b \in Nat /\ C \in Nat /\ a \in Nat
      BY <1>4, <2>2
    <3>2. b + C <= Len(data)
      BY <1>4, <2>4
    <3> HIDE DEF a, b, C
    <3>3. GoesOn(d, a, data, b, C)
      BY <3>1, <3>2, PutNext
    <3> QED BY <3>3 DEF GoesOn
  <2>8. Full(G[j], i) = WriteCommand(G[j], s + j * MaxTransfer, MaxTransfer, DataFrom(data, j))
    OBVIOUS
  <2>9. WriteCommand(G[j], s + j * MaxTransfer, MaxTransfer, DataFrom(data, j)) =
          WrittenOn(G[j], a, data, b, C)
    BY <2>6
  <2> HIDE DEF Full, b
  <2> QED BY <2>5, <2>7, <2>8, <2>9
<1>9. G[0] = d
  <2>1. G[0] = Written(d, a, data, 0 * C) /\ 0 * C = 0
    BY <1>2, <1>4
  <2>2. SubSeq(data, 1, 0) = <<>>
    OBVIOUS
  <2>3. Put(d, a, <<>>) = d
    BY <1>4, PutNothing
  <2> HIDE DEF G, a
  <2> QED BY <2>1, <2>2, <2>3 DEF Written
<1>10. G = [i \in 0 .. k |-> IF i = 0 THEN d ELSE Full(G[i - 1], i)]
  <2>1. G = [i \in 0 .. k |-> G[i]]
    OBVIOUS
  <2> HIDE DEF G
  <2>2. ASSUME NEW i \in 0 .. k PROVE G[i] = IF i = 0 THEN d ELSE Full(G[i - 1], i)
    <3>1. CASE i = 0
      BY <1>9, <3>1
    <3>2. CASE i # 0
      <4>1. i \in 1 .. k
        BY <1>2, <3>2
      <4> HIDE DEF Full
      <4> QED BY <1>8, <3>2, <4>1
    <3> QED BY <3>1, <3>2
  <2> HIDE DEF Full
  <2> QED BY <2>1, <2>2
<1> HIDE DEF G, Full
<1>11. F = [i \in 0 .. k |-> IF i = 0 THEN d ELSE Full(F[i - 1], i)]
  BY <1>10
<1> HIDE DEF F
<1>12. \A i \in 0 .. k : F[i] = IF i = 0 THEN d ELSE Full(F[i - 1], i)
  BY <1>11
<1> DEFINE I == {i \in 0 .. k : F[i] # G[i]}
<1>13. I = {}
  <2> SUFFICES ASSUME I # {} PROVE FALSE
    OBVIOUS
  <2>1. I \subseteq Nat
    BY <1>2
  <2>2. PICK i \in I : \A j \in I : i <= j
    BY <2>1, LeastElement
  <2>3. i \in 0 .. k /\ F[i] # G[i]
    OBVIOUS
  <2>4. CASE i = 0
    BY <1>9, <1>12, <2>3, <2>4
  <2>5. CASE i # 0
    <3>1. i \in 1 .. k /\ i - 1 \in 0 .. k /\ ~(i <= i - 1)
      BY <1>2, <2>3, <2>5
    <3>2. F[i - 1] = G[i - 1]
      BY <2>2, <3>1
    <3>3. F[i] = Full(F[i - 1], i)
      BY <1>12, <2>3, <2>5
    <3> QED BY <1>8, <2>3, <3>1, <3>2, <3>3
  <2> QED BY <2>4, <2>5
<1> DEFINE b == k * C
           c == m * SectorSize
<1>14. F[k] = Written(d, a, data, b)
  <2>1. k \in 0 .. k
    BY <1>2
  <2> QED BY <1>7, <1>13, <2>1
<1>15. /\ b \in Nat /\ c \in Nat /\ b + c = n * SectorSize /\ b + c <= Len(data) /\ a \in Nat
       /\ b = k * (MaxTransfer * SectorSize)
  BY <1>4, <1>5, <1>6
<1>16. WriteCommand(F[k], s + k * MaxTransfer, m, DataFrom(data, k)) =
         WrittenOn(F[k], a, data, b, c)
  <2>1. c = m * SectorSize /\ k \in Nat /\ m \in 1 .. MaxTransfer
    BY <1>2
  <2> HIDE DEF b, c
  <2>2. CommandGoesOn(F[k], s, k, m, data, b, c)
    BY <1>15, <2>1, WriteCommandIs
  <2> QED BY <2>2 DEF CommandGoesOn
<1>17. WrittenOn(Written(d, a, data, b), a, data, b, c) =
         Written(d, a, data, b + c)
  <2> HIDE DEF a, b, c
  <2>1. a \in Nat /\ b \in Nat /\ c \in Nat
    BY <1>15
  <2>2. b + c <= Len(data)
    BY <1>15
  <2>3. GoesOn(d, a, data, b, c)
    BY <2>1, <2>2, PutNext
  <2> QED BY <2>3 DEF GoesOn
<1> HIDE DEF b, c
<1> QED BY <1>3, <1>14, <1>15, <1>16, <1>17

-----------------------------------------------------------------------------
(* Requests.                                                               *)

\* The parts of a request for n cells from address a on: together they are the
\* request, and whole sectors begin where the part before them ends.
SplitsAt(p, a, n) ==
  /\ p.open \in Nat /\ p.first \in Nat /\ p.last \in Nat
  /\ p.offset \in Nat /\ p.open * SectorSize \in Nat /\ p.open * SectorSize + p.offset = a
  /\ p.head \in Nat /\ p.body \in Nat /\ p.tail \in Nat /\ p.tail <= SectorSize
  /\ p.body * SectorSize \in Nat /\ p.head + p.body * SectorSize + p.tail = n
  /\ p.offset + p.head <= SectorSize
  /\ p.offset = 0 => p.head = 0
  /\ p.body > 0 => p.first * SectorSize = a + p.head
  /\ p.tail > 0 => p.last * SectorSize = a + p.head + p.body * SectorSize

LEMMA SplitIs ==
  ASSUME NEW sector \in Nat, NEW offset \in Nat, NEW n \in Nat
  PROVE  SplitsAt(Split(sector, offset, n), sector * SectorSize + offset, n)
<1> DEFINE q == offset \div SectorSize
           o == offset % SectorSize
           open == sector + q
           a == sector * SectorSize + offset
           head == HeadLength(o, n)
           rest == n - head
           body == rest \div SectorSize
           tail == rest % SectorSize
           first == open + (IF o > 0 THEN 1 ELSE 0)
           last == first + body
           p == [open |-> open, offset |-> o, head |-> head, first |-> first, body |-> body,
                 last |-> last, tail |-> tail]
<1>1. SectorSize \in Nat \ {0}
  BY AtaAssumption
<1>2. Split(sector, offset, n) = p
  BY DEF Split, HeadOffset, OpenSector, TailLength
<1>3. q \in Nat /\ o \in 0 .. SectorSize - 1 /\ offset = q * SectorSize + o
  BY <1>1, QuotientAndRest
<1> HIDE DEF q, o
<1>4. open \in Nat /\ a \in Nat /\ open * SectorSize + o = a /\ open * SectorSize \in Nat
  BY <1>1, <1>3
<1>5. head = IF o = 0 THEN 0 ELSE IF SectorSize <= o + n THEN SectorSize - o ELSE n
  <2>1. o + n \in Nat /\ o \in Nat
    BY <1>1, <1>3
  <2> DEFINE least == Min({SectorSize, o + n})
  <2>2. least = IF SectorSize <= o + n THEN SectorSize ELSE o + n
    BY <1>1, <2>1, MinOfTwo
  <2>3. head = IF o = 0 THEN 0 ELSE least - o
    BY DEF HeadLength
  <2> HIDE DEF least, head
  <2> QED BY <1>1, <2>1, <2>2, <2>3
<1> HIDE DEF open, head
<1>6. head \in Nat /\ rest \in Nat /\ head + rest = n /\ o + head <= SectorSize
  BY <1>1, <1>3, <1>5
<1> HIDE DEF rest
<1>7. body \in Nat /\ tail \in 0 .. SectorSize - 1 /\ rest = body * SectorSize + tail
  BY <1>1, <1>6, QuotientAndRest
<1> HIDE DEF body, tail
<1>8. body * SectorSize \in Nat
  BY <1>1, <1>7
<1>9. first \in Nat /\ first * SectorSize = open * SectorSize + (IF o > 0 THEN SectorSize ELSE 0)
  BY <1>1, <1>3, <1>4
<1>10. last \in Nat /\ last * SectorSize = first * SectorSize + body * SectorSize
  <2> HIDE DEF first
  <2> QED BY <1>1, <1>7, <1>9
<1> DEFINE x == open * SectorSize
           y == first * SectorSize
           z == body * SectorSize
           w == last * SectorSize
<1>11. rest # 0 => y = a + head
  <2>1. /\ x \in Nat /\ x + o = a /\ y = x + (IF o > 0 THEN SectorSize ELSE 0)
        /\ o \in Nat /\ SectorSize \in Nat /\ rest \in Nat /\ head + rest = n
    BY <1>1, <1>3, <1>4, <1>6, <1>9
  <2> HIDE DEF x, y, a
  <2> QED BY <1>5, <2>1
<1>12. body > 0 => rest # 0
  <2>1. body > 0 => z # 0
    BY <1>1, <1>7
  <2>2. z \in Nat /\ rest = z + tail /\ tail \in Nat
    BY <1>1, <1>7, <1>8
  <2> HIDE DEF z
  <2> QED BY <2>1, <2>2
<1>13. tail > 0 => rest # 0
  <2>1. z \in Nat /\ rest = z + tail /\ tail \in Nat
    BY <1>1, <1>7, <1>8
  <2> HIDE DEF z
  <2> QED BY <2>1
<1> HIDE DEF first, last, a
<1>14. /\ p.open = open /\ p.first = first /\ p.last = last /\ p.offset = o /\ p.head = head
       /\ p.body = body /\ p.tail = tail
  OBVIOUS
<1> HIDE DEF p
<1>15. SplitsAt(p, a, n)
  <2>1. /\ head + z + tail = n
        /\ o = 0 => head = 0
        /\ body > 0 => y = a + head
        /\ tail > 0 => w = a + head + z
    <3>1. /\ z \in Nat /\ rest = z + tail /\ tail \in Nat /\ head \in Nat /\ head + rest = n
          /\ w = y + z /\ rest \in Nat
      BY <1>1, <1>6, <1>7, <1>8, <1>10
    <3> HIDE DEF w, y, z
    <3> QED BY <1>5, <1>11, <1>12, <1>13, <3>1
  <2>2. /\ open \in Nat /\ first \in Nat /\ last \in Nat
        /\ o \in Nat /\ x \in Nat /\ x + o = a
        /\ head \in Nat /\ body \in Nat /\ tail \in Nat /\ tail <= SectorSize
        /\ z \in Nat /\ o + head <= SectorSize
    BY <1>1, <1>3, <1>4, <1>6, <1>7, <1>8, <1>9, <1>10
  <2> QED BY <1>14, <2>1, <2>2 DEF SplitsAt
<1> QED BY <1>2, <1>15 DEF a

\* A read of any stretch of the disk returns its cells.
LEMMA ReadDataIs ==
  ASSUME NEW d, NEW sector \in Nat, NEW offset \in Nat, NEW n \in Nat
  PROVE  ReadData(d, sector, offset, n) = Cells(d, sector * SectorSize + offset, n)
<1> DEFINE p == Split(sector, offset, n)
           a == sector * SectorSize + offset
           X == IF p.offset > 0
                THEN SubSeq(ReadSectors(d, p.open, 1), p.offset + 1, p.offset + p.head)
                ELSE <<>>
           Y == IF p.body > 0 THEN ReadSectors(d, p.first, p.body) ELSE <<>>
           Z == IF p.tail > 0 THEN SubSeq(ReadSectors(d, p.last, 1), 1, p.tail) ELSE <<>>
           b == p.body * SectorSize
<1>1. ReadData(d, sector, offset, n) = X \o Y \o Z
  BY DEF ReadData
<1>2. SectorSize \in Nat \ {0} /\ a \in Nat
  BY AtaAssumption
<1>3. SplitsAt(p, a, n)
  BY SplitIs
<1> HIDE DEF p, a
<1>4. /\ p.open \in Nat /\ p.first \in Nat /\ p.last \in Nat
      /\ p.offset \in Nat /\ p.open * SectorSize \in Nat /\ p.open * SectorSize + p.offset = a
      /\ p.head \in Nat /\ p.body \in Nat /\ p.tail \in Nat /\ p.tail <= SectorSize
      /\ b \in Nat /\ p.head + b + p.tail = n
      /\ p.offset + p.head <= SectorSize
      /\ p.offset = 0 => p.head = 0
      /\ p.body > 0 => p.first * SectorSize = a + p.head
      /\ p.tail > 0 => p.last * SectorSize = a + p.head + b
  BY <1>3 DEF SplitsAt
<1>5. ASSUME NEW s \in Nat PROVE ReadSectors(d, s, 1) = Cells(d, s * SectorSize, SectorSize)
  <2>1. 1 \in Nat \ {0} /\ 1 * SectorSize = SectorSize
    BY <1>2
  <2>2. ReadSectors(d, s, 1) = Cells(d, s * SectorSize, 1 * SectorSize)
    BY <2>1, ReadSectorsIs
  <2> QED BY <2>1, <2>2
<1>6. X = Cells(d, a, p.head)
  <2>1. CASE p.offset > 0
    <3> DEFINE s == p.open * SectorSize
               o == p.offset
               h == p.head
    <3>1. s \in Nat /\ o \in Nat /\ h \in Nat /\ o + h <= SectorSize /\ SectorSize \in Nat
      BY <1>2, <1>4
    <3>2. X = SubSeq(Cells(d, s, SectorSize), o + 1, o + h)
      BY <1>4, <1>5, <2>1
    <3>3. s + o = a
      BY <1>4
    <3> HIDE DEF X, s, o, h
    <3>4. SubSeq(Cells(d, s, SectorSize), o + 1, o + h) = Cells(d, s + o, h)
      <4>1. PartIsRow(d, s, SectorSize, o, h)
        BY <3>1, CellsPart
      <4> QED BY <4>1 DEF PartIsRow
    <3> QED BY <3>2, <3>3, <3>4 DEF h
  <2>2. CASE ~(p.offset > 0)
    <3>1. p.head = 0
      BY <1>4, <2>2
    <3> QED BY <2>2, <3>1, CellsNone
  <2> QED BY <2>1, <2>2
<1>7. Y = Cells(d, a + p.head, b)
  <2>1. CASE p.body > 0
    <3>1. p.body \in Nat \ {0} /\ p.first \in Nat
      BY <1>4, <2>1
    <3>2. ReadSectors(d, p.first, p.body) = Cells(d, p.first * SectorSize, p.body * SectorSize)
      BY <3>1, ReadSectorsIs
    <3> QED BY <1>4, <2>1, <3>2
  <2>2. CASE ~(p.body > 0)
    <3>1. p.body = 0
      BY <1>4, <2>2
    <3>2. b = 0
      BY <1>2, <3>1
    <3> QED BY <2>2, <3>2, CellsNone
  <2> QED BY <2>1, <2>2
<1>8. Z = Cells(d, a + p.head + b, p.tail)
  <2>1. CASE p.tail > 0
    <3> DEFINE s == p.last * SectorSize
               t == p.tail
    <3>1. s \in Nat /\ t \in Nat /\ t <= SectorSize /\ SectorSize \in Nat
      BY <1>2, <1>4, SMTT(30)
    <3>2. Z = SubSeq(Cells(d, s, SectorSize), 0 + 1, 0 + t)
      <4>1. 0 + 1 = 1 /\ 0 + t = t
        BY <3>1
      <4> QED BY <1>4, <1>5, <2>1, <4>1
    <3>3. s = a + p.head + b
      BY <1>4, <2>1
    <3> HIDE DEF Z, s, t, b
    <3>4. SubSeq(Cells(d, s, SectorSize), 0 + 1, 0 + t) = Cells(d, s + 0, t)
      <4>1. 0 \in Nat /\ 0 + t <= SectorSize
        BY <3>1
      <4>2. PartIsRow(d, s, SectorSize, 0, t)
        BY <3>1, <4>1, CellsPart
      <4> QED BY <4>2 DEF PartIsRow
    <3>5. s + 0 = s
      BY <3>1
    <3> QED BY <3>2, <3>3, <3>4, <3>5 DEF t
  <2>2. CASE ~(p.tail > 0)
    <3>1. p.tail = 0
      BY <1>4, <2>2
    <3> QED BY <2>2, <3>1, CellsNone
  <2> QED BY <2>1, <2>2
<1> DEFINE h == p.head
           t == p.tail
           c == h + b
<1>9. /\ h \in Nat /\ b \in Nat /\ t \in Nat /\ c \in Nat /\ c + t = n /\ a + h \in Nat
      /\ a + h + b = a + c
  BY <1>2, <1>4
<1> HIDE DEF X, Y, Z, b
<1>10. X = Cells(d, a, h) /\ Y = Cells(d, a + h, b) /\ Z = Cells(d, a + c, t)
  BY <1>6, <1>7, <1>8, <1>9
<1> HIDE DEF h, t, c
<1>11. a \in Nat /\ h \in Nat /\ b \in Nat /\ c \in Nat /\ t \in Nat
  BY <1>2, <1>9
<1>12. RowsJoin(d, a, h, b) /\ RowsJoin(d, a, c, t)
  BY <1>11, CellsJoin
<1>13. h + b = c /\ c + t = n
  BY <1>9 DEF c
<1> QED BY <1>1, <1>10, <1>12, <1>13 DEF a, RowsJoin

\* Writing a part of a sector: it is read, changed and written back.
PartWritten(d, s, o, u) == WritePart(d, s, o, u) = Put(d, s * SectorSize + o, u)
LEMMA WritePartIs ==
  ASSUME NEW d, IsRow(d), NEW s \in Nat, NEW o \in Nat, NEW S, NEW u \in Seq(S),
         o + Len(u) <= SectorSize
  PROVE  PartWritten(d, s, o, u)
<1> DEFINE a == s * SectorSize
           c == Cells(d, a, SectorSize)
           w == Overlaid(c, o, u)
           T == Values(d) \cup S
<1>1. SectorSize \in Nat \ {0} /\ a \in Nat /\ 1 \in Nat \ {0} /\ 1 * SectorSize = SectorSize
  BY AtaAssumption
<1>2. ReadSectors(d, s, 1) = c
  BY <1>1, ReadSectorsIs
<1>3. w \in Seq(T) /\ Len(w) = SectorSize /\ Put(d, a, w) = Put(d, a + o, u)
  <2>1. SectorSize \in Nat
    BY <1>1
  <2> HIDE DEF a
  <2>2. PartChanged(d, a, SectorSize, o, S, u)
    BY <1>1, <2>1, PutOverlaid
  <2> QED BY <2>2 DEF PartChanged
<1>4. WritePart(d, s, o, u) = WriteSectors(d, s, 1, w)
  BY <1>2 DEF WritePart
<1> HIDE DEF w, T
<1>5. WriteSectors(d, s, 1, w) = Written(d, a, w, SectorSize)
  <2>1. 1 * SectorSize <= Len(w)
    BY <1>1, <1>3
  <2>2. w \in Seq(T)
    BY <1>3
  <2>3. WriteSectors(d, s, 1, w) = Written(d, s * SectorSize, w, 1 * SectorSize)
    BY <1>1, <2>1, <2>2, WriteSectorsIs
  <2> QED BY <1>1, <2>3
<1>6. Written(d, a, w, SectorSize) = Put(d, a, w)
  <2>1. SubSeq(w, 1, SectorSize) = w
    BY <1>3
  <2> QED BY <2>1 DEF Written
<1> QED BY <1>3, <1>4, <1>5, <1>6 DEF PartWritten

\* A write of any stretch of the disk changes its cells and no others.
LEMMA WriteDataIs ==
  ASSUME NEW d, IsRow(d), NEW sector \in Nat, NEW offset \in Nat, NEW S, NEW data \in Seq(S)
  PROVE  WriteData(d, sector, offset, data) = Put(d, sector * SectorSize + offset, data)
<1> DEFINE n == Len(data)
           p == Split(sector, offset, n)
           a == sector * SectorSize + offset
           h == p.head
           b == p.body * SectorSize
           t == p.tail
           afterHead == IF p.offset > 0 THEN WritePart(d, p.open, p.offset, SubSeq(data, 1, h))
                        ELSE d
           afterBody == IF p.body > 0
                        THEN WriteSectors(afterHead, p.first, p.body, SubSeq(data, h + 1, n))
                        ELSE afterHead
           afterTail == IF p.tail > 0
                        THEN WritePart(afterBody, p.last, 0, SubSeq(data, h + b + 1, n))
                        ELSE afterBody
<1>1. WriteData(d, sector, offset, data) = afterTail
  BY DEF WriteData
<1>2. SectorSize \in Nat \ {0} /\ a \in Nat /\ n \in Nat /\ n = Len(data)
  BY AtaAssumption
<1>3. SplitsAt(p, a, n)
  BY <1>2, SplitIs
<1> HIDE DEF p, a, n
<1>4. /\ p.open \in Nat /\ p.first \in Nat /\ p.last \in Nat
      /\ p.offset \in Nat /\ p.open * SectorSize \in Nat /\ p.open * SectorSize + p.offset = a
      /\ h \in Nat /\ p.body \in Nat /\ t \in Nat /\ t <= SectorSize
      /\ b \in Nat /\ h + b + t = n
      /\ p.offset + h <= SectorSize
      /\ p.offset = 0 => h = 0
      /\ p.body > 0 => p.first * SectorSize = a + h
      /\ t > 0 => p.last * SectorSize = a + h + b
  BY <1>3 DEF SplitsAt
<1> DEFINE c == h + b
<1>5. /\ h \in Nat /\ b \in Nat /\ t \in Nat /\ c \in Nat /\ a \in Nat
      /\ h + b <= Len(data) /\ c + t <= Len(data) /\ h <= Len(data) /\ c + t = n
      /\ a + h + b = a + c
  <2>1. h \in Nat /\ b \in Nat /\ t \in Nat /\ h + b + t = n /\ a \in Nat /\ n = Len(data)
    BY <1>2, <1>4
  <2> HIDE DEF h, b, t
  <2> QED BY <2>1
<1>6. ASSUME NEW x \in Nat, x <= Len(data)
      PROVE  /\ SubSeq(data, 1, x) \in Seq(S) /\ Len(SubSeq(data, 1, x)) = x
             /\ IsRow(Written(d, a, data, x))
  <2>1. SubSeq(data, 1, x) \in Seq(S) /\ Len(SubSeq(data, 1, x)) = x
    BY <1>6
  <2>2. IsRow(Put(d, a, SubSeq(data, 1, x)))
    BY <1>2, <2>1, PutAt
  <2> QED BY <2>1, <2>2 DEF Written
<1>7. afterHead = Written(d, a, data, h)
  <2>1. CASE p.offset > 0
    <3> DEFINE u == SubSeq(data, 1, h)
               o == p.offset
               s == p.open
    <3>1. u \in Seq(S) /\ Len(u) = h
      BY <1>5, <1>6
    <3>2. s \in Nat /\ o \in Nat /\ o + h <= SectorSize /\ s * SectorSize + o = a
      BY <1>4
    <3>3. afterHead = WritePart(d, s, o, u)
      BY <2>1
    <3> HIDE DEF u, o, s, afterHead, h
    <3>4. PartWritten(d, s, o, u)
      BY <3>1, <3>2, WritePartIs
    <3> QED BY <3>2, <3>3, <3>4 DEF PartWritten, Written, u
  <2>2. CASE ~(p.offset > 0)
    <3>1. h = 0
      BY <1>4, <2>2
    <3>2. SubSeq(data, 1, 0) = <<>>
      OBVIOUS
    <3>3. Put(d, a, <<>>) = d
      BY <1>2, PutNothing
    <3> QED BY <2>2, <3>1, <3>2, <3>3 DEF Written
  <2> QED BY <2>1, <2>2
<1> HIDE DEF afterHead
<1>8. afterBody = Written(d, a, data, c)
  <2>1. CASE p.body > 0
    <3> DEFINE u == SubSeq(data, h + 1, Len(data))
               e == Written(d, a, data, h)
               s == p.first
               m == p.body
    <3>1. u \in Seq(S) /\ Len(u) = n - h
      BY <1>2, <1>5, SMTT(30)
    <3>2. s \in Nat /\ m \in Nat \ {0} /\ s * SectorSize = a + h /\ m * SectorSize = b
      BY <1>4, <2>1
    <3>3. afterBody = WriteSectors(e, s, m, u)
      BY <1>2, <1>7, <2>1
    <3>4. IsRow(e)
      BY <1>5, <1>6
    <3>5. SubSeq(u, 1, b) = SubSeq(data, h + 1, h + b)
      <4> HIDE DEF h, b
      <4> QED BY <1>5, SubSeqBegins
    <3> HIDE DEF u, s, m, e, h, b, afterBody
    <3>6. b <= Len(u)
      BY <1>2, <1>5, <3>1
    <3>7. WriteSectors(e, s, m, u) = Written(e, s * SectorSize, u, m * SectorSize)
      <4>1. m * SectorSize <= Len(u)
        BY <3>2, <3>6
      <4>2. u \in Seq(S)
        BY <3>1
      <4> QED BY <3>2, <3>4, <4>1, <4>2, WriteSectorsIs
    <3>8. Written(e, s * SectorSize, u, m * SectorSize) = WrittenOn(e, a, data, h, b)
      BY <3>2, <3>5 DEF Written, WrittenOn
    <3>9. GoesOn(d, a, data, h, b)
      BY <1>5, PutNext
    <3> QED BY <3>3, <3>7, <3>8, <3>9 DEF GoesOn, e
  <2>2. CASE ~(p.body > 0)
    <3>1. p.body = 0
      BY <1>4, <2>2
    <3>2. b = 0 /\ c = h
      BY <1>2, <1>4, <3>1
    <3> HIDE DEF c
    <3> QED BY <1>7, <2>2, <3>2
  <2> QED BY <2>1, <2>2
<1> HIDE DEF afterBody, c
<1>9. afterTail = Written(d, a, data, n)
  <2>1. CASE t > 0
    <3> DEFINE u == SubSeq(data, c + 1, Len(data))
               e == Written(d, a, data, c)
               s == p.last
    <3>1. u \in Seq(S) /\ Len(u) = t
      <4>1. Len(data) - c = t
        BY <1>2, <1>5, SMTT(30)
      <4> QED BY <1>5, <4>1
    <3>2. s \in Nat /\ s * SectorSize = a + c /\ s * SectorSize + 0 = a + c
      <4> DEFINE x == s * SectorSize
      <4>1. s \in Nat /\ x = a + c /\ a + c \in Nat
        BY <1>4, <1>5, <2>1
      <4> HIDE DEF x
      <4>2. x + 0 = x
        BY <4>1
      <4> QED BY <4>1, <4>2 DEF x
    <3>3. afterTail = WritePart(e, s, 0, u)
      BY <1>2, <1>8, <2>1 DEF c
    <3>4. IsRow(e)
      <4>1. c \in Nat /\ c <= Len(data)
        BY <1>5
      <4> QED BY <1>6, <4>1
    <3>5. u = SubSeq(data, c + 1, c + t)
      BY <1>2, <1>5
    <3>6. 0 + t <= SectorSize /\ 0 \in Nat
      BY <1>4
    <3> HIDE DEF u, s, e, t, afterTail
    <3>7. PartWritten(e, s, 0, u)
      BY <3>1, <3>2, <3>4, <3>6, WritePartIs
    <3>8. WritePart(e, s, 0, u) = WrittenOn(e, a, data, c, t)
      BY <3>2, <3>5, <3>7 DEF PartWritten, WrittenOn
    <3>9. GoesOn(d, a, data, c, t)
      BY <1>5, PutNext
    <3> QED BY <1>5, <3>3, <3>8, <3>9 DEF GoesOn, e
  <2>2. CASE ~(t > 0)
    <3>1. c = n
      BY <1>5, <2>2
    <3> QED BY <1>8, <2>2, <3>1
  <2> QED BY <2>1, <2>2
<1>10. Written(d, a, data, n) = Put(d, a, data)
  <2>1. SubSeq(data, 1, n) = data
    BY <1>2
  <2> QED BY <2>1 DEF Written
<1> QED BY <1>1, <1>9, <1>10 DEF a

-----------------------------------------------------------------------------
(* ata implements FlatDisk.                                                *)

\* Inductive invariant: the disk keeps the addresses that it had at first.
FlatInv ==
  /\ IsRow(disk)
  /\ volume \in Disks /\ DOMAIN disk = DOMAIN volume.cells

\* The address of a request.
Address(r) == (PartitionStart + r.sector) * SectorSize + r.offset

LEMMA RequestsAreOnDisk ==
  ASSUME FlatInv, NEW r \in AtaRequests
  PROVE  /\ r.sector \in Nat /\ PartitionStart + r.sector \in Nat /\ r.offset \in Nat
         /\ r.length \in 0 .. MaxLength /\ r.length \in Nat /\ Address(r) \in Nat
         /\ Address(r) \in DOMAIN disk
         /\ Address(r) .. Address(r) + r.length - 1 \subseteq DOMAIN disk
<1>1. r \in [sector : Nat, offset : Nat, length : 0 .. MaxLength]
  BY RequestsAssumption
<1>2. SectorSize \in Nat /\ PartitionStart \in Nat /\ MaxLength \in Nat
  BY AtaAssumption
<1>3. r.sector \in Nat /\ r.offset \in Nat /\ r.length \in 0 .. MaxLength
  BY <1>1
<1>4. PartitionStart + r.sector \in Nat /\ r.length \in Nat
  BY <1>2, <1>3
<1>5. Address(r) \in Nat
  BY <1>2, <1>3, <1>4 DEF Address
<1>6. {Address(r)} \cup (Address(r) .. Address(r) + r.length - 1) \subseteq DOMAIN volume.cells
  BY RequestsAssumption DEF FlatInv, Address
<1> QED BY <1>3, <1>4, <1>5, <1>6 DEF FlatInv

LEMMA PayloadIs ==
  ASSUME NEW n \in Nat
  PROVE  Payload(n) \in Seq(Nat) /\ Len(Payload(n)) = n /\ Payload(n) = Flat!Payload(n)
BY AtaAssumption DEF Payload, Flat!Payload

\* A request of fat or of another program, answered by ata.
LEMMA ReadsAreFlat ==
  ASSUME FlatInv, NEW r \in AtaRequests,
         \/ AtaRead(PartitionStart + r.sector, r.offset, r.length)
         \/ AtaMbrRead(r.sector, r.offset, r.length)
  PROVE  Flat!Read(Address(r), r.length) /\ UNCHANGED disk
<1>1. reply' = ReadData(disk, PartitionStart + r.sector, r.offset, r.length) /\ UNCHANGED disk
  BY DEF AtaRead, AtaMbrRead, PartitionReadData
<1> DEFINE s == PartitionStart + r.sector
           o == r.offset
           n == r.length
<1>2. s \in Nat /\ o \in Nat /\ n \in Nat
  BY RequestsAreOnDisk
<1> HIDE DEF s, o, n
<1>3. ReadData(disk, s, o, n) = Cells(disk, s * SectorSize + o, n)
  BY <1>2, ReadDataIs
<1> QED BY <1>1, <1>3 DEF Flat!Read, Cells, Address, s, o, n

LEMMA WritesAreFlat ==
  ASSUME FlatInv, NEW r \in AtaRequests,
         AtaWrite(PartitionStart + r.sector, r.offset, r.length)
  PROVE  Flat!Write(Address(r), r.length) /\ IsRow(disk') /\ DOMAIN disk' = DOMAIN disk
<1> DEFINE s == PartitionStart + r.sector
           o == r.offset
           n == r.length
           a == Address(r)
           u == Payload(n)
<1>1. disk' = WriteData(disk, s, o, u) /\ reply' = <<1>>
  BY DEF AtaWrite
<1>2. s \in Nat /\ o \in Nat /\ n \in Nat /\ a \in Nat
  BY RequestsAreOnDisk
<1>3. a = s * SectorSize + o
  BY DEF Address
<1>4. u \in Seq(Nat) /\ Len(u) = n /\ u = Flat!Payload(n)
  BY <1>2, PayloadIs
<1> HIDE DEF s, o, n, a, u
<1>5. IsRow(disk)
  BY DEF FlatInv
<1>6. disk' = Put(disk, a, u)
  BY <1>1, <1>2, <1>3, <1>4, <1>5, WriteDataIs
<1>7. IsRow(disk') /\ DOMAIN disk' = DOMAIN disk
  BY <1>2, <1>4, <1>6, PutAt
<1>8. disk' = [x \in DOMAIN disk |-> IF x \in a .. a + n - 1 THEN Flat!Payload(n)[x - a + 1]
                                     ELSE disk[x]]
  BY <1>4, <1>6 DEF Put
<1>9. Flat!Write(a, n)
  BY <1>1, <1>8 DEF Flat!Write
<1> QED BY <1>7, <1>9 DEF a, n

\* Every step keeps the invariant, and is one of FlatDisk or changes nothing of it.
LEMMA StepIsFlat ==
  ASSUME FlatInv, [FatNext]_fatVars
  PROVE  FlatInv' /\ [Flat!Next]_(Flat!vars)
<1>1. ASSUME UNCHANGED <<disk, volume>> PROVE FlatInv'
  <2>1. IsRow(disk) /\ volume \in Disks /\ DOMAIN disk = DOMAIN volume.cells
    BY DEF FlatInv
  <2> QED BY <1>1, <2>1 DEF FlatInv
<1>2. CASE \E offset, n \in 0 .. MaxRead : VfsRead(offset, n)
  <2>1. UNCHANGED <<disk, reply, volume>>
    BY <1>2 DEF VfsRead, ataVars
  <2> QED BY <1>1, <2>1 DEF Flat!vars
<1>3. CASE \E index \in 0 .. MaxIndex : VfsReaddir(index)
  <2>1. UNCHANGED <<disk, reply, volume>>
    BY <1>3 DEF VfsReaddir, ataVars
  <2> QED BY <1>1, <2>1 DEF Flat!vars
<1>4. CASE \E name \in Names : VfsFinddir(name)
  <2>1. UNCHANGED <<disk, reply, volume>>
    BY <1>4 DEF VfsFinddir, ataVars
  <2> QED BY <1>1, <2>1 DEF Flat!vars
<1>5. CASE \E r \in AtaRequests : Raw(r)
  <2>1. PICK r \in AtaRequests : Raw(r)
    BY <1>5
  <2>2. /\ Address(r) \in DOMAIN disk /\ r.length \in 0 .. MaxLength
        /\ Address(r) .. Address(r) + r.length - 1 \subseteq DOMAIN disk
    BY RequestsAreOnDisk
  <2>3. UNCHANGED volume
    BY <2>1 DEF Raw
  <2>4. CASE \/ AtaRead(PartitionStart + r.sector, r.offset, r.length)
             \/ AtaMbrRead(r.sector, r.offset, r.length)
    <3>1. Flat!Read(Address(r), r.length) /\ UNCHANGED disk
      BY <2>4, ReadsAreFlat
    <3>2. Flat!Next
      BY <2>2, <3>1 DEF Flat!Next
    <3> QED BY <1>1, <2>3, <3>1, <3>2
  <2>5. CASE AtaWrite(PartitionStart + r.sector, r.offset, r.length)
    <3>1. Flat!Write(Address(r), r.length) /\ IsRow(disk') /\ DOMAIN disk' = DOMAIN disk
      BY <2>5, WritesAreFlat
    <3>2. Flat!Next
      BY <2>2, <3>1 DEF Flat!Next
    <3>3. FlatInv'
      BY <2>3, <3>1 DEF FlatInv
    <3> QED BY <3>2, <3>3
  <2> QED BY <2>1, <2>4, <2>5 DEF Raw
<1>6. CASE Take
  <2>1. UNCHANGED <<disk, volume>> /\ reply' = <<>>
    BY <1>6 DEF Take
  <2>2. Flat!Next
    BY <2>1 DEF Flat!Next, Flat!Take
  <2> QED BY <1>1, <2>1, <2>2
<1>7. CASE UNCHANGED fatVars
  <2>1. UNCHANGED <<disk, reply, volume>>
    BY <1>7 DEF fatVars, ataVars
  <2> QED BY <1>1, <2>1 DEF Flat!vars
<1> QED BY <1>2, <1>3, <1>4, <1>5, <1>6, <1>7 DEF FatNext

\* ata implements FlatDisk: whatever the sizes of sectors and commands, and wherever
\* a request begins and ends, ata_read_data returns the cells that it names, and
\* ata_write_data changes those and no others.
THEOREM AtaImplementsFlatDisk == FatSpec => DiskIsFlat
<1>1. FatInit => FlatInv
  <2> SUFFICES ASSUME FatInit PROVE FlatInv
    OBVIOUS
  <2>1. volume \in Disks /\ disk = volume.cells
    BY DEF FatInit
  <2>2. volume.cells \in [DOMAIN volume.cells -> Range(volume.cells)]
    BY <2>1, RequestsAssumption
  <2>3. IsRow(disk)
    BY <2>1, <2>2 DEF IsRow
  <2> QED BY <2>1, <2>3 DEF FlatInv
<1>2. FatInit => reply = <<>>
  BY DEF FatInit
<1>3. FlatInv /\ [FatNext]_fatVars => FlatInv' /\ [Flat!Next]_(Flat!vars)
  BY StepIsFlat
<1> QED BY <1>1, <1>2, <1>3, PTL DEF FatSpec, DiskIsFlat, Flat!Spec

-----------------------------------------------------------------------------
(* What fat reads.                                                         *)

\* Inductive invariant: what lies before the data, the FAT for one, is as it was at
\* first.
FirstData == (PartitionStart + FirstDataSector) * SectorSize
FatInv ==
  /\ FlatInv
  /\ \A x \in DOMAIN disk : x \in Nat /\ x < FirstData => disk[x] = volume.cells[x]

\* The numbers of the boot record.
LEMMA FatNumbers ==
  /\ SectorSize \in Nat \ {0} /\ PartitionStart \in Nat /\ SectorsPerCluster \in Nat \ {0}
  /\ ReservedSectors \in Nat /\ FatSectors \in Nat /\ Fats \in Nat \ {0}
  /\ FirstDataSector \in Nat /\ ReservedSectors + FatSectors <= FirstDataSector
  /\ ClusterSize \in Nat \ {0} /\ ClusterSize = SectorsPerCluster * SectorSize
  /\ ClusterSize < CopyRange /\ CopyRange \in Nat /\ EndOfChain \in Nat /\ EndOfChain >= 16
  /\ Base \in Nat /\ FirstData \in Nat
<1>1. /\ SectorSize \in Nat \ {0} /\ PartitionStart \in Nat /\ SectorsPerCluster \in Nat \ {0}
      /\ ReservedSectors \in Nat /\ FatSectors \in Nat /\ Fats \in Nat \ {0}
      /\ ClusterSize < CopyRange /\ CopyRange \in Nat /\ EndOfChain \in Nat /\ EndOfChain >= 16
  BY AtaAssumption, FatAssumption
<1>2. FatSectors * Fats \in Nat /\ FatSectors <= FatSectors * Fats
  BY <1>1
<1>3. FirstDataSector \in Nat /\ ReservedSectors + FatSectors <= FirstDataSector
  BY <1>1, <1>2 DEF FirstDataSector
<1>4. ClusterSize \in Nat \ {0} /\ ClusterSize = SectorsPerCluster * SectorSize
  BY <1>1 DEF ClusterSize
<1>5. Base \in Nat /\ FirstData \in Nat
  BY <1>1, <1>3 DEF Base, FirstData
<1> QED BY <1>1, <1>3, <1>4, <1>5

\* An entry of a cluster of a volume lies in the FAT.
LEMMA EntryIsBeforeData ==
  ASSUME NEW c \in 2 .. FatSectors * SectorSize - 1
  PROVE  EntryAt(c) \in Nat /\ EntryAt(c) < FirstData
<1> DEFINE f == FatSectors * SectorSize
           r == ReservedSectors * SectorSize
           m == FirstDataSector * SectorSize
<1>1. f \in Nat /\ r \in Nat /\ m \in Nat /\ r + f <= m /\ FirstData = Base + m /\ Base \in Nat
  <2>1. /\ SectorSize \in Nat /\ PartitionStart \in Nat /\ ReservedSectors \in Nat
        /\ FatSectors \in Nat /\ FirstDataSector \in Nat
        /\ ReservedSectors + FatSectors <= FirstDataSector
    BY FatNumbers
  <2>2. (ReservedSectors + FatSectors) * SectorSize <= m
    BY <2>1, ProductOrder, ReservedSectors + FatSectors \in Nat
  <2>3. (ReservedSectors + FatSectors) * SectorSize = r + f
    BY <2>1
  <2>4. f \in Nat /\ r \in Nat /\ m \in Nat
    BY <2>1
  <2>5. FirstData = Base + m /\ Base \in Nat
    BY <2>1 DEF FirstData, Base
  <2> HIDE DEF f, r, m
  <2> QED BY <2>2, <2>3, <2>4, <2>5
<1>2. c \in 2 .. f - 1 /\ EntryAt(c) = Base + r + c
  BY DEF EntryAt
<1> HIDE DEF f, r, m
<1> QED BY <1>1, <1>2

\* A write leaves the FAT alone.
LEMMA WriteKeepsFat ==
  ASSUME FatInv, NEW r \in AtaRequests, Flat!Write(Address(r), r.length), UNCHANGED volume,
         FlatInv'
  PROVE  FatInv'
<1>1. Address(r) \in Nat /\ FirstData <= Address(r)
  <2>1. Address(r) \in Nat /\ r.sector \in Nat /\ r.offset \in Nat
    BY RequestsAreOnDisk DEF FatInv
  <2>2. r.sector >= FirstDataSector
    BY ChainsAssumption
  <2>3. /\ SectorSize \in Nat /\ PartitionStart \in Nat /\ FirstDataSector \in Nat
    BY FatNumbers
  <2> DEFINE p == PartitionStart + FirstDataSector
             q == PartitionStart + r.sector
  <2>4. p \in Nat /\ q \in Nat /\ p <= q
    BY <2>1, <2>2, <2>3
  <2>5. FirstData = p * SectorSize /\ Address(r) = q * SectorSize + r.offset
    BY DEF FirstData, Address
  <2> HIDE DEF p, q
  <2>6. p * SectorSize \in Nat /\ p * SectorSize <= q * SectorSize /\ q * SectorSize \in Nat
    BY <2>3, <2>4, ProductOrder
  <2> QED BY <2>1, <2>5, <2>6
<1>2. disk' = [x \in DOMAIN disk |-> IF x \in Address(r) .. Address(r) + r.length - 1
                                     THEN Flat!Payload(r.length)[x - Address(r) + 1] ELSE disk[x]]
  BY DEF Flat!Write
<1>3. FirstData' = FirstData
  BY DEF FirstData, FirstDataSector
<1>4. ASSUME NEW x \in DOMAIN disk', x \in Nat, x < FirstData PROVE disk'[x] = volume'.cells[x]
  <2>1. x \in DOMAIN disk
    BY <1>2
  <2>2. x \notin Address(r) .. Address(r) + r.length - 1
    BY <1>1, <1>4, FatNumbers
  <2>3. disk'[x] = disk[x]
    BY <1>2, <2>1, <2>2
  <2> QED BY <1>4, <2>1, <2>3 DEF FatInv
<1> QED BY <1>3, <1>4 DEF FatInv

LEMMA StepKeepsFat ==
  ASSUME FatInv, [FatNext]_fatVars
  PROVE  FatInv'
<1>1. FlatInv /\ FlatInv'
  BY StepIsFlat DEF FatInv
<1>2. ASSUME UNCHANGED <<disk, volume>> PROVE FatInv'
  BY <1>1, <1>2 DEF FatInv, FirstData, FirstDataSector
<1>3. CASE \E offset, n \in 0 .. MaxRead : VfsRead(offset, n)
  BY <1>2, <1>3 DEF VfsRead, ataVars
<1>4. CASE \E index \in 0 .. MaxIndex : VfsReaddir(index)
  BY <1>2, <1>4 DEF VfsReaddir, ataVars
<1>5. CASE \E name \in Names : VfsFinddir(name)
  BY <1>2, <1>5 DEF VfsFinddir, ataVars
<1>6. CASE \E r \in AtaRequests : Raw(r)
  <2>1. PICK r \in AtaRequests : Raw(r)
    BY <1>6
  <2>2. UNCHANGED volume
    BY <2>1 DEF Raw
  <2>3. CASE \/ AtaRead(PartitionStart + r.sector, r.offset, r.length)
             \/ AtaMbrRead(r.sector, r.offset, r.length)
    <3>1. UNCHANGED disk
      BY <1>1, <2>3, ReadsAreFlat
    <3> QED BY <1>2, <2>2, <3>1
  <2>4. CASE AtaWrite(PartitionStart + r.sector, r.offset, r.length)
    <3>1. Flat!Write(Address(r), r.length)
      BY <1>1, <2>4, WritesAreFlat
    <3> QED BY <1>1, <2>2, <3>1, WriteKeepsFat
  <2> QED BY <2>1, <2>3, <2>4 DEF Raw
<1>7. CASE Take
  BY <1>2, <1>7 DEF Take
<1>8. CASE UNCHANGED fatVars
  BY <1>2, <1>8 DEF fatVars, ataVars
<1> QED BY <1>3, <1>4, <1>5, <1>6, <1>7, <1>8 DEF FatNext

\* What the chain is: clusters of the volume, linked in the FAT, to the last.
HasChain(s) ==
  /\ s \in Seq(volume.clusters) /\ Len(s) \in Nat \ {0} /\ s[1] = StartOf(volume)
  /\ \A i \in 1 .. Len(s) : s[i] \in volume.clusters
  /\ \A i \in 1 .. Len(s) - 1 : s[i + 1] = Entry(s[i])
  /\ Entry(s[Len(s)]) \notin volume.clusters
LEMMA ChainIs ==
  ASSUME FatInv
  PROVE  HasChain(Chain)
<1> DEFINE v == volume
           S == v.clusters
<1>1. v \in Disks /\ DOMAIN disk = DOMAIN v.cells
  BY DEF FatInv, FlatInv
<1>2. S \subseteq 2 .. FatSectors * SectorSize - 1
  BY <1>1, ChainsAssumption
<1>3. \A c \in S : Entry(c) = EntryOn(v.cells, c)
  <2> SUFFICES ASSUME NEW c \in S PROVE disk[EntryAt(c)] = v.cells[EntryAt(c)]
    BY DEF Entry, EntryOn
  <2>1. EntryAt(c) \in Nat /\ EntryAt(c) < FirstData
    BY <1>2, EntryIsBeforeData
  <2>2. EntryAt(c) \in DOMAIN disk
    BY <1>1, ChainsAssumption
  <2> QED BY <2>1, <2>2 DEF FatInv
<1>4. Cardinality(S) \in Nat
  <2>1. FatSectors * SectorSize - 1 \in Int
    BY FatNumbers
  <2>2. IsFiniteSet(2 .. FatSectors * SectorSize - 1)
    BY <2>1, FS_Interval
  <2>3. IsFiniteSet(S)
    BY <1>2, <2>2, FS_Subset
  <2> QED BY <2>3, FS_CardinalityType
<1>5. \A s \in Chains(v) : s \in Seq(S) /\ Len(s) \in Nat /\ \A i \in 1 .. Len(s) : s[i] \in S
  <2> SUFFICES ASSUME NEW s \in Chains(v)
               PROVE  s \in Seq(S) /\ Len(s) \in Nat /\ \A i \in 1 .. Len(s) : s[i] \in S
    OBVIOUS
  <2>1. PICK m \in 0 .. Cardinality(S) : s \in [1 .. m -> S]
    BY DEF Chains, SeqOf
  <2>2. m \in Nat
    BY <1>4
  <2> HIDE DEF S
  <2> QED BY <2>1, <2>2
<1>6. PICK s \in Chains(v) : IsChain(v.cells, v, s)
  BY <1>1, ChainsAssumption
<1>7. IsChain(disk, v, s)
  <2>1. s # <<>> /\ s[1] = StartOf(v) /\ Len(s) \in Nat /\ \A i \in 1 .. Len(s) : s[i] \in S
    BY <1>5, <1>6 DEF IsChain
  <2>2. Len(s) # 0
    BY <1>5, <2>1
  <2>3. Len(s) \in 1 .. Len(s) /\ \A i \in 1 .. Len(s) - 1 : i \in 1 .. Len(s)
    BY <2>1, <2>2
  <2> QED BY <1>3, <1>6, <2>1, <2>3 DEF IsChain, Entry
<1>8. Chain \in Chains(v) /\ IsChain(disk, v, Chain)
  BY <1>7 DEF Chain
<1>9. Len(Chain) # 0
  BY <1>5, <1>8 DEF IsChain
<1> QED BY <1>5, <1>8, <1>9 DEF IsChain, Entry, HasChain

\* The clusters of the chain and what follows one of them.
LEMMA ClusterIs ==
  ASSUME FatInv, NEW c \in volume.clusters
  PROVE  /\ c \in Nat /\ c >= 2 /\ c < EndOfChain - 8
         /\ \/ Entry(c) \in volume.clusters \cup {0, 1}
            \/ Entry(c) \in Nat /\ Entry(c) >= EndOfChain - 8
<1>1. volume \in Disks /\ DOMAIN disk = DOMAIN volume.cells
  BY DEF FatInv, FlatInv
<1>2. c \in 2 .. FatSectors * SectorSize - 1
  BY <1>1, ChainsAssumption
<1>3. EntryAt(c) \in Nat /\ EntryAt(c) < FirstData
  BY <1>2, EntryIsBeforeData
<1>4. EntryAt(c) \in DOMAIN disk /\ c < EndOfChain - 8
  BY <1>1, ChainsAssumption
<1>5. Entry(c) = EntryOn(volume.cells, c)
  BY <1>3, <1>4 DEF FatInv, Entry, EntryOn
<1>6. \/ Entry(c) \in volume.clusters \cup {0, 1}
      \/ Entry(c) \in Nat /\ Entry(c) >= EndOfChain - 8
  BY <1>1, <1>5, ChainsAssumption
<1> QED BY <1>2, <1>4, <1>6

\* fat_entry_for finds the entry of a cluster.
LEMMA EntryForIs ==
  ASSUME NEW c \in Nat
  PROVE  EntryFor(c) = Entry(c)
<1> DEFINE q == c \div ClusterSize
           o == c % ClusterSize
           s == PartitionStart + (FirstFatSector + q * SectorsPerCluster)
           a == s * SectorSize + 0
<1>1. /\ SectorSize \in Nat /\ PartitionStart \in Nat /\ SectorsPerCluster \in Nat
      /\ ReservedSectors \in Nat /\ ClusterSize \in Nat \ {0}
      /\ ClusterSize = SectorsPerCluster * SectorSize
  BY FatNumbers
<1>2. q \in Nat /\ o \in 0 .. ClusterSize - 1 /\ c = q * ClusterSize + o
  BY <1>1, QuotientAndRest
<1> HIDE DEF q, o
<1>3. s \in Nat
  BY <1>1, <1>2 DEF FirstFatSector
<1>4. a \in Nat /\ a = Base + ReservedSectors * SectorSize + q * ClusterSize
  BY <1>1, <1>2 DEF Base, FirstFatSector
<1>5. EntryFor(c) = ReadData(disk, s, 0, ClusterSize)[c - q * ClusterSize + 1]
  BY DEF EntryFor, ReadFatCluster, PartitionReadData, q
<1>6. ReadData(disk, s, 0, ClusterSize) = Cells(disk, a, ClusterSize)
  BY <1>1, <1>3, ReadDataIs, 0 \in Nat
<1> HIDE DEF s, a
<1>7. c - q * ClusterSize + 1 = o + 1 /\ o + 1 \in 1 .. ClusterSize /\ q * ClusterSize \in Nat
  <2>1. q * ClusterSize \in Nat
    BY <1>1, <1>2
  <2> DEFINE x == q * ClusterSize
  <2> HIDE DEF x
  <2>2. x \in Nat /\ c = x + o
    BY <1>2, <2>1 DEF x
  <2>3. c - x + 1 = o + 1 /\ o + 1 \in 1 .. ClusterSize
    BY <1>1, <1>2, <2>2
  <2> QED BY <2>1, <2>3 DEF x
<1>8. Cells(disk, a, ClusterSize)[o + 1] = disk[a + (o + 1) - 1]
  BY <1>7 DEF Cells
<1>9. a + (o + 1) - 1 = EntryAt(c)
  <2> DEFINE x == q * ClusterSize
             r == ReservedSectors * SectorSize
  <2>1. x \in Nat /\ r \in Nat /\ o \in Nat /\ Base \in Nat /\ a = Base + r + x /\ c = x + o
    BY <1>1, <1>2, <1>4, <1>7, FatNumbers
  <2>2. EntryAt(c) = Base + r + c
    BY DEF EntryAt
  <2> HIDE DEF x, r
  <2> QED BY <2>1, <2>2
<1> QED BY <1>5, <1>6, <1>7, <1>8, <1>9 DEF Entry, EntryOn

\* fat_read_cluster returns the cells of a cluster.
DataAt(c) == Base + FirstDataSector * SectorSize + (c - 2) * ClusterSize
LEMMA ReadClusterIs ==
  ASSUME NEW c \in Nat, c >= 2
  PROVE  /\ DataAt(c) \in Nat /\ ReadCluster(c) = Cells(disk, DataAt(c), ClusterSize)
         /\ ReadCluster(c) = ClusterCells(c)
<1> DEFINE s == PartitionStart + (FirstDataSector + (c - 2) * SectorsPerCluster)
           a == s * SectorSize + 0
<1>1. /\ SectorSize \in Nat /\ PartitionStart \in Nat /\ SectorsPerCluster \in Nat
      /\ FirstDataSector \in Nat /\ ClusterSize \in Nat
      /\ ClusterSize = SectorsPerCluster * SectorSize /\ c - 2 \in Nat
  BY FatNumbers
<1>2. s \in Nat
  BY <1>1
<1>3. a = DataAt(c) /\ DataAt(c) \in Nat
  BY <1>1 DEF Base, DataAt
<1>4. ReadCluster(c) = ReadData(disk, s, 0, ClusterSize)
  BY DEF ReadCluster, PartitionReadData
<1>5. ReadData(disk, s, 0, ClusterSize) = Cells(disk, a, ClusterSize)
  BY <1>1, <1>2, ReadDataIs, 0 \in Nat
<1>6. Cells(disk, DataAt(c), ClusterSize) = ClusterCells(c)
  BY DEF Cells, ClusterCells, DataAt
<1> QED BY <1>3, <1>4, <1>5, <1>6

\* Blocks of equal length, one after the other: where each of them is.
HasBlocks(f, ss, S, m, n) ==
  /\ f \in Seq(S) /\ Len(f) = n * m
  /\ \A i \in 1 .. n : \A o \in 1 .. m : f[(i - 1) * m + o] = ss[i][o]
IsBlock(b, ss, i, m) == b = ss[i] /\ Len(b) = m
LEMMA BlocksJoin ==
  ASSUME NEW S, NEW m \in Nat, NEW ss, NEW n \in Nat, NEW f, NEW b \in Seq(S),
         HasBlocks(f, ss, S, m, n), IsBlock(b, ss, n + 1, m)
  PROVE  HasBlocks(f \o b, ss, S, m, n + 1)
<1> DEFINE g == f \o b
           a == n * m
<1>1. a \in Nat /\ f \in Seq(S) /\ Len(f) = a /\ (n + 1) * m = a + m
  BY DEF HasBlocks
<1>2. /\ g \in Seq(S) /\ Len(g) = a + m
      /\ \A i \in 1 .. a : g[i] = f[i]
      /\ \A i \in 1 .. m : g[a + i] = b[i]
  <2>1. /\ g \in Seq(S) /\ Len(g) = Len(f) + Len(b)
        /\ \A i \in 1 .. Len(f) : g[i] = f[i]
        /\ \A i \in 1 .. Len(b) : g[Len(f) + i] = b[i]
    <3>1. f \in Seq(S)
      BY <1>1
    <3> QED BY <3>1, ConcatAt
  <2> HIDE DEF g, a
  <2> QED BY <1>1, <2>1 DEF IsBlock
<1> HIDE DEF g
<1>3. ASSUME NEW i \in 1 .. n + 1, NEW o \in 1 .. m PROVE g[(i - 1) * m + o] = ss[i][o]
  <2>1. CASE i = n + 1
    <3>1. (i - 1) * m = a
      BY <2>1
    <3>2. g[a + o] = b[o]
      BY <1>2
    <3> QED BY <2>1, <3>1, <3>2 DEF IsBlock
  <2>2. CASE i # n + 1
    <3> DEFINE x == (i - 1) * m
    <3>1. i \in 1 .. n /\ i - 1 \in Nat /\ i \in Nat /\ i <= n
      BY <2>2
    <3>2. x \in Nat /\ x + m = i * m
      BY <3>1
    <3>3. i * m <= a
      BY <3>1, ProductOrder
    <3>4. f[x + o] = ss[i][o]
      BY <3>1 DEF HasBlocks
    <3> HIDE DEF x, a
    <3>5. x + o \in 1 .. a
      <4> DEFINE y == i * m
      <4>1. y = x + m /\ y <= a
        BY <3>2, <3>3
      <4> HIDE DEF y
      <4> QED BY <1>1, <3>2, <4>1
    <3>6. g[x + o] = f[x + o]
      BY <1>2, <3>5
    <3> QED BY <3>4, <3>6 DEF x
  <2> QED BY <2>1, <2>2
<1> QED BY <1>1, <1>2, <1>3 DEF HasBlocks, g

LEMMA FlattenedBlocks ==
  ASSUME NEW S, NEW m \in Nat, NEW ss, Len(ss) \in Nat, Len(ss) # 0,
         \A i \in 1 .. Len(ss) : ss[i] \in Seq(S) /\ Len(ss[i]) = m
  PROVE  HasBlocks(FlattenSeq(ss), ss, S, m, Len(ss))
<1> DEFINE n == Len(ss)
<1>1. n \in Nat /\ n # 0
  OBVIOUS
<1>2. PICK f : /\ FlattenSeq(ss) = f[n]
               /\ \A i \in 1 .. n : f[i] = IF i = 1 THEN ss[i] ELSE f[i - 1] \o ss[i]
  BY FlattenSeqSteps
<1>3. \A i \in 1 .. n : ss[i] \in Seq(S) /\ Len(ss[i]) = m
  OBVIOUS
<1> HIDE DEF n
<1> DEFINE I == {i \in 1 .. n : ~HasBlocks(f[i], ss, S, m, i)}
<1>4. I = {}
  <2> SUFFICES ASSUME I # {} PROVE FALSE
    OBVIOUS
  <2>1. I \subseteq Nat
    BY <1>1
  <2>2. PICK i \in I : \A j \in I : i <= j
    BY <2>1, LeastElement
  <2>3. i \in 1 .. n /\ i \in Nat /\ ~HasBlocks(f[i], ss, S, m, i)
    BY <1>1
  <2>4. CASE i = 1
    <3>1. f[1] = ss[1] /\ ss[1] \in Seq(S) /\ Len(ss[1]) = m
      BY <1>2, <1>3, <2>3, <2>4
    <3>2. 1 * m = m /\ \A j \in 1 .. 1 : j = 1 /\ \A o \in 1 .. m : (j - 1) * m + o = o
      OBVIOUS
    <3>3. HasBlocks(f[1], ss, S, m, 1)
      BY <3>1, <3>2 DEF HasBlocks
    <3> QED BY <2>3, <2>4, <3>3
  <2>5. CASE i # 1
    <3>1. i - 1 \in 1 .. n /\ ~(i <= i - 1) /\ i - 1 \in Nat /\ (i - 1) + 1 = i
      BY <1>1, <2>3, <2>5
    <3>2. HasBlocks(f[i - 1], ss, S, m, i - 1)
      BY <2>2, <3>1
    <3>3. ss[i] \in Seq(S) /\ IsBlock(ss[i], ss, (i - 1) + 1, m)
      BY <1>3, <2>3, <3>1 DEF IsBlock
    <3>4. f[i] = f[i - 1] \o ss[i]
      BY <1>2, <2>3, <2>5
    <3>5. HasBlocks(f[i - 1] \o ss[i], ss, S, m, (i - 1) + 1)
      BY <3>1, <3>2, <3>3, BlocksJoin
    <3> QED BY <2>3, <3>1, <3>4, <3>5
  <2> QED BY <2>4, <2>5
<1> QED BY <1>1, <1>2, <1>4 DEF n

\* The content of the chain: cluster j has the cells from (j - 1) * ClusterSize on.
LEMMA ContentIs ==
  ASSUME FatInv
  PROVE  /\ Content \in Seq(Values(disk)) /\ Len(Content) = Len(Chain) * ClusterSize
         /\ \A j \in 1 .. Len(Chain) : \A o \in 1 .. ClusterSize :
              Content[(j - 1) * ClusterSize + o] = ReadCluster(Chain[j])[o]
<1> DEFINE L == Len(Chain)
           ss == [i \in DOMAIN Chain |-> ClusterCells(Chain[i])]
           V == Values(disk)
<1>1. L \in Nat \ {0} /\ DOMAIN Chain = 1 .. L /\ \A i \in 1 .. L : Chain[i] \in volume.clusters
  BY ChainIs DEF HasChain
<1>2. ClusterSize \in Nat
  BY FatNumbers
<1>3. ASSUME NEW i \in 1 .. L
      PROVE  ss[i] = ReadCluster(Chain[i]) /\ ss[i] \in Seq(V) /\ Len(ss[i]) = ClusterSize
  <2>1. PICK c : c = Chain[i] /\ c \in volume.clusters
    BY <1>1
  <2>2. c \in Nat /\ c >= 2
    BY <2>1, ClusterIs
  <2>3. ReadCluster(c) = Cells(disk, DataAt(c), ClusterSize) /\ DataAt(c) \in Nat
        /\ ReadCluster(c) = ClusterCells(c)
    BY <2>2, ReadClusterIs
  <2>4. Cells(disk, DataAt(c), ClusterSize) \in Seq(V) /\ Len(Cells(disk, DataAt(c), ClusterSize)) = ClusterSize
    BY <1>2, <2>3, CellsAre
  <2>5. ss[i] = ClusterCells(c)
    BY <1>1, <2>1
  <2> HIDE DEF ss, V
  <2> QED BY <2>1, <2>3, <2>4, <2>5
<1>4. Len(ss) = L
  BY <1>1
<1>5. Content = FlattenSeq(ss)
  BY DEF Content
<1> HIDE DEF ss, V, L
<1>6. HasBlocks(FlattenSeq(ss), ss, V, ClusterSize, L)
  <2>1. Len(ss) \in Nat /\ Len(ss) # 0
    BY <1>1, <1>4
  <2>2. \A i \in 1 .. Len(ss) : ss[i] \in Seq(V) /\ Len(ss[i]) = ClusterSize
    BY <1>3, <1>4
  <2>3. HasBlocks(FlattenSeq(ss), ss, V, ClusterSize, Len(ss))
    BY <1>2, <2>1, <2>2, FlattenedBlocks
  <2> QED BY <1>4, <2>3
<1>7. \A j \in 1 .. L : \A o \in 1 .. ClusterSize :
        Content[(j - 1) * ClusterSize + o] = ReadCluster(Chain[j])[o]
  BY <1>3, <1>5, <1>6 DEF HasBlocks
<1> QED BY <1>5, <1>6, <1>7 DEF HasBlocks, V, L

\* A part of a sequence.
LEMMA SubSeqIs ==
  ASSUME NEW S, NEW s \in Seq(S), NEW p \in Nat, NEW q \in Nat, p + q <= Len(s)
  PROVE  /\ SubSeq(s, p + 1, p + q) \in Seq(S) /\ Len(SubSeq(s, p + 1, p + q)) = q
         /\ \A i \in 1 .. q : SubSeq(s, p + 1, p + q)[i] = s[p + i]
OBVIOUS

\* A part of a cluster is a part of the content.
IsAt(p, j, o) == p = (j - 1) * ClusterSize + o
PartAt(p, j, o, k) ==
  /\ p + k <= Len(Content)
  /\ SubSeq(ReadCluster(Chain[j]), o + 1, o + k) = SubSeq(Content, p + 1, p + k)
LEMMA PartIsContent ==
  ASSUME FatInv, NEW j \in 1 .. Len(Chain), NEW o \in Nat, NEW k \in Nat, o + k <= ClusterSize,
         NEW p, IsAt(p, j, o)
  PROVE  PartAt(p, j, o, k)
<1> DEFINE L == Len(Chain)
           V == Values(disk)
           x == (j - 1) * ClusterSize
<1>1. /\ L \in Nat \ {0} /\ Chain[j] \in volume.clusters /\ ClusterSize \in Nat /\ j \in Nat /\ j <= L
  BY ChainIs, FatNumbers DEF HasChain
<1>2. PICK c : c = ReadCluster(Chain[j])
  OBVIOUS
<1>3. c \in Seq(V) /\ Len(c) = ClusterSize
  <2>1. PICK d : d = Chain[j] /\ d \in Nat /\ d >= 2
    BY <1>1, ClusterIs
  <2>2. c = Cells(disk, DataAt(d), ClusterSize) /\ DataAt(d) \in Nat
    BY <1>2, <2>1, ReadClusterIs
  <2> QED BY <1>1, <2>2, CellsAre
<1>4. /\ Content \in Seq(V) /\ Len(Content) = L * ClusterSize
      /\ \A i \in 1 .. ClusterSize : Content[x + i] = c[i]
  BY <1>2, ContentIs
<1>5. x \in Nat /\ x + ClusterSize <= L * ClusterSize /\ p = x + o
  <2>1. j - 1 \in Nat /\ x \in Nat /\ x + ClusterSize = j * ClusterSize
    BY <1>1
  <2>2. j * ClusterSize <= L * ClusterSize
    BY <1>1, ProductOrder
  <2> QED BY <2>1, <2>2 DEF IsAt
<1> DEFINE n == L * ClusterSize
<1>6. n \in Nat /\ Len(Content) = n /\ x + ClusterSize <= n
  BY <1>1, <1>4, <1>5
<1> HIDE DEF x, n, V, L
<1>7. p \in Nat /\ p + k <= n
  BY <1>1, <1>5, <1>6
<1> DEFINE u == SubSeq(c, o + 1, o + k)
           w == SubSeq(Content, p + 1, p + k)
<1>8. u \in Seq(V) /\ Len(u) = k /\ \A i \in 1 .. k : u[i] = c[o + i]
  BY <1>3
<1>9. w \in Seq(V) /\ Len(w) = k /\ \A i \in 1 .. k : w[i] = Content[p + i]
  <2>1. Content \in Seq(V) /\ p + k <= Len(Content)
    BY <1>4, <1>6, <1>7
  <2> QED BY <1>7, <2>1, SubSeqIs
<1> HIDE DEF u, w
<1>10. ASSUME NEW i \in 1 .. k PROVE u[i] = w[i]
  <2> DEFINE h == o + i
  <2>0. h \in 1 .. ClusterSize
    BY <1>1
  <2>1. h \in 1 .. ClusterSize /\ p + i = x + h
    <3>1. p = x + o /\ x \in Nat
      BY <1>5
    <3> QED BY <2>0, <3>1
  <2>2. Content[x + h] = c[h]
    BY <1>4, <2>1
  <2> QED BY <1>8, <1>9, <2>1, <2>2
<1>11. u = w
  BY <1>8, <1>9, <1>10, SameSequence
<1> QED BY <1>2, <1>6, <1>7, <1>11 DEF u, w, PartAt

\* The step to the cluster after cluster j: on the way it is the next of the chain,
\* at the end a return or a panic.
LEMMA FollowIs ==
  ASSUME FatInv, NEW j \in 1 .. Len(Chain), NEW o, NEW n, NEW copied
  PROVE  Follow(Chain[j], o, n, copied) =
           IF j # Len(Chain) THEN Reading(Chain[j + 1], o, n, copied)
           ELSE IF Whole THEN Returns(copied) ELSE Panics
<1>1. PICK c : c = Chain[j]
  OBVIOUS
<1>2. /\ c \in volume.clusters /\ Len(Chain) \in Nat /\ EndOfChain \in Nat /\ EndOfChain >= 16
      /\ j # Len(Chain) => Entry(c) = Chain[j + 1] /\ Chain[j + 1] \in volume.clusters
      /\ j = Len(Chain) => Entry(c) \notin volume.clusters
  <2>1. EndOfChain \in Nat /\ EndOfChain >= 16
    BY FatNumbers
  <2>2. HasChain(Chain)
    BY ChainIs
  <2>3. Len(Chain) \in Nat /\ (j # Len(Chain) => j \in 1 .. Len(Chain) - 1 /\ j + 1 \in 1 .. Len(Chain))
    BY <2>2 DEF HasChain
  <2> QED BY <1>1, <2>1, <2>2, <2>3 DEF HasChain
<1>3. c \in Nat /\ EntryFor(c) = Entry(c)
  BY <1>2, ClusterIs, EntryForIs
<1>4. \A d \in volume.clusters : d \in Nat /\ d >= 2 /\ d < EndOfChain - 8
  BY ClusterIs
<1>5. CASE j # Len(Chain)
  <2>1. Entry(c) \in Nat /\ Entry(c) >= 2 /\ Entry(c) < EndOfChain - 8
    BY <1>2, <1>4, <1>5
  <2>2. ~LeadsAstray(c) /\ ~IsLast(c)
    BY <1>2, <1>3, <2>1 DEF LeadsAstray, IsLast
  <2>3. EntryFor(c) = Chain[j + 1]
    BY <1>2, <1>3, <1>5
  <2> QED BY <1>1, <1>5, <2>2, <2>3 DEF Follow
<1>6. CASE j = Len(Chain)
  <2>1. Whole <=> Entry(c) >= EndOfChain
    BY <1>1, <1>6 DEF Whole
  <2>2. \/ Entry(c) \in {0, 1}
        \/ Entry(c) \in Nat /\ Entry(c) >= EndOfChain - 8
    BY <1>2, <1>6, ClusterIs
  <2>3. LeadsAstray(c) <=> ~Whole
    BY <1>2, <1>3, <2>1, <2>2 DEF LeadsAstray
  <2>4. IsLast(c) <=> Whole
    BY <1>3, <2>1 DEF IsLast
  <2> QED BY <1>1, <1>6, <2>3, <2>4 DEF Follow
<1> QED BY <1>5, <1>6

\* Where the read of n cells from offset is, at cluster j: it has copied what comes
\* before, and while it skips clusters that is nothing.
OnTheWay(r, offset, n, j) ==
  /\ ~r.over /\ j \in 1 .. Len(Chain) /\ r.cluster = Chain[j]
  /\ r.offset \in Nat /\ r.left \in 0 .. n
  /\ IsAt(offset + (n - r.left), j, r.offset)
  /\ Skips(r.offset) => r.left = n
  /\ r.data = SubSeq(Content, offset + 1, offset + (n - r.left))

\* The end of the read: what ReadIsRight says.
Arrived(r, offset, n) ==
  /\ r.over
  /\ r.panic = (~Whole /\ offset + n > Len(Content))
  /\ ~r.panic => r.data = SubSeq(Content, offset + 1, Min({offset + n, Len(Content)}))

\* It gets on: the offset and what is left do not stay.
GetsOn(r, r2, offset, n) ==
  \/ Arrived(r2, offset, n)
  \/ \E j \in 1 .. Len(Chain) :
       OnTheWay(r2, offset, n, j) /\ r2.offset + r2.left < r.offset + r.left

\* The end of the chain.
LEMMA EndIsRight ==
  ASSUME FatInv, NEW offset \in Nat, NEW n \in Nat, NEW copied,
         copied = SubSeq(Content, offset + 1, Len(Content)), offset + n > Len(Content)
  PROVE  Arrived(IF Whole THEN Returns(copied) ELSE Panics, offset, n)
<1>1. Len(Content) \in Nat
  BY ContentIs
<1>2. Min({offset + n, Len(Content)}) = Len(Content)
  BY <1>1, MinOfTwo, offset + n \in Nat
<1> QED BY <1>2 DEF Arrived, Returns, Panics

\* An iteration that skips a cluster.
LEMMA SkipGetsOn ==
  ASSUME FatInv, NEW offset \in Nat, NEW n \in Nat, NEW r, NEW j, OnTheWay(r, offset, n, j),
         Skips(r.offset)
  PROVE  GetsOn(r, Iteration(r), offset, n)
<1> DEFINE L == Len(Chain)
           o == r.offset
           r2 == Follow(Chain[j], o - ClusterSize, n, r.data)
<1>1. /\ j \in 1 .. L /\ j \in Nat /\ L \in Nat \ {0} /\ ClusterSize \in Nat \ {0} /\ o \in Nat
      /\ o > ClusterSize /\ r.left = n /\ offset + (n - n) = offset /\ ~r.over
      /\ r.cluster = Chain[j]
  BY ChainIs, FatNumbers DEF OnTheWay, Skips, HasChain
<1>2. Iteration(r) = r2
  BY <1>1 DEF Iteration, Skips
<1>3. offset = (j - 1) * ClusterSize + o /\ r.data = SubSeq(Content, offset + 1, offset)
  BY <1>1 DEF OnTheWay, IsAt
<1>4. r2 = IF j # L THEN Reading(Chain[j + 1], o - ClusterSize, n, r.data)
           ELSE IF Whole THEN Returns(r.data) ELSE Panics
  BY <1>1, FollowIs
<1> HIDE DEF r2
<1>5. CASE j # L
  <2>1. r2 = Reading(Chain[j + 1], o - ClusterSize, n, r.data)
    BY <1>4, <1>5
  <2>2. /\ ~r2.over /\ r2.cluster = Chain[j + 1] /\ r2.offset = o - ClusterSize /\ r2.left = n
        /\ r2.data = r.data
    BY <2>1 DEF Reading
  <2>3. j + 1 \in 1 .. L /\ o - ClusterSize \in Nat /\ n \in 0 .. n
    BY <1>1, <1>5
  <2>4. offset = (j + 1 - 1) * ClusterSize + (o - ClusterSize)
    BY <1>1, <1>3
  <2>5. OnTheWay(r2, offset, n, j + 1)
    <3>1. IsAt(offset + (n - r2.left), j + 1, r2.offset)
      BY <1>1, <2>2, <2>4 DEF IsAt
    <3>2. r2.data = SubSeq(Content, offset + 1, offset + (n - r2.left))
      BY <1>1, <1>3, <2>2
    <3> QED BY <2>2, <2>3, <3>1, <3>2 DEF OnTheWay
  <2>6. r2.offset + r2.left < r.offset + r.left
    BY <1>1, <2>2
  <2> QED BY <1>2, <2>3, <2>5, <2>6 DEF GetsOn
<1>6. CASE j = L
  <2>1. Len(Content) = L * ClusterSize /\ Len(Content) \in Nat
    BY <1>1, ContentIs
  <2>2. offset > Len(Content)
    BY <1>1, <1>3, <1>6, <2>1
  <2>3. r.data = SubSeq(Content, offset + 1, Len(Content)) /\ offset + n > Len(Content)
    <3>1. SubSeq(Content, offset + 1, offset) = <<>>
      OBVIOUS
    <3>2. SubSeq(Content, offset + 1, Len(Content)) = <<>>
      BY <2>1, <2>2
    <3> QED BY <1>3, <2>1, <2>2, <3>1, <3>2
  <2>4. Arrived(r2, offset, n)
    BY <1>4, <1>6, <2>3, EndIsRight
  <2> QED BY <1>2, <2>4 DEF GetsOn
<1> QED BY <1>5, <1>6

\* The length that is copied in an iteration, what is left or the rest of the cluster.
LEMMA CopyLengthIs ==
  ASSUME FatInv, NEW m \in Nat, NEW rest \in Nat, rest <= ClusterSize
  PROVE  CopyLength(m, rest) = IF m <= rest THEN m ELSE rest
<1>1. ClusterSize \in Nat /\ CopyRange \in Nat /\ ClusterSize < CopyRange
  BY FatNumbers
<1>2. PICK k : k = Min({m, rest})
  OBVIOUS
<1>3. k = IF m <= rest THEN m ELSE rest
  BY <1>2, MinOfTwo
<1>4. CopyRange \in Nat \ {0} /\ k \in 0 .. CopyRange - 1 /\ 0 \in Nat
  BY <1>1, <1>3
<1>5. (0 * CopyRange + k) % CopyRange = k /\ 0 * CopyRange + k = k
  <2>1. (0 * CopyRange + k) % CopyRange = k
    BY <1>4, QuotientIs
  <2> QED BY <1>4, <2>1
<1> QED BY <1>2, <1>3, <1>5 DEF CopyLength

\* A return with all that was asked for.
LEMMA ReturnIsRight ==
  ASSUME FatInv, NEW offset \in Nat, NEW n \in Nat, NEW copied, NEW q, q = offset + n,
         copied = SubSeq(Content, offset + 1, q), q <= Len(Content)
  PROVE  Arrived(Returns(copied), offset, n)
<1>1. Len(Content) \in Nat /\ q \in Nat
  BY ContentIs
<1>2. Min({q, Len(Content)}) = q
  BY <1>1, MinOfTwo
<1>3. ~(q > Len(Content))
  BY <1>1
<1>4. Returns(copied).over /\ Returns(copied).panic = FALSE /\ Returns(copied).data = copied
  BY DEF Returns
<1>5. (~Whole /\ q > Len(Content)) = FALSE
  BY <1>3
<1> QED BY <1>2, <1>4, <1>5 DEF Arrived

\* An iteration that does not skip: it copies what it needs of the cluster.
LEMMA CopyGetsOn ==
  ASSUME FatInv, NEW offset \in Nat, NEW n \in Nat, NEW r, NEW j, OnTheWay(r, offset, n, j),
         ~Skips(r.offset)
  PROVE  GetsOn(r, Iteration(r), offset, n)
<1> DEFINE L == Len(Chain)
           V == Values(disk)
           o == r.offset
           left == r.left
           done == n - left
           p == offset + done
           k == CopyLength(left, ClusterSize - o)
           part == SubSeq(ReadCluster(Chain[j]), o + 1, o + k)
           copied == r.data \o part
<1>1. /\ j \in 1 .. L /\ j \in Nat /\ L \in Nat \ {0} /\ ClusterSize \in Nat \ {0} /\ o \in Nat
      /\ o <= ClusterSize /\ left \in 0 .. n /\ left \in Nat /\ ~r.over /\ r.cluster = Chain[j]
  BY ChainIs, FatNumbers DEF OnTheWay, Skips, HasChain
<1>2. IsAt(p, j, o) /\ r.data = SubSeq(Content, offset + 1, p)
  BY DEF OnTheWay
<1>3. k = IF left <= ClusterSize - o THEN left ELSE ClusterSize - o
  BY <1>1, CopyLengthIs, ClusterSize - o \in Nat, ClusterSize - o <= ClusterSize
<1>4. Iteration(r) = IF left = 0 THEN Returns(r.data)
                     ELSE IF left = k THEN Returns(copied)
                     ELSE Follow(Chain[j], 0, left - k, copied)
  BY <1>1 DEF Iteration, After
<1>5. done \in Nat /\ p \in Nat /\ p = offset + done /\ n = done + left
  BY <1>1
<1>6. k \in Nat /\ o + k <= ClusterSize /\ k <= left
  BY <1>1, <1>3
<1>7. Content \in Seq(V) /\ Len(Content) = L * ClusterSize /\ Len(Content) \in Nat
  <2>1. Content \in Seq(V) /\ Len(Content) = L * ClusterSize
    BY ContentIs
  <2> QED BY <1>1, <2>1
<1>13. r.left = left /\ r.offset = o
  OBVIOUS
<1> HIDE DEF k, V, p, done, left, o, L
<1>8. p + k <= Len(Content) /\ part = SubSeq(Content, p + 1, p + k)
  <2>1. j \in 1 .. Len(Chain) /\ o \in Nat
    BY <1>1 DEF L
  <2>2. IsAt(p, j, o)
    BY <1>2
  <2>3. k \in Nat /\ o + k <= ClusterSize
    BY <1>6
  <2>4. PartAt(p, j, o, k)
    BY <2>1, <2>2, <2>3, PartIsContent
  <2> QED BY <2>4 DEF PartAt
<1>9. copied = SubSeq(Content, offset + 1, p + k)
  <2>1. SubSeq(Content, offset + 1, offset + done)
          \o SubSeq(Content, offset + done + 1, offset + done + k)
        = SubSeq(Content, offset + 1, offset + done + k)
    <3>1. offset + done + k <= Len(Content)
      BY <1>5, <1>8
    <3> QED BY <1>5, <1>6, <1>7, <3>1, SubSeqJoin
  <2> QED BY <1>2, <1>5, <1>8, <2>1 DEF copied
<1> HIDE DEF copied, part
<1>10. CASE left = 0
  <2>1. p = offset + n /\ p <= Len(Content)
    BY <1>5, <1>6, <1>7, <1>8, <1>10
  <2>2. Iteration(r) = Returns(r.data)
    BY <1>4, <1>10
  <2>3. Arrived(Returns(r.data), offset, n)
    BY <1>2, <2>1, ReturnIsRight
  <2> QED BY <2>2, <2>3 DEF GetsOn
<1>11. CASE left # 0 /\ left = k
  <2>1. p + k = offset + n
    BY <1>5, <1>6, <1>11
  <2>2. Iteration(r) = Returns(copied)
    BY <1>4, <1>11
  <2>3. Arrived(Returns(copied), offset, n)
    BY <1>8, <1>9, <2>1, ReturnIsRight
  <2> QED BY <2>2, <2>3 DEF GetsOn
<1>12. CASE left # 0 /\ left # k
  <2> DEFINE r2 == Follow(Chain[j], 0, left - k, copied)
  <2>1. Iteration(r) = r2
    BY <1>4, <1>12
  <2>2. k = ClusterSize - o /\ left - k \in Nat \ {0} /\ left - k \in 0 .. n
    BY <1>1, <1>3, <1>12
  <2>3. p + k = j * ClusterSize
    <3>1. p = (j - 1) * ClusterSize + o
      BY <1>2 DEF IsAt
    <3>2. (j - 1) * ClusterSize + ClusterSize = j * ClusterSize /\ (j - 1) * ClusterSize \in Nat
      BY <1>1
    <3> DEFINE x == (j - 1) * ClusterSize
               y == j * ClusterSize
    <3> HIDE DEF x, y
    <3>3. p = x + o /\ x + ClusterSize = y /\ x \in Nat
      BY <3>1, <3>2 DEF x, y
    <3>4. p + k = y
      BY <1>1, <2>2, <3>3
    <3> QED BY <3>4 DEF y
  <2>4. r2 = IF j # L THEN Reading(Chain[j + 1], 0, left - k, copied)
             ELSE IF Whole THEN Returns(copied) ELSE Panics
    BY <1>1, FollowIs DEF L
  <2> HIDE DEF r2
  <2>5. CASE j # L
    <3>1. /\ ~r2.over /\ r2.cluster = Chain[j + 1] /\ r2.offset = 0 /\ r2.left = left - k
          /\ r2.data = copied
      BY <2>4, <2>5 DEF Reading
    <3>2. j + 1 \in 1 .. L /\ 0 \in Nat /\ ~Skips(0)
      BY <1>1, <2>5 DEF Skips
    <3>3. offset + (n - r2.left) = p + k
      BY <1>1, <1>5, <1>6, <3>1
    <3>4. IsAt(p + k, j + 1, 0)
      <4>1. (j + 1) - 1 = j
        BY <1>1
      <4>2. p + k = ((j + 1) - 1) * ClusterSize
        BY <2>3, <4>1
      <4>3. PICK y : y = ((j + 1) - 1) * ClusterSize
        OBVIOUS
      <4>4. p + k = y + 0
        BY <1>5, <1>6, <4>2, <4>3
      <4>5. p + k = ((j + 1) - 1) * ClusterSize + 0
        BY <4>3, <4>4
      <4> QED BY <4>5 DEF IsAt
    <3>5. OnTheWay(r2, offset, n, j + 1)
      BY <1>9, <2>2, <3>1, <3>2, <3>3, <3>4 DEF OnTheWay, L
    <3>6. r2.offset + r2.left < r.offset + r.left
      <4>1. 0 + (left - k) < o + left
        BY <1>1, <1>6, <2>2
      <4> QED BY <1>13, <3>1, <4>1
    <3> QED BY <2>1, <3>2, <3>5, <3>6 DEF GetsOn, L
  <2>6. CASE j = L
    <3>1. p + k = Len(Content)
      BY <1>7, <2>3, <2>6
    <3>2. offset + n > Len(Content)
      BY <1>1, <1>5, <1>6, <2>2, <3>1
    <3>3. copied = SubSeq(Content, offset + 1, Len(Content))
      BY <1>9, <3>1
    <3>4. Arrived(r2, offset, n)
      BY <2>4, <2>6, <3>2, <3>3, EndIsRight
    <3> QED BY <2>1, <3>4 DEF GetsOn
  <2> QED BY <2>5, <2>6
<1> QED BY <1>10, <1>11, <1>12

\* The recursion of fat_read_data has a solution, and fat_read_data follows it.
IsLastStep(last, offset, n) == last = offset + n + 1
ReadsBy(f, inode, offset, n, last) ==
  /\ FatReadData(inode, offset, n) = [panic |-> f[last].panic, data |-> f[last].data]
  /\ f[0] = Reading(inode, offset, n, <<>>)
  /\ \A i \in 1 .. last : f[i] = Iteration(f[i - 1])
LEMMA FatReadSteps ==
  ASSUME NEW inode, NEW offset \in Nat, NEW n \in Nat, NEW last \in Nat,
         IsLastStep(last, offset, n)
  PROVE  \E f : ReadsBy(f, inode, offset, n, last)
<1> DEFINE start == Reading(inode, offset, n, <<>>)
           Solved(m) == \E f : f = [i \in 0 .. m |-> IF i = 0 THEN start ELSE Iteration(f[i - 1])]
           I == {m \in Nat : ~Solved(m)}
<1> HIDE DEF Solved, start
<1>0. I \subseteq Nat /\ \A m \in Nat : m \in I <=> ~Solved(m)
  OBVIOUS
<1> HIDE DEF I
<1>1. \A m \in Nat : Solved(m)
  <2> SUFFICES ASSUME I # {} PROVE FALSE
    BY <1>0
  <2>1. PICK m \in I : \A j \in I : m <= j
    BY <1>0, LeastElement
  <2>2. m \in Nat /\ ~Solved(m)
    BY <1>0
  <2>3. CASE m = 0
    <3> DEFINE f == [i \in 0 .. 0 |-> start]
    <3>1. f = [i \in 0 .. 0 |-> IF i = 0 THEN start ELSE Iteration(f[i - 1])]
      OBVIOUS
    <3> QED BY <2>2, <2>3, <3>1 DEF Solved
  <2>4. CASE m # 0
    <3>1. m - 1 \in Nat /\ ~(m <= m - 1)
      BY <2>2, <2>4
    <3>2. Solved(m - 1)
      BY <1>0, <2>1, <3>1
    <3>3. PICK g : g = [i \in 0 .. m - 1 |-> IF i = 0 THEN start ELSE Iteration(g[i - 1])]
      BY <3>2 DEF Solved
    <3>4. \A i \in 0 .. m - 1 : g[i] = IF i = 0 THEN start ELSE Iteration(g[i - 1])
      BY <3>3
    <3> DEFINE e == Iteration(g[m - 1])
               f == [i \in 0 .. m |-> IF i = m THEN e ELSE g[i]]
               h == [i \in 0 .. m |-> IF i = 0 THEN start ELSE Iteration(f[i - 1])]
    <3>5. ASSUME NEW i \in 0 .. m PROVE f[i] = IF i = 0 THEN start ELSE Iteration(f[i - 1])
      <4>1. CASE i = 0
        <5>1. f[0] = g[0] /\ 0 \in 0 .. m - 1
          BY <2>2, <2>4
        <5> QED BY <3>4, <4>1, <5>1
      <4>2. CASE i # 0
        <5>1. i - 1 \in 0 .. m /\ i - 1 # m /\ f[i - 1] = g[i - 1]
          BY <2>2, <4>2
        <5>2. CASE i = m
          BY <4>2, <5>1, <5>2
        <5>3. CASE i # m
          <6>1. i \in 0 .. m - 1 /\ f[i] = g[i]
            BY <2>2, <5>3
          <6> QED BY <3>4, <4>2, <5>1, <6>1
        <5> QED BY <5>2, <5>3
      <4> QED BY <4>1, <4>2
    <3>6. f = h
      BY <3>5
    <3> HIDE DEF f
    <3>7. Solved(m)
      BY <3>6 DEF Solved
    <3> QED BY <2>2, <3>7
  <2> QED BY <2>3, <2>4
<1> DEFINE F == CHOOSE f : f = [i \in 0 .. last |-> IF i = 0 THEN start ELSE Iteration(f[i - 1])]
<1>2. FatReadData(inode, offset, n) = [panic |-> F[last].panic, data |-> F[last].data]
  BY DEF FatReadData, start, IsLastStep
<1>3. Solved(last)
  BY <1>1
<1>4. F = [i \in 0 .. last |-> IF i = 0 THEN start ELSE Iteration(F[i - 1])]
  BY <1>3, Zenon DEF Solved
<1> HIDE DEF F
<1>5. \A i \in 0 .. last : F[i] = IF i = 0 THEN start ELSE Iteration(F[i - 1])
  BY <1>4
<1>6. F[0] = start /\ \A i \in 1 .. last : F[i] = Iteration(F[i - 1])
  BY <1>5
<1> QED BY <1>2, <1>6 DEF start, ReadsBy

\* Where the read is after i iterations.
IsAfter(r, offset, n, i) ==
  \/ Arrived(r, offset, n)
  \/ \E j \in 1 .. Len(Chain) : OnTheWay(r, offset, n, j) /\ r.offset + r.left + i <= offset + n

\* An iteration more.
LEMMA IterationGetsOn ==
  ASSUME FatInv, NEW offset \in Nat, NEW n \in Nat, NEW r, NEW i \in Nat,
         IsAfter(r, offset, n, i)
  PROVE  IsAfter(Iteration(r), offset, n, i + 1)
<1>1. CASE Arrived(r, offset, n)
  <2>1. Iteration(r) = r
    BY <1>1 DEF Arrived, Iteration
  <2> QED BY <1>1, <2>1 DEF IsAfter
<1>2. ASSUME NEW j \in 1 .. Len(Chain), OnTheWay(r, offset, n, j),
             r.offset + r.left + i <= offset + n
      PROVE  IsAfter(Iteration(r), offset, n, i + 1)
  <2>1. GetsOn(r, Iteration(r), offset, n)
    BY <1>2, SkipGetsOn, CopyGetsOn
  <2>2. CASE Arrived(Iteration(r), offset, n)
    BY <2>2 DEF IsAfter
  <2>3. ASSUME NEW k \in 1 .. Len(Chain), OnTheWay(Iteration(r), offset, n, k),
               Iteration(r).offset + Iteration(r).left < r.offset + r.left
        PROVE  IsAfter(Iteration(r), offset, n, i + 1)
    <3>1. PICK a, b, c, d : /\ a = Iteration(r).offset /\ b = Iteration(r).left
                            /\ c = r.offset /\ d = r.left
      OBVIOUS
    <3>2. a \in Nat /\ b \in 0 .. n /\ c \in Nat /\ d \in 0 .. n
      BY <1>2, <2>3, <3>1 DEF OnTheWay
    <3>3. a + b < c + d /\ c + d + i <= offset + n
      BY <1>2, <2>3, <3>1
    <3>4. a + b + (i + 1) <= offset + n
      BY <3>2, <3>3
    <3> QED BY <2>3, <3>1, <3>4 DEF IsAfter
  <2> QED BY <2>1, <2>2, <2>3 DEF GetsOn
<1> QED BY <1>1, <1>2 DEF IsAfter

\* The start: at the first cluster of a file.
LEMMA ReadStarts ==
  ASSUME FatInv, NEW offset \in Nat, NEW n \in Nat, volume.kind = "file"
  PROVE  IsAfter(Reading(volume.inode, offset, n, <<>>), offset, n, 0)
<1> DEFINE r == Reading(volume.inode, offset, n, <<>>)
<1>1. volume \in Disks
  BY DEF FatInv, FlatInv
<1>2. volume.inode # 0
  BY <1>1, ChainsAssumption
<1>3. Chain[1] = volume.inode /\ 1 \in 1 .. Len(Chain)
  <2>1. Len(Chain) \in Nat \ {0} /\ Chain[1] = StartOf(volume)
    BY ChainIs DEF HasChain
  <2> QED BY <1>2, <2>1 DEF StartOf
<1>4. /\ ~r.over /\ r.cluster = volume.inode /\ r.offset = offset /\ r.left = n
      /\ r.data = <<>>
  BY DEF Reading
<1> HIDE DEF r
<1>5. n - r.left = 0 /\ offset + (n - r.left) = offset /\ r.left \in 0 .. n
  BY <1>4
<1>6. IsAt(offset, 1, offset)
  BY FatNumbers DEF IsAt
<1>7. r.data = SubSeq(Content, offset + 1, offset)
  <2>1. SubSeq(Content, offset + 1, offset) = <<>>
    OBVIOUS
  <2> QED BY <1>4, <2>1
<1>8. OnTheWay(r, offset, n, 1)
  BY <1>3, <1>4, <1>5, <1>6, <1>7 DEF OnTheWay
<1>9. r.offset + r.left + 0 <= offset + n
  BY <1>4
<1> QED BY <1>3, <1>8, <1>9 DEF IsAfter, r

\* A read arrives.
LEMMA ReadArrives ==
  ASSUME FatInv, NEW offset \in Nat, NEW n \in Nat, volume.kind = "file"
  PROVE  \E r : /\ FatReadData(volume.inode, offset, n) = [panic |-> r.panic, data |-> r.data]
                /\ Arrived(r, offset, n)
<1>0. PICK last : last = offset + n + 1
  OBVIOUS
<1>1. last \in Nat /\ IsLastStep(last, offset, n)
  BY <1>0 DEF IsLastStep
<1>2. PICK f : ReadsBy(f, volume.inode, offset, n, last)
  BY <1>1, FatReadSteps
<1>6. /\ FatReadData(volume.inode, offset, n) = [panic |-> f[last].panic, data |-> f[last].data]
      /\ f[0] = Reading(volume.inode, offset, n, <<>>)
      /\ \A i \in 1 .. last : f[i] = Iteration(f[i - 1])
  BY <1>2 DEF ReadsBy
<1> DEFINE I == {i \in 0 .. last : ~IsAfter(f[i], offset, n, i)}
<1>3. I = {}
  <2> SUFFICES ASSUME I # {} PROVE FALSE
    OBVIOUS
  <2>1. I \subseteq Nat
    BY <1>1
  <2>2. PICK i \in I : \A j \in I : i <= j
    BY <2>1, LeastElement
  <2>3. i \in 0 .. last /\ ~IsAfter(f[i], offset, n, i)
    OBVIOUS
  <2>4. CASE i = 0
    BY <1>6, <2>3, <2>4, ReadStarts
  <2>5. CASE i # 0
    <3>1. i - 1 \in 0 .. last /\ ~(i <= i - 1) /\ i \in 1 .. last /\ (i - 1) + 1 = i /\ i - 1 \in Nat
      BY <1>1, <2>3, <2>5
    <3>2. IsAfter(f[i - 1], offset, n, i - 1)
      BY <2>2, <3>1
    <3>3. IsAfter(Iteration(f[i - 1]), offset, n, (i - 1) + 1)
      BY <3>1, <3>2, IterationGetsOn
    <3> QED BY <1>6, <2>3, <3>1, <3>3
  <2> QED BY <2>4, <2>5
<1>4. IsAfter(f[last], offset, n, last)
  BY <1>1, <1>3
<1>5. Arrived(f[last], offset, n)
  <2> SUFFICES ASSUME NEW r, r = f[last], NEW j, OnTheWay(r, offset, n, j),
                      r.offset + r.left + last <= offset + n
               PROVE  FALSE
    BY <1>4 DEF IsAfter
  <2>1. PICK a, b : a = r.offset /\ b = r.left
    OBVIOUS
  <2>2. a \in Nat /\ b \in 0 .. n
    BY <2>1 DEF OnTheWay
  <2>3. a + b + last <= offset + n
    BY <2>1
  <2> QED BY <1>0, <2>2, <2>3
<1> QED BY <1>5, <1>6

\* The answer to a read is what the chain holds.
LEMMA AnswerIsRight ==
  ASSUME FatInv, NEW offset \in Nat, NEW n \in Nat, volume.kind = "file",
         NEW a, a.offset = offset, a.length = n,
         a.result = FatReadData(volume.inode, offset, n)
  PROVE  ReadIsRight(a)
<1>1. PICK r : /\ FatReadData(volume.inode, offset, n) = [panic |-> r.panic, data |-> r.data]
               /\ Arrived(r, offset, n)
  BY ReadArrives
<1>2. a.result.panic = r.panic /\ a.result.data = r.data
  BY <1>1
<1> QED BY <1>1, <1>2 DEF Arrived, ReadIsRight

\* fat: on a disk whose FAT links the clusters of a file, every read, from whatever
\* offset and for however many cells, returns what the chain holds there, while
\* requests from outside write over the data.
THEOREM ReadsReturnChains == FatSpec => ReadsAreRight
<1>1. FatInit => FatInv
  <2> SUFFICES ASSUME FatInit PROVE FatInv
    OBVIOUS
  <2>1. volume \in Disks /\ disk = volume.cells
    BY DEF FatInit
  <2>2. volume.cells \in [DOMAIN volume.cells -> Range(volume.cells)]
    BY <2>1, RequestsAssumption
  <2>3. FlatInv
    BY <2>1, <2>2 DEF FlatInv, IsRow
  <2> QED BY <2>1, <2>3 DEF FatInv
<1>2. ASSUME FatInv, [FatNext]_fatVars
      PROVE  [answer'.op = "read" => ReadIsRight(answer')]_answer
  <2>1. CASE \E offset, n \in 0 .. MaxRead : VfsRead(offset, n)
    <3>1. PICK offset \in 0 .. MaxRead, n \in 0 .. MaxRead : VfsRead(offset, n)
      BY <2>1
    <3>2. offset \in Nat /\ n \in Nat
      BY FatAssumption
    <3>3. volume.kind = "file" /\ UNCHANGED <<disk, volume>>
      BY <3>1 DEF VfsRead, ataVars
    <3>4. PICK b : b = answer'
      OBVIOUS
    <3>5. b = [op |-> "read", offset |-> offset, length |-> n,
               result |-> FatReadData(volume.inode, offset, n)]
      BY <3>1, <3>4 DEF VfsRead
    <3>6. /\ b.offset = offset /\ b.length = n
          /\ b.result = FatReadData(volume.inode, offset, n)
      BY <3>5
    <3>7. ReadIsRight(b)
      BY <1>2, <3>2, <3>3, <3>6, AnswerIsRight
    <3>8. Content' = Content /\ Whole' = Whole
      BY <3>3 DEF Content, Whole, Chain, Chains, Entry, EntryOn, EntryAt, ClusterCells, IsChain,
        StartOf, Base, FirstDataSector
    <3> QED BY <3>4, <3>7, <3>8 DEF ReadIsRight
  <2>2. CASE \E index \in 0 .. MaxIndex : VfsReaddir(index)
    BY <2>2 DEF VfsReaddir
  <2>3. CASE \E name \in Names : VfsFinddir(name)
    BY <2>3 DEF VfsFinddir
  <2>4. CASE \E r \in AtaRequests : Raw(r)
    BY <2>4 DEF Raw
  <2>5. CASE Take
    BY <2>5 DEF Take, NoAnswer
  <2>6. CASE UNCHANGED fatVars
    BY <2>6 DEF fatVars
  <2> QED BY <1>2, <2>1, <2>2, <2>3, <2>4, <2>5, <2>6 DEF FatNext
<1>3. FatInv /\ [FatNext]_fatVars => FatInv'
  BY StepKeepsFat
<1> QED BY <1>1, <1>2, <1>3, PTL DEF FatSpec, ReadsAreRight
=============================================================================
