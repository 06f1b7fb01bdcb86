------------------------------ MODULE Mindrvr -------------------------------
(***************************************************************************)
(* The driver below the ata service (packages/ata/mindrvr.cpp): how a      *)
(* command for some sectors is carried out with a drive that answers in    *)
(* its own time, by an interrupt, or not at all.  The service has one      *)
(* command under way; `at` is where it is in it.  main uses drive 0; of    *)
(* drive 1 only the detection matters.                                     *)
(*                                                                         *)
(* The drive, its interrupt line and the bus master are hardware.  They    *)
(* act between any two steps of the driver.  A time out may come whenever  *)
(* the driver waits for something that has not happened.  Disk and memory  *)
(* are counted in cells, SectorSize to a sector.                           *)
(***************************************************************************)
EXTENDS DiskCells

CONSTANTS
  Segment,       \* 64 KiB, over whose ends the bus master does not count
  MaxPrd,        \* MAX_PRD
  DriveKinds,    \* what may be attached, functions {0, 1} -> "none", "ATA", "ATAPI"
  Sectors,       \* where commands may start
  Buffers,       \* the physical addresses of the buffers of commands
  MbrBuffer,     \* that of hdd_mbr
  Signature,     \* 0xAA55
  DiskSize, MemorySize,  \* in cells
  MaxCommands    \* bound: the commands after the first

\* ata_read_sectors asks for no more than MaxTransfer, for which the list suffices.
\* hdd_mbr, in the bss of the service, does not hold the signature to begin with.
ASSUME MindrvrAssumption ==
  /\ {SectorSize, MaxTransfer, Segment, MaxPrd} \subseteq Nat \ {0}
  /\ MaxTransfer * SectorSize <= (MaxPrd - 1) * Segment
  /\ Sectors \cup Buffers \cup {MbrBuffer, MaxCommands, DiskSize, MemorySize} \subseteq Nat
  /\ MbrBuffer \notin Buffers
  /\ \A s \in Sectors : (s + MaxTransfer) * SectorSize <= DiskSize
  /\ \A b \in Buffers : b + MaxTransfer * SectorSize <= MemorySize
  /\ MbrBuffer + SectorSize <= MemorySize
  /\ DriveKinds \subseteq [{0, 1} -> {"none", "ATA", "ATAPI"}]
  /\ \A x \in 0 .. MemorySize : Signature # <<"memory", x>>

VARIABLES
  \* The driver.
  at,            \* where it is
  request,       \* the command: [op, sector, count, buffer]
  numSect, bufAddr,  \* what is left to do
  ec,            \* reg_cmd_info.ec, 0 when there was no error
  types,         \* reg_config_info
  dma,           \* dma_enabled, and whether pio_bmide_base_addr is set
  status,        \* the last status, in the local variable
  intStatus,     \* int_ata_status
  commands,      \* how many were asked for
  \* The kernel and the hardware.
  hits,          \* irqListenHits of the service
  kinds,         \* the drives
  drive,         \* drive 0: its status, and what is left of its command
  slow,          \* whether drive 1 is not back from the reset
  intrq,         \* the interrupt line
  bm,            \* the bus master: [int, err, start, prds]
  memory,        \* address |-> cell
  \* History, see DiskCommands.
  moved, result, faulted

driverVars == <<request, numSect, bufAddr, types, dma, commands>>
lines == <<hits, intrq, bm>>
vars == <<at, driverVars, ec, status, intStatus, lines, kinds, drive, slow, disk, memory,
          moved, result, faulted>>

NoStatus == [bsy |-> FALSE, drq |-> FALSE, err |-> FALSE]
IdleDrive ==
  [bsy |-> FALSE, drq |-> FALSE, err |-> FALSE, op |-> "none", sector |-> 0, left |-> 0]
NoRequest == [op |-> "none", sector |-> 0, count |-> 0, buffer |-> 0]

\* CB_STAT and CB_ASTAT; only reading CB_STAT clears the interrupt line.
Stat == [bsy |-> drive.bsy, drq |-> drive.drq, err |-> drive.err]

Init ==
  /\ at = "config" /\ request = NoRequest /\ numSect = 0 /\ bufAddr = 0
  /\ ec = 0 /\ types = [d \in {0, 1} |-> "none"] /\ dma = FALSE
  /\ status = NoStatus /\ intStatus = NoStatus /\ commands = 0
  /\ hits = 0 /\ kinds \in DriveKinds /\ drive = IdleDrive
  /\ slow = FALSE /\ intrq = FALSE
  /\ bm = [int |-> FALSE, err |-> FALSE, start |-> FALSE, prds |-> <<>>]
  /\ disk = [x \in 0 .. DiskSize - 1 |->
               IF x = SectorSize - 1 THEN Signature ELSE <<"disk", x>>]
  /\ memory = [x \in 0 .. MemorySize - 1 |-> <<"memory", x>>]
  /\ moved = 0 /\ result = "none" /\ faulted = FALSE

-----------------------------------------------------------------------------
(* The hardware.                                                           *)

\* An edge of the interrupt line is an interrupt, and sets the bus master's bit.
Interrupt ==
  /\ intrq' = TRUE
  /\ hits' = IF intrq THEN hits ELSE hits + 1

\* What a drive does with a command: one that is busy, or absent, does nothing.
Accept(op, sector, n) ==
  IF kinds[0] = "none" \/ drive.bsy THEN drive
  ELSE [bsy |-> TRUE, drq |-> FALSE, err |-> FALSE,
        op |-> IF kinds[0] = "ATA" THEN op ELSE "refused",
        sector |-> sector, left |-> IF n = 0 THEN MaxTransfer ELSE n]

\* A drive has a sector ready, or room for one, or is done.
Answer ==
  /\ drive.bsy
  /\ \/ /\ drive.op = "read"
        /\ drive' = [drive EXCEPT !.bsy = FALSE, !.drq = TRUE]
        /\ Interrupt /\ bm' = [bm EXCEPT !.int = TRUE]
     \/ /\ drive.op = "write"
        /\ drive' = [drive EXCEPT !.bsy = FALSE, !.drq = drive.left > 0]
        /\ IF moved = 0 THEN UNCHANGED lines
           ELSE Interrupt /\ bm' = [bm EXCEPT !.int = TRUE]
     \/ /\ drive.op = "dma" /\ drive.left = 0
        /\ drive' = [drive EXCEPT !.bsy = FALSE]
        /\ Interrupt /\ bm' = [bm EXCEPT !.int = TRUE]
  /\ UNCHANGED <<at, driverVars, ec, status, intStatus, kinds, slow, disk, memory, moved, result,
                 faulted>>

\* It fails, with or without data; with DMA the bus may be what fails.
DriveFails ==
  /\ drive.bsy /\ drive.op # "reset"
  /\ \E drq \in BOOLEAN : /\ drq => drive.op \in {"read", "write"} /\ drive.left > 0
                          /\ drive' = [drive EXCEPT !.bsy = FALSE, !.drq = drq, !.err = TRUE]
  /\ Interrupt
  /\ \E err \in BOOLEAN : (err => drive.op = "dma") /\ bm' = [bm EXCEPT !.int = TRUE, !.err = err]
  /\ faulted' = TRUE
  /\ UNCHANGED <<at, driverVars, ec, status, intStatus, kinds, slow, disk, memory, moved, result>>

\* The addresses that the entries of a list stand for.
Addresses(prds) ==
  FlattenSeq([i \in DOMAIN prds |->
    LET a == prds[i].address
        n == IF prds[i].count = 0 THEN Segment ELSE prds[i].count
    IN  [k \in 1 .. n |-> (a \div Segment) * Segment + ((a + k - 1) % Segment)]])

\* The bus master moves a sector.
BusMasterMoves ==
  LET addresses == Addresses(bm.prds)
      index(a) == SelectInSeq(SubSeq(addresses, moved + 1, moved + SectorSize), LAMBDA x : x = a)
  IN  /\ bm.start /\ drive.bsy /\ drive.op = "dma" /\ drive.left > 0
      /\ memory' = [a \in DOMAIN memory |->
                      IF index(a) = 0 THEN memory[a]
                      ELSE disk[drive.sector * SectorSize + index(a) - 1]]
      /\ drive' = [drive EXCEPT !.sector = @ + 1, !.left = @ - 1]
      /\ moved' = moved + SectorSize
      /\ UNCHANGED <<at, driverVars, ec, status, intStatus, lines, kinds, slow, disk, result,
                     faulted>>

\* A drive is back from the reset.
ResetEnds ==
  /\ \/ /\ drive.bsy /\ drive.op = "reset"
        /\ drive' = IdleDrive /\ UNCHANGED slow
     \/ slow /\ slow' = FALSE /\ UNCHANGED drive
  /\ UNCHANGED <<at, driverVars, ec, status, intStatus, lines, kinds, disk, memory, moved, result,
                 faulted>>

Hardware == Answer \/ DriveFails \/ BusMasterMoves \/ ResetEnds

-----------------------------------------------------------------------------
(* Detection: reg_config and reg_reset.                                    *)

\* The drives whose registers keep what is written there; then the soft reset.
Detect ==
  /\ at = "config"
  /\ types' = [d \in {0, 1} |-> IF kinds[d] = "none" THEN "none" ELSE "unknown"]
  /\ drive' = IF kinds[0] = "none" THEN drive ELSE [IdleDrive EXCEPT !.bsy = TRUE, !.op = "reset"]
  /\ slow' = (kinds[1] # "none")
  /\ at' = "reset0"
  /\ UNCHANGED <<request, numSect, bufAddr, dma, commands, ec, status, intStatus, lines, kinds,
                 disk, memory, moved, result, faulted>>

\* The wait for drive 0.
AwaitDrive0 ==
  /\ at = "reset0"
  /\ at' = "reset1"
  /\ IF types[0] # "none" /\ drive.bsy THEN ec' = 1 /\ faulted' = TRUE
     ELSE UNCHANGED <<ec, faulted>>
  /\ intrq' = FALSE
  /\ UNCHANGED <<driverVars, status, intStatus, hits, bm, kinds, drive, slow, disk, memory, moved,
                 result>>

\* The signature of a drive is there when it is back from the reset.
Classify(d, away) == IF types[d] = "unknown" /\ ~away THEN kinds[d] ELSE types[d]

\* The wait for drive 1, which may still be busy when its registers are back,
\* and the types of both.
AwaitDrive1 ==
  /\ at = "reset1"
  /\ at' = "found"
  /\ \/ types[1] # "none" /\ slow /\ ec' = 2 /\ faulted' = TRUE
     \/ types[1] # "none" /\ ~slow /\ ec = 0 /\ ec' = 3 /\ faulted' = TRUE
     \/ (types[1] # "none" => ~slow) /\ UNCHANGED <<ec, faulted>>
  /\ types' = [d \in {0, 1} |-> Classify(d, IF d = 0 THEN drive.bsy ELSE slow)]
  /\ UNCHANGED <<request, numSect, bufAddr, dma, commands, status, intStatus, lines, kinds, drive,
                 slow, disk, memory, moved, result>>

\* main gives up without a drive, and reads the master boot record otherwise.
ReadBootRecord ==
  /\ at = "found"
  /\ IF types = [d \in {0, 1} |-> "none"]
     THEN at' = "exited" /\ UNCHANGED <<request, numSect, bufAddr>>
     ELSE /\ at' = "select"
          /\ request' = [op |-> "read", sector |-> 0, count |-> 1, buffer |-> MbrBuffer]
          /\ numSect' = 1 /\ bufAddr' = MbrBuffer
  /\ UNCHANGED <<types, dma, commands, ec, status, intStatus, lines, kinds, drive, slow, disk,
                 memory, moved, result, faulted>>

-----------------------------------------------------------------------------
(* The ends of a command.                                                  *)

\* The bus master's error, where there is a bus master, comes before the others.
Final(e) == IF dma /\ bm.err THEN 78 ELSE e

\* main goes on whatever the command returned; only the boot record is looked at.
End(e) ==
  /\ ec' = e
  /\ result' = IF e = 0 THEN "ok" ELSE "failed"
  /\ at' = IF request.buffer = MbrBuffer /\ memory[MbrBuffer + SectorSize - 1] # Signature
           THEN "panicked" ELSE "idle"

Continue(where) == at' = where /\ UNCHANGED <<ec, result>>

-----------------------------------------------------------------------------
(* set_up_xfer.                                                            *)

\* Mutant of PieceLength: an entry may go over the end of a segment.
PieceAcross(a, left) == Min({Segment, left})

PieceLength(a, left) ==
  LET n == Min({Segment, left})
      end == ((a + n) \div Segment) * Segment
  IN  IF (a + n) \div Segment # a \div Segment THEN end - a ELSE n

\* The list for bc cells at an address, at most one entry more than is allowed.
PrdList(address, bc) ==
  LET from[left \in 0 .. bc] ==
        LET a == address + bc - left
            n == PieceLength(a, left)
        IN  IF left = 0 THEN <<>>
            ELSE <<[address |-> a, count |-> n % Segment]>> \o from[left - n]
  IN  from[bc]

-----------------------------------------------------------------------------
(* The requests, as ata_read_sectors and ata_write_sectors make them.      *)

MayStart == at = "idle" /\ commands < MaxCommands

Begin(r) ==
  /\ request' = r /\ numSect' = r.count /\ bufAddr' = r.buffer
  /\ commands' = commands + 1 /\ moved' = 0

\* reg_pio_data_in_lba28 and reg_pio_data_out_lba28.
StartPio(op, sector, n, buffer) ==
  /\ MayStart
  /\ op = "read" => ~dma
  /\ Begin([op |-> op, sector |-> sector, count |-> n, buffer |-> buffer])
  /\ at' = "select"
  /\ bm' = [bm EXCEPT !.err = @ /\ ~dma]
  /\ UNCHANGED <<ec, types, dma, status, intStatus, hits, intrq, kinds, drive, slow, disk, memory,
                 result, faulted>>

\* dma_pci_lba28, until the list is set up.
StartDma(sector, n, buffer) ==
  LET prds == PrdList(buffer, n * SectorSize)
  IN  /\ MayStart /\ dma
      /\ Begin([op |-> "dma", sector |-> sector, count |-> n, buffer |-> buffer])
      /\ bm' = [int |-> FALSE, err |-> FALSE, start |-> FALSE, prds |-> prds]
      /\ IF Len(prds) > MaxPrd THEN at' = "idle" /\ ec' = 61 /\ result' = "failed"
         ELSE at' = "select" /\ UNCHANGED <<ec, result>>
      /\ UNCHANGED <<types, dma, status, intStatus, hits, intrq, kinds, drive, slow, disk, memory,
                     faulted>>

\* ATA_OP_SET_BAR4: there is a bus master.
SetBar4 ==
  /\ at = "idle" /\ ~dma
  /\ dma' = TRUE
  /\ UNCHANGED <<at, request, numSect, bufAddr, types, commands, ec, status, intStatus, lines,
                 kinds, drive, slow, disk, memory, moved, result, faulted>>

-----------------------------------------------------------------------------
(* Selection and issue.                                                    *)

\* sub_setup_command and the command register; it clears the interrupt line.
Issue ==
  /\ drive' = Accept(request.op, request.sector, request.count % MaxTransfer)
  /\ bm' = [bm EXCEPT !.start = (request.op = "dma")]
  /\ Continue(IF request.op = "write" THEN "poll" ELSE "wait")

\* Mutant of SelectFails: an error of an earlier command does not count.
SelectForgets == FALSE

\* sub_select returns the error code, which nothing resets.
SelectFails == ec # 0

\* sub_select checks only a drive that is known.
Select ==
  /\ at = "select"
  /\ \/ types[0] \in {"none", "unknown"} /\ Issue
     \/ /\ types[0] \in {"ATA", "ATAPI"} /\ ~drive.bsy /\ ~drive.drq
        /\ IF SelectFails THEN End(ec) /\ UNCHANGED <<drive, bm>> ELSE Issue
  /\ intrq' = FALSE
  /\ UNCHANGED <<driverVars, status, intStatus, hits, kinds, slow, disk, memory, moved, faulted>>

SelectTimesOut ==
  /\ at = "select"
  /\ types[0] \in {"ATA", "ATAPI"} /\ (drive.bsy \/ drive.drq)
  /\ End(11)
  /\ intrq' = FALSE /\ faulted' = (faulted \/ drive.bsy)
  /\ UNCHANGED <<driverVars, status, intStatus, hits, bm, kinds, drive, slow, disk, memory, moved>>

-----------------------------------------------------------------------------
(* Waiting: SYSTEM_WAIT_INTR_OR_TIMEOUT and sub_wait_poll.                 *)

\* With a bus master the status is read only where its bit says so.
ReadsStatus == dma => bm.int

TakeStatus ==
  /\ intStatus' = IF ReadsStatus THEN Stat ELSE intStatus
  /\ bm' = [bm EXCEPT !.int = @ /\ ~dma]

AfterWait ==
  CASE request.op = "read" -> "in" [] request.op = "write" -> "next" [] OTHER -> "dma"

\* An interrupt.  After an error a command by ports reads the status again and ends.
Wait ==
  /\ at = "wait" /\ hits > 0
  /\ hits' = hits - 1
  /\ TakeStatus
  /\ IF ec # 0 /\ request.op # "dma"
     THEN End(Final(ec)) /\ intrq' = FALSE /\ status' = Stat
     ELSE Continue(AfterWait) /\ intrq' = (intrq /\ ~ReadsStatus) /\ status' = intStatus'
  /\ UNCHANGED <<driverVars, kinds, drive, slow, disk, memory, moved, faulted>>

TimeOutCode == CASE request.op = "read" -> 34 [] request.op = "write" -> 44 [] OTHER -> 73

\* Mutant of WaitTimesOut: irqWait for irqWaitTimeout.
WaitForEver == FALSE

\* irqWaitTimeout returned false; DMA is stopped.
WaitTimesOut ==
  /\ at = "wait" /\ hits = 0
  /\ intStatus' = IF ReadsStatus THEN Stat ELSE intStatus
  /\ bm' = [bm EXCEPT !.int = @ /\ ~dma, !.start = FALSE]
  /\ End(IF request.op = "dma" THEN 73 ELSE Final(TimeOutCode))
  /\ intrq' = FALSE /\ status' = Stat
  /\ faulted' = (faulted \/ drive.bsy \/ kinds[0] = "none")
  /\ UNCHANGED <<driverVars, hits, kinds, drive, slow, disk, memory, moved>>

-----------------------------------------------------------------------------
(* exec_pio_data_in_cmd.                                                   *)

Ready == status.drq /\ ~status.bsy
Bad(st) == st.bsy \/ st.err

NextBuffer == bufAddr + SectorSize

\* The sector at hand is moved through the data register, even with an error.
TransferIn ==
  /\ at = "in" /\ Continue("inCheck")
  /\ IF Ready
     THEN /\ memory' = Put(memory, bufAddr, Cells(disk, drive.sector * SectorSize, SectorSize))
          /\ numSect' = numSect - 1 /\ bufAddr' = NextBuffer
          /\ moved' = moved + SectorSize
          /\ drive' = [drive EXCEPT !.drq = FALSE, !.sector = @ + 1, !.left = @ - 1,
                                    !.bsy = drive.left > 1 /\ ~drive.err]
     ELSE UNCHANGED <<memory, numSect, bufAddr, moved, drive>>
  /\ UNCHANGED <<request, types, dma, commands, status, intStatus, lines, kinds, slow, disk,
                 faulted>>

CheckIn ==
  /\ at = "inCheck"
  /\ \/ Bad(status) /\ End(Final(31)) /\ UNCHANGED intrq
     \/ ~Bad(status) /\ ~status.drq /\ End(Final(32)) /\ UNCHANGED intrq
     \/ /\ ~Bad(status) /\ status.drq /\ numSect = 0
        /\ End(Final(IF Bad(Stat) \/ drive.drq THEN 33 ELSE 0)) /\ intrq' = FALSE
     \/ ~Bad(status) /\ status.drq /\ numSect > 0 /\ Continue("wait") /\ UNCHANGED intrq
  /\ UNCHANGED <<driverVars, status, intStatus, hits, bm, kinds, drive, slow, disk, memory, moved,
                 faulted>>

-----------------------------------------------------------------------------
(* exec_pio_data_out_cmd.                                                  *)

\* No interrupt comes before the first sector.
Poll ==
  /\ at = "poll" /\ ~drive.bsy
  /\ status' = Stat /\ Continue("out")
  /\ UNCHANGED <<driverVars, intStatus, lines, kinds, drive, slow, disk, memory, moved, faulted>>

PollTimesOut ==
  /\ at = "poll" /\ drive.bsy
  /\ status' = Stat /\ End(Final(47))
  /\ faulted' = TRUE
  /\ UNCHANGED <<driverVars, intStatus, lines, kinds, drive, slow, disk, memory, moved>>

TransferOut ==
  /\ at = "out" /\ Continue("outCheck")
  /\ IF Ready
     THEN /\ disk' = Put(disk, drive.sector * SectorSize, Cells(memory, bufAddr, SectorSize))
          /\ numSect' = numSect - 1 /\ bufAddr' = NextBuffer
          /\ moved' = moved + SectorSize
          /\ drive' = [drive EXCEPT !.drq = FALSE, !.sector = @ + 1, !.left = @ - 1,
                                    !.bsy = ~drive.err]
     ELSE UNCHANGED <<disk, numSect, bufAddr, moved, drive>>
  /\ UNCHANGED <<request, types, dma, commands, status, intStatus, lines, kinds, slow, memory,
                 faulted>>

CheckOut ==
  /\ at = "outCheck"
  /\ CASE Bad(status)                  -> End(Final(41))
       [] ~Bad(status) /\ ~status.drq  -> End(Final(42))
       [] OTHER                        -> Continue("wait")
  /\ UNCHANGED <<driverVars, status, intStatus, lines, kinds, drive, slow, disk, memory, moved,
                 faulted>>

\* After the wait: the next sector, or the end.
NextOut ==
  /\ at = "next"
  /\ IF numSect > 0 THEN Continue("out")
     ELSE End(Final(IF Bad(status) \/ status.drq THEN 43 ELSE 0))
  /\ UNCHANGED <<driverVars, status, intStatus, lines, kinds, drive, slow, disk, memory, moved,
                 faulted>>

-----------------------------------------------------------------------------
\* The end of exec_pci_ata_cmd.
CheckDma ==
  /\ at = "dma"
  /\ bm' = [bm EXCEPT !.start = FALSE]
  /\ End(CASE ec # 0                       -> ec
           [] ec = 0 /\ bm.err             -> 78
           [] ec = 0 /\ ~bm.err /\ (Bad(status) \/ status.drq) -> 74
           [] OTHER                        -> 0)
  /\ intrq' = (intrq /\ ec = 0 /\ ~bm.err)
  /\ UNCHANGED <<driverVars, status, intStatus, hits, kinds, drive, slow, disk, memory,
                 moved, faulted>>

Driver ==
  \/ Detect \/ AwaitDrive0 \/ AwaitDrive1 \/ ReadBootRecord
  \/ Select \/ SelectTimesOut \/ Wait \/ WaitTimesOut
  \/ TransferIn \/ CheckIn \/ Poll \/ PollTimesOut \/ TransferOut \/ CheckOut \/ NextOut
  \/ CheckDma

Requests ==
  \/ \E sector \in Sectors, n \in 1 .. MaxTransfer, buffer \in Buffers :
       \/ \E op \in {"read", "write"} : StartPio(op, sector, n, buffer)
       \/ StartDma(sector, n, buffer)
  \/ SetBar4

Next == Driver \/ Requests \/ Hardware

\* The service runs while it does not wait, and the timer ends its waits.
Spec == Init /\ [][Next]_vars /\ WF_vars(Driver)

-----------------------------------------------------------------------------
(* Properties.                                                             *)

Resting == {"idle", "exited", "panicked"}

CommandOf(r) ==
  [write |-> r.op = "write", count |-> r.count * SectorSize,
   from |-> IF r.op = "write" THEN r.buffer ELSE r.sector * SectorSize,
   to |-> IF r.op = "write" THEN r.sector * SectorSize ELSE r.buffer]

NoCommand == CommandOf(NoRequest)
Commands == {CommandOf(r) : r \in [op : {"read", "write"}, sector : Sectors \cup {0},
                                   count : 1 .. MaxTransfer, buffer : Buffers \cup {MbrBuffer}]}

\* The one under way.
Outside == Resting \cup {"config", "reset0", "reset1", "found"}
Command == IF at \in Outside THEN NoCommand ELSE CommandOf(request)

Abstract == INSTANCE DiskCommands WITH
  Commands <- Commands, NoCommand <- NoCommand, command <- Command

\* The driver implements DiskCommands: whenever interrupts, answers, errors and
\* time outs come, by ports or by DMA over the ends of segments, a command that
\* returns 0 has moved its cells to their places, and one that fails has moved a
\* first part of them, and fails because of the hardware, not because it lost an
\* interrupt or took one that was not its own.
CommandsTransfer == Abstract!Spec

\* A failure is for good, since nothing resets reg_cmd_info.ec: after it nothing
\* is read or written, so that no late answer of the drive is taken for that of
\* another command (main, which looks at no result, then answers requests with
\* what its buffers held).
FailuresAreForGood == [][ec # 0 => UNCHANGED <<disk, memory>>]_vars

\* Every command, and the detection, comes to an end, whatever the drives do.
CommandsEnd == at \notin Resting ~> at \in Resting
=============================================================================
