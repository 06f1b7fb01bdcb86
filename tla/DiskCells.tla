----------------------------- MODULE DiskCells ------------------------------
(***************************************************************************)
(* The disk of the ata service and of the driver below it: cells, so many  *)
(* to a sector, of which a command moves a row.                            *)
(***************************************************************************)
EXTENDS Naturals, SequencesExt

CONSTANTS
  SectorSize,    \* 512 bytes
  MaxTransfer    \* 256 sectors, the most in one command

VARIABLE disk    \* address |-> cell

\* The cells of a row, and what is there when data have come over them.
Cells(m, a, n) == [i \in 1 .. n |-> m[a + i - 1]]
Put(m, a, data) ==
  [x \in DOMAIN m |-> IF x \in a .. a + Len(data) - 1 THEN data[x - a + 1] ELSE m[x]]
=============================================================================
