------------------------------ MODULE FlatDisk ------------------------------
(***************************************************************************)
(* What the ata service promises: the disk is a row of cells, a read       *)
(* returns the cells it names, and a write changes those and no others.    *)
(***************************************************************************)
EXTENDS Naturals, Sequences

CONSTANTS MaxLength, Mark   \* the longest request; what a write puts on disk

VARIABLES
  disk,    \* address |-> cell
  reply    \* the data of the last reply

vars == <<disk, reply>>

\* The data of a write of n cells.
Payload(n) == [i \in 1 .. n |-> Mark + i]

Read(a, n) ==
  /\ reply' = [i \in 1 .. n |-> disk[a + i - 1]]
  /\ UNCHANGED disk

Write(a, n) ==
  /\ disk' = [x \in DOMAIN disk |-> IF x \in a .. a + n - 1
                                    THEN Payload(n)[x - a + 1] ELSE disk[x]]
  /\ reply' = <<1>>

Take == reply' = <<>> /\ UNCHANGED disk

Next == Take \/
  \E a \in DOMAIN disk, n \in 0 .. MaxLength :
    a .. a + n - 1 \subseteq DOMAIN disk /\ (Read(a, n) \/ Write(a, n))

Spec == reply = <<>> /\ [][Next]_vars
=============================================================================
