-------------------------- MODULE MCMessageQueues ---------------------------
(***************************************************************************)
(* MessageQueues for TLC: programs are interchangeable.                    *)
(***************************************************************************)
EXTENDS MessageQueues

ProcSymmetry == Permutations(Procs)
=============================================================================
