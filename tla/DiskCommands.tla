---------------------------- MODULE DiskCommands ----------------------------
(***************************************************************************)
(* What a driver of a disk promises its caller: a command moves the cells  *)
(* it names, in order, between disk and memory, and nothing else moves; it *)
(* ends well only when it has moved all of them, and badly only where the  *)
(* hardware has given a reason.                                            *)
(***************************************************************************)
EXTENDS Naturals

CONSTANTS Commands, NoCommand   \* records [write, from, to, count]

VARIABLES
  disk, memory,   \* address |-> cell
  command,        \* the one under way, or NoCommand
  moved,          \* how many cells it has moved
  result,         \* of the last command
  faulted         \* whether the hardware has failed or been too slow

vars == <<disk, memory, command, moved, result, faulted>>

Init == command = NoCommand /\ moved = 0 /\ result = "none" /\ ~faulted

Start(c) ==
  /\ command = NoCommand
  /\ command' = c /\ moved' = 0
  /\ UNCHANGED <<disk, memory, result, faulted>>

\* target, where cells m to n - 1 of a command have come from source.
Moved(source, target, m, n) ==
  [a \in DOMAIN target |->
     IF a \in command.to + m .. command.to + n - 1
     THEN source[command.from + (a - command.to)] ELSE target[a]]

Move(n) ==
  /\ command # NoCommand
  /\ moved < n /\ n <= command.count
  /\ moved' = n
  /\ IF command.write
     THEN disk' = Moved(memory, disk, moved, n) /\ UNCHANGED memory
     ELSE memory' = Moved(disk, memory, moved, n) /\ UNCHANGED disk
  /\ UNCHANGED <<command, result, faulted>>

Succeed ==
  /\ command # NoCommand /\ moved = command.count
  /\ command' = NoCommand /\ result' = "ok"
  /\ UNCHANGED <<disk, memory, moved, faulted>>

Fail ==
  /\ command # NoCommand
  /\ command' = NoCommand /\ result' = "failed"
  /\ faulted'
  /\ UNCHANGED <<disk, memory, moved>>

Fault ==
  /\ faulted'
  /\ UNCHANGED <<disk, memory, command, moved, result>>

Next ==
  \/ \E c \in Commands : Start(c) \/ \E n \in 1 .. c.count : Move(n)
  \/ Succeed \/ Fail \/ Fault

Spec == Init /\ [][Next]_vars
=============================================================================
