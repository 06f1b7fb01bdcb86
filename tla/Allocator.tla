----------------------------- MODULE Allocator ------------------------------
(***************************************************************************)
(* What a heap promises: an allocation gets addresses of the arena that    *)
(* no live allocation has, keeps them until it is freed, and is not        *)
(* disturbed by the others.  Nothing is promised once an empty allocation  *)
(* has been freed.                                                         *)
(***************************************************************************)
EXTENDS Naturals

CONSTANTS Arena, Starts, Sizes   \* sets of numbers

VARIABLES
  live,     \* the allocations, records [start, size]
  ruined    \* whether an empty one was freed

Addresses(b) == b.start .. b.start + b.size - 1

Init == live = {} /\ ruined = FALSE

Allocate(b) ==
  /\ Addresses(b) \subseteq Arena
  /\ \A l \in live : Addresses(l) \cap Addresses(b) = {}
  /\ live' = live \cup {b} /\ UNCHANGED ruined

Free(b) ==
  IF b.size = 0 THEN ruined'
  ELSE live' = live \ {b} /\ UNCHANGED ruined

Next ==
  \/ \E s \in Starts, n \in Sizes : Allocate([start |-> s, size |-> n])
  \/ \E b \in live : Free(b)
  \/ ruined /\ ruined'

Spec == Init /\ [][Next]_<<live, ruined>>
=============================================================================
