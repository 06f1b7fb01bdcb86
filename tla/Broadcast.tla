----------------------------- MODULE Broadcast ------------------------------
(***************************************************************************)
(* What streams promise: a listener of a node receives every byte written  *)
(* to it after the listener joined, once, in the order of writing.  Bytes  *)
(* are numbered in that order, per node.                                   *)
(***************************************************************************)
EXTENDS Naturals, Sequences

CONSTANTS Nodes, Listeners, MaxChunk   \* MaxChunk \in Nat

VARIABLES
  written,   \* node |-> how many bytes have been written to it
  joined,    \* node |-> listener |-> how many had been when it joined
  got        \* node |-> listener |-> the bytes it has received

vars == <<written, joined, got>>

Init ==
  /\ written = [s \in Nodes |-> 0]
  /\ joined = [s \in Nodes |-> <<>>]
  /\ got = [s \in Nodes |-> <<>>]

Extended(f, x, v) == [y \in DOMAIN f \cup {x} |-> IF y = x THEN v ELSE f[y]]

Publish(s, n) ==
  /\ written' = [written EXCEPT ![s] = @ + n]
  /\ UNCHANGED <<joined, got>>

Join(s, l) ==
  /\ l \notin DOMAIN joined[s]
  /\ joined' = [joined EXCEPT ![s] = Extended(@, l, written[s])]
  /\ got' = [got EXCEPT ![s] = Extended(@, l, <<>>)]
  /\ UNCHANGED written

\* l receives the k bytes that follow those it has.
Receive(s, l, k) ==
  /\ l \in DOMAIN joined[s]
  /\ joined[s][l] + Len(got[s][l]) + k <= written[s]
  /\ got' = [got EXCEPT ![s][l] =
               @ \o [i \in 1 .. k |-> joined[s][l] + Len(@) + i]]
  /\ UNCHANGED <<written, joined>>

Next ==
  \E s \in Nodes :
    \/ \E n \in 1 .. MaxChunk : Publish(s, n)
    \/ \E l \in Listeners : Join(s, l)
    \/ \E l \in Listeners, k \in 1 .. MaxChunk : Receive(s, l, k)

Spec == Init /\ [][Next]_vars
=============================================================================
