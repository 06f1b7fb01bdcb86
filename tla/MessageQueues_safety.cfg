\* Three programs, four messages.
\* Every program may exit, or wait for what never comes.
CONSTANTS
  Procs = {p1, p2, p3}
  MaxMessages = 4
SYMMETRY ProcSymmetry
CHECK_DEADLOCK FALSE
SPECIFICATION Spec
INVARIANT NoProbeInVain
INVARIANT RequestsAreKept
INVARIANT RepliesAnswer
