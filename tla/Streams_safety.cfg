\* Two tasks, one stream, no shared listeners.
\* Every program may exit, or wait for input that never comes.
CONSTANTS
  Tasks = {t1, t2}
  NoTask = NoTask
  Nodes = {input}
  Shared = FALSE
  MaxIds = 3
  MaxWritten = 3
  MaxChunk = 2
CHECK_DEADLOCK FALSE
SPECIFICATION Spec
INVARIANT ReadersSleepOnlyWhenEmpty
INVARIANT OtherWaitsAreKept
PROPERTY StreamsBroadcast
