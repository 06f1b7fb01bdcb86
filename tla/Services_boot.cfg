\* One disk controller, one other driver, one program; one command.  No deadlock
\* check: the machine may be switched off, and nobody has to type.
CONSTANTS
  DriverFiles <- MCDriverFiles
  Functions <- MCFunctions
  Programs = {"shutdown"}
  MaxCommands = 1
SPECIFICATION Spec
PROPERTY AnswersFit
INVARIANT NoNullIsUsed
INVARIANT NobodyWaitsForItself
INVARIANT AwaitersAreKept
PROPERTY BootCompletes
CHECK_DEADLOCK FALSE
