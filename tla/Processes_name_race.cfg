\* Names and exits.
\* Every process may exit, or wait for what never comes.
CONSTANTS
  Tasks = {t1, t2, t3, t4}
  Boot = {t1, t2, t3}
  Registrars = {t1}
  Faulty = {}
  Names = {n1}
CHECK_DEADLOCK FALSE
SPECIFICATION Spec
INVARIANT ResumedCallsComplete
