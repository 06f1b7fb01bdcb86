\* Three processes at boot, one spawned; two names; two may fault.
\* Every process may exit, or wait for what never comes.
CONSTANTS
  Tasks = {t1, t2, t3, t4}
  Boot = {t1, t2, t3}
  Registrars = {t1}
  Faulty = {t2, t4}
  Names = {n1, n2}
CHECK_DEADLOCK FALSE
SPECIFICATION Spec
INVARIANT TypeOK
INVARIANT OnlyKillsLeaveNames
INVARIANT NoWaitInVain
INVARIANT ResumedWaitsComplete
PROPERTY WaitersAreTold
