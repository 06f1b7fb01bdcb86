\* Three tasks at boot and one spawned later, two interrupt lines.
CONSTANTS
  idle = idle
  d1 = d1
  d2 = d2
  u = u
  Idle = idle
  NoIrq = NoIrq
  Tasks <- SmallTasks
  Drivers <- SmallDrivers
  BootList <- SmallBootList
  Irqs = {irq1, irq2}
  Timeouts = {0, 3}
  Sleeps = {2}
  UsPerTick = 2
  MaxHits = 2
  MaxWakeId = 2
SPECIFICATION Spec
INVARIANT TimeoutIsStillQueued
